------------------------------- MODULE Xmodem -------------------------------
(* Xmodem (XmodemSender and XmodemReceiver, transfer/xmodem.rs) and the      *)
(* Ymodem batches built on it (transfer/ymodem.rs), our own implementation   *)
(* at both ends of a line that damages, loses and adds bytes and is slow.    *)
(*                                                                           *)
(* A block is one unit, whatever its size; a frame is one item of toR, a     *)
(* reply byte one item of toS.  Each end is where the code waits for its     *)
(* next byte: an action is one read and all the code does until the next.    *)
EXTENDS Naturals, Sequences, FiniteSets

CONSTANTS MaxFiles,     \* files of a Ymodem batch
          MaxBlocks,    \* blocks of a file
          BatchBlocks,  \* blocks of a file of a batch
          Modulus,      \* of the block number (256 in the code)
          MaxRetries,   \* 10 in the code
          MaxEots,      \* 10 in the code
          MaxFallback,  \* time-outs before the receiver asks with NAK (3)
          MaxFaults     \* bound: faults of the line and late answers

Kinds == {"damage", "garble", "cut", "lose", "noise", "late"}
ASSUME BlocksAssumption == MaxBlocks \in Nat /\ BatchBlocks \in Nat
ASSUME NumbersAssumption == Modulus \in Nat /\ Modulus >= 2
ASSUME TriesAssumption == /\ MaxRetries \in Nat /\ MaxFallback \in Nat
                          /\ MaxEots \in Nat /\ MaxEots >= 2

VARIABLES
    batch,    \* Ymodem
    sizes,    \* blocks of each file to send
    snd, rcv, \* the ends: at, file, block, tries...
    toR, toS,
    disk,     \* blocks of each file received
    faults    \* how often the line has done what

vars == <<batch, sizes, snd, rcv, toR, toS, disk, faults>>

Files  == DOMAIN sizes
Ended  == {"done", "failed"}

Item(type)          == [type |-> type]
BlockFrame(k, crc)  == [type |-> "block", num |-> k % Modulus, body |-> k, crc |-> crc,
                        good |-> TRUE, header |-> TRUE, whole |-> TRUE]
HeaderFrame(f)      == [type |-> "block", num |-> 0, body |-> 0, crc |-> TRUE,
                        good |-> TRUE, header |-> TRUE, whole |-> TRUE, file |-> f]
NullFrame           == HeaderFrame(0)
HasBody(m)          == m.type = "block"
IsHeader(m)         == HasBody(m) /\ m.body = 0
Stray               == 0     \* a file with a name made of data
Original(f)         == [i \in 1..sizes[f] |-> i]

SendR(items) == toR' = toR \o items
SendS(bytes) == toS' = toS \o bytes
Quietly(ch)  == UNCHANGED ch

----------------------------------------------------------------------------
(* The sender                                                               *)

SenderAt(a) == snd' = [snd EXCEPT !.at = a]
SenderFails == SenderAt("failed")

(* The head of the loop of send_core: the next block, or the end of file.   *)
Offer(f, k, crc) ==
    /\ snd' = [snd EXCEPT !.at = IF k > sizes[f] THEN "eot" ELSE "data",
                          !.file = f, !.block = k, !.crc = crc, !.tries = 0]
    /\ SendR(<<IF k > sizes[f] THEN Item("eot") ELSE BlockFrame(k, crc)>>)

(* send_from: C asks for CRCs, NAK for checksums.                           *)
SenderInit(b) ==
    /\ snd.at = "init"
    /\ IF b \in {"C", "NAK"} THEN Offer(1, 1, b = "C") ELSE SenderFails /\ Quietly(toR)

\* MUTANT: a NAK is taken for an ACK.
SenderData_any(b) ==
    /\ snd.at = "data"
    /\ \/ b # "CAN" /\ Offer(snd.file, snd.block + 1, snd.crc)
       \/ b = "CAN" /\ SenderFails /\ Quietly(toR)

SenderData(b) ==
    /\ snd.at = "data"
    /\ \/ b = "ACK" /\ Offer(snd.file, snd.block + 1, snd.crc)
       \/ b = "CAN" /\ SenderFails /\ Quietly(toR)
       \/ /\ b \notin {"ACK", "CAN"}
          /\ IF snd.tries < MaxRetries
             THEN snd' = [snd EXCEPT !.tries = @ + 1] /\ SendR(<<BlockFrame(snd.block, snd.crc)>>)
             ELSE SenderFails /\ SendR(<<Item("can")>>)

\* MUTANT: the last file of a batch is skipped.
FileSent_early ==
    snd' = [snd EXCEPT !.file = @ + 1,
                       !.at = CASE ~batch                                     -> "done"
                                [] batch /\ snd.file + 1 < Cardinality(Files) -> "ask"
                                [] OTHER                                      -> "askend"]

(* The file is over after the ACK of an EOT, or after the last EOT.         *)
FileSent ==
    snd' = [snd EXCEPT !.file = @ + 1,
                       !.at = CASE ~batch                                -> "done"
                                [] batch /\ snd.file < Cardinality(Files) -> "ask"
                                [] OTHER                                  -> "askend"]

SenderEot(answered) ==
    /\ snd.at = "eot"
    /\ IF answered \/ snd.tries + 1 >= MaxEots
       THEN FileSent /\ Quietly(toR)
       ELSE /\ snd' = [snd EXCEPT !.tries = @ + 1, !.again = TRUE]
            /\ SendR(<<Item("eot")>>)

(* YmodemSender::send: the header of a file between C and ACK, C.           *)
SenderHeader(b) ==
    \/ /\ snd.at = "ask"
       /\ IF b = "C" THEN SenderAt("headed") /\ SendR(<<HeaderFrame(snd.file)>>)
                     ELSE SenderFails /\ Quietly(toR)
    \/ /\ snd.at = "headed"
       /\ IF b = "ACK" THEN SenderAt("asked") ELSE SenderFails
       /\ Quietly(toR)
    \/ /\ snd.at = "asked"
       /\ IF b = "C" THEN Offer(snd.file, 1, TRUE) ELSE SenderFails /\ Quietly(toR)
    \/ /\ snd.at = "askend"
       /\ IF b = "C" THEN SenderAt("ended") /\ SendR(<<NullFrame>>)
                     ELSE SenderAt("done") /\ Quietly(toR)
    \/ snd.at = "ended" /\ SenderAt("done") /\ Quietly(toR)

SenderReads ==
    /\ toS # <<>> /\ snd.at \notin Ended
    /\ toS' = Tail(toS)
    /\ LET b == Head(toS) IN
       SenderInit(b) \/ SenderData(b) \/ SenderEot(b = "ACK") \/ SenderHeader(b)
    /\ UNCHANGED <<batch, sizes, rcv, disk, faults>>

(* Only the EOT is sent again after a time-out; the answer to the null      *)
(* header may fail to come.                                                 *)
SenderWaited ==
    \/ SenderEot(FALSE)
    \/ snd.at = "ended" /\ SenderAt("done") /\ Quietly(toR)
    \/ snd.at \notin {"eot", "ended"} \cup Ended /\ SenderFails /\ Quietly(toR)

----------------------------------------------------------------------------
(* The receiver                                                             *)

ReceiverAt(a) == rcv' = [rcv EXCEPT !.at = a]
ReceiverFails == ReceiverAt("failed")
InitChar      == IF rcv.crc THEN "C" ELSE "NAK"

\* MUTANT: too many errors leave the receiver waiting.
Retry_forever(reply, last) ==
    IF rcv.tries < MaxRetries
    THEN rcv' = [rcv EXCEPT !.tries = @ + 1] /\ SendS(<<reply>>)
    ELSE UNCHANGED rcv /\ SendS(last)

(* An error counts; too many end the reception, with what is sent then.     *)
Retry(reply, last) ==
    IF rcv.tries < MaxRetries
    THEN rcv' = [rcv EXCEPT !.tries = @ + 1] /\ SendS(<<reply>>)
    ELSE ReceiverFails /\ SendS(last)

Duplicate(m)  == m.num = (rcv.expected + Modulus - 1) % Modulus
\* MUTANT: any block but the last one again is the next.
InSequence_any(m) == TRUE

InSequence(m) == m.num = rcv.expected % Modulus
Checked(m)    == m.good

(* A data block, in the order of receive_core's checks.  A block that lost  *)
(* bytes, or carries a checksum where a CRC is read, leaves the receiver    *)
(* waiting for more until it gives up.                                      *)
ReceiveBlock(m) ==
    CASE ~m.header -> /\ Retry("NAK", <<"CAN">>)            \* and flush_input
                      /\ toR' = <<>> /\ UNCHANGED disk
      [] m.header /\ (~m.whole \/ rcv.crc # m.crc) ->
                      ReceiverFails /\ toR' = Tail(toR) /\ UNCHANGED <<toS, disk>>
      [] m.header /\ m.whole /\ rcv.crc = m.crc /\ ~Checked(m) ->
                      Retry("NAK", <<"CAN">>) /\ toR' = Tail(toR) /\ UNCHANGED disk
      [] OTHER ->
         /\ toR' = Tail(toR)
         /\ \/ /\ Duplicate(m)
               /\ SendS(<<"ACK">>) /\ UNCHANGED <<rcv, disk>>
            \/ /\ ~Duplicate(m) /\ ~InSequence(m)
               /\ SendS(<<"CAN">>) /\ ReceiverFails /\ UNCHANGED disk
            \/ /\ ~Duplicate(m) /\ InSequence(m)
               /\ disk' = [disk EXCEPT ![rcv.file] = Append(@, IF m.good THEN m.body ELSE 0)]
               /\ SendS(<<"ACK">>)
               /\ rcv' = [rcv EXCEPT !.expected = @ + 1, !.tries = 0]

(* set_len cuts a file to the size its header gave, or fills it with zeros. *)
Sized(f) == [i \in 1..sizes[f] |-> IF i <= Len(disk[f]) THEN disk[f][i] ELSE 0]
SetLen   == disk' = IF batch /\ rcv.file # Stray
                    THEN [disk EXCEPT ![rcv.file] = Sized(rcv.file)] ELSE disk

\* MUTANT: the next header is not asked for.
Eot_silent ==
    SendS(<<"ACK">>) /\ ReceiverAt(IF batch THEN "header" ELSE "done") /\ SetLen

(* EOT: Xmodem is over; Ymodem gives the file its size and asks for more.   *)
Eot ==
    /\ IF batch THEN ReceiverAt("header") /\ SendS(<<"ACK", "C">>)
                ELSE ReceiverAt("done") /\ SendS(<<"ACK">>)
    /\ SetLen

ReceiverCore(m) ==
    /\ rcv.at = "core"
    /\ \/ m.type = "block" /\ ReceiveBlock(m)
       \/ m.type = "eot" /\ Eot /\ toR' = Tail(toR)
       \/ m.type = "can" /\ ReceiverFails /\ toR' = Tail(toR) /\ UNCHANGED <<toS, disk>>
       \/ m.type = "noise" /\ Retry("NAK", <<>>) /\ toR' = Tail(toR) /\ UNCHANGED disk

(* YmodemReceiver::receive: a header names a file, a null one or an EOT     *)
(* ends the batch.  Nothing tells a header from a block of data.            *)
ReceiveHeader(m) ==
    CASE ~m.header \/ ~m.whole -> ReceiverFails /\ UNCHANGED <<toS, disk>>
      [] m.header /\ m.whole /\ ~m.good ->
           SendS(<<"NAK", "C">>) /\ UNCHANGED <<rcv, disk>>
      [] m.header /\ m.whole /\ m.good /\ m = NullFrame ->
           ReceiverAt("done") /\ SendS(<<"ACK">>) /\ UNCHANGED disk
      [] OTHER ->
           LET f == IF IsHeader(m) THEN m.file ELSE Stray IN
           /\ rcv' = [rcv EXCEPT !.at = "core", !.file = f, !.expected = 1, !.tries = 0]
           /\ SendS(<<"ACK", "C">>)
           /\ disk' = [disk EXCEPT ![f] = <<>>]

ReceiverHeader(m) ==
    /\ rcv.at = "header"
    /\ toR' = Tail(toR)
    /\ \/ HasBody(m) /\ ReceiveHeader(m)
       \/ m.type = "eot" /\ ReceiverAt("done") /\ SendS(<<"ACK">>) /\ UNCHANGED disk
       \/ m.type \in {"can", "noise"} /\ ReceiverFails /\ UNCHANGED <<toS, disk>>

ReceiverReads ==
    /\ toR # <<>>
    /\ ReceiverCore(Head(toR)) \/ ReceiverHeader(Head(toR))
    /\ UNCHANGED <<batch, sizes, snd, faults>>

(* After MaxFallback time-outs the receiver asks for checksums, which it    *)
(* does not read.                                                           *)
ReceiverWaited ==
    \/ rcv.at = "core" /\ Retry(IF rcv.tries + 1 > MaxFallback THEN "NAK" ELSE InitChar, <<>>)
    \/ rcv.at = "header" /\ ReceiverFails /\ UNCHANGED toS

----------------------------------------------------------------------------
(* Time and the line                                                        *)

Used == faults["damage"] + faults["garble"] + faults["cut"]
        + faults["lose"] + faults["noise"] + faults["late"]
Spend(kind) ==
    /\ Used < MaxFaults
    /\ faults' = [faults EXCEPT ![kind] = @ + 1]

(* Nothing is on its way to the end that waits, and nothing will be before  *)
(* it has waited long enough.                                               *)
SenderStarves   == toS = <<>> /\ (toR = <<>> \/ rcv.at \in Ended)
ReceiverStarves == toR = <<>> /\ (toS = <<>> \/ snd.at \in Ended)

SenderTimesOut ==
    /\ SenderStarves /\ SenderWaited
    /\ UNCHANGED <<batch, sizes, rcv, toS, disk, faults>>
ReceiverTimesOut ==
    /\ ReceiverStarves /\ ReceiverWaited
    /\ UNCHANGED <<batch, sizes, snd, toR, disk, faults>>

(* The answer is only slow.                                                 *)
Late ==
    /\ Spend("late")
    /\ \/ toS = <<>> /\ SenderWaited /\ UNCHANGED <<rcv, toS>>
       \/ toR = <<>> /\ ReceiverWaited /\ UNCHANGED <<snd, toR>>
    /\ UNCHANGED <<batch, sizes, disk>>

Spoil(i, kind) ==
    toR' = [toR EXCEPT ![i] =
              CASE kind = "damage" -> [@ EXCEPT !.good = FALSE]
                [] kind = "garble" -> [@ EXCEPT !.header = FALSE]
                [] kind = "cut"    -> [@ EXCEPT !.whole = FALSE]]

Without(s, i) == SubSeq(s, 1, i-1) \o SubSeq(s, i+1, Len(s))

Line ==
    /\ \/ \E i \in DOMAIN toR, kind \in {"damage", "garble", "cut"} :
             HasBody(toR[i]) /\ Spend(kind) /\ Spoil(i, kind) /\ UNCHANGED toS
       \/ \E i \in DOMAIN toS :
             Spend("garble") /\ toS' = [toS EXCEPT ![i] = "noise"] /\ UNCHANGED toR
       \/ \E i \in DOMAIN toR : Spend("lose") /\ toR' = Without(toR, i) /\ UNCHANGED toS
       \/ \E i \in DOMAIN toS : Spend("lose") /\ toS' = Without(toS, i) /\ UNCHANGED toR
       \/ Spend("noise") /\ toR' = Append(toR, Item("noise")) /\ UNCHANGED toS
       \/ Spend("noise") /\ toS' = Append(toS, "noise") /\ UNCHANGED toR
    /\ UNCHANGED <<batch, sizes, snd, rcv, disk>>

----------------------------------------------------------------------------

Init ==
    /\ batch \in BOOLEAN
    /\ \E n \in IF batch THEN 1..MaxFiles ELSE {1} : sizes \in [1..n -> 0..IF batch THEN BatchBlocks ELSE MaxBlocks]
    /\ snd = [at |-> IF batch THEN "ask" ELSE "init", file |-> 1, block |-> 1,
              crc |-> TRUE, tries |-> 0, again |-> FALSE]
    /\ \E crc \in IF batch THEN {TRUE} ELSE BOOLEAN :
          /\ rcv = [at |-> IF batch THEN "header" ELSE "core", file |-> 1,
                    expected |-> 1, crc |-> crc, tries |-> 0]
          /\ toS = <<IF crc THEN "C" ELSE "NAK">>
    /\ toR = <<>>
    /\ disk = [f \in {Stray} \cup Files |-> <<>>]
    /\ faults = [kind \in Kinds |-> 0]

Next == SenderReads \/ ReceiverReads \/ SenderTimesOut \/ ReceiverTimesOut \/ Late \/ Line

Spec == Init /\ [][Next]_vars

(* Both threads run until they end, and time passes.                        *)
Fairness ==
    /\ WF_vars(SenderReads) /\ WF_vars(ReceiverReads)
    /\ WF_vars(SenderTimesOut) /\ WF_vars(ReceiverTimesOut)
FairSpec == Spec /\ Fairness

----------------------------------------------------------------------------
(* Properties                                                               *)

Prefix(s, t) == Len(s) <= Len(t) /\ s = SubSeq(t, 1, Len(s))
Whole(f)     == disk[f] = Original(f)

(* No byte was added on the line, nobody gave up on a slow answer, and not  *)
(* every EOT was lost: then a reply answers one frame each.                 *)
Paced == faults["noise"] = 0 /\ faults["late"] = 0 /\ faults["lose"] < MaxEots

(* The blocks written are those of the file, in order and once each:        *)
(* retransmissions, lost acknowledgements and the wrapping of the number    *)
(* included (receive_core).  For a file of its own this needs no more than  *)
(* that the line does fewer things wrong than there are block numbers; a    *)
(* byte of noise for each number but one puts the sender so far ahead that  *)
(* the numbers meet again.  A batch needs a paced line: see the README.     *)
InOrder ==
    (IF batch THEN Paced ELSE Used < Modulus) => \A f \in Files : Prefix(disk[f], Original(f))

(* When the sender ends a file its copy is whole: each block was            *)
(* acknowledged (send_core).  Without Paced it is not: see the README.      *)
WholeAtEot ==
    Paced => \A f \in Files :
        (snd.file = f /\ snd.at = "eot") \/ (snd.file > f /\ snd.at # "failed") => Whole(f)

(* A receiver that reports a batch has all its files, provided that the     *)
(* sender did not have to repeat an EOT: the receiver takes the repeated    *)
(* one for the end of the batch (YmodemReceiver::receive).                  *)
BatchWhole ==
    batch /\ rcv.at = "done" /\ Paced /\ ~snd.again => \A f \in Files : Whole(f)

(* On a good line both ends succeed.                                        *)
Completes ==
    Used = 0 =>
             /\ snd.at # "failed" /\ rcv.at # "failed"
             /\ rcv.at = "done" => \A f \in Files : Whole(f)

(* Both ends stop, whatever the line does.                                  *)
Ends == <>(snd.at \in Ended /\ rcv.at \in Ended)
=============================================================================
