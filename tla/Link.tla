-------------------------------- MODULE Link --------------------------------
(* A connection, as the I/O task of a session uses it: the Connection trait *)
(* (connection/mod.rs) over telnet, raw TCP and serial lines (protocols/).  *)
(* The task's select! reads, writes and resizes one at a time; a read that  *)
(* waits is dropped when another branch is ready.                           *)
(*                                                                          *)
(* Bytes are the numbers of the code where they matter; down, the bytes on  *)
(* the wire, is read in pieces cut anywhere.                                *)
EXTENDS Integers, Sequences, SequencesExt

CONSTANTS Protocols,   \* of "telnet", "raw", "serial"
          Keys,        \* bytes either side sends as data
          Options,     \* options the remote negotiates
          Widths,      \* columns the window takes after the 80 of connect
          Capacity,    \* of the serial channels (64 in the code)
          MaxRemote, MaxLocal  \* bounds: what the remote and the user send

(* naws_msg does not double a byte 255 of a size; such widths are left out. *)
ASSUME BytesAssumption ==
    /\ Protocols \subseteq {"telnet", "raw", "serial"}
    /\ Keys \subseteq 0..255 /\ Options \subseteq 0..255
    /\ Capacity \in Nat \ {0} /\ MaxRemote \in Nat /\ MaxLocal \in Nat
ASSUME WidthsAssumption == \A w \in Widths : w \in Nat /\ w % 256 # 255 /\ w < 65280

VARIABLES
    protocol, status,
    down,            \* bytes from the remote not yet read
    heard,           \* what the remote makes of the bytes sent to it
    sent, asked,     \* history: data and requests of the remote
    wrote, got,      \* history: data written and read through the trait
    parser,          \* TelnetParser
    answering,       \* a telnet read that has parsed and writes its responses
    cols,
    reader, writer,  \* the serial threads: "running" or "stopped"
    held,            \* what the reader has read and not yet sent on
    inq, outq,       \* the serial channels
    dropped          \* history: a read was dropped while it answered

wire    == <<down, heard>>
serial  == <<reader, writer, held, inq, outq>>
telnet  == <<parser, answering, cols, dropped>>
history == <<sent, asked, wrote, got>>
vars    == <<protocol, status, wire, serial, telnet, history>>

----------------------------------------------------------------------------
(* Telnet bytes                                                             *)

IAC == 255
DONT == 254
DO == 253
WONT == 252
WILL == 251
SB == 250
SE == 240
ECHO == 1
SGA == 3
TTYPE == 24
NAWS == 31
IS == 0
SEND == 1

Escaped(b) == IF b = IAC THEN <<IAC, IAC>> ELSE <<b>>

NawsMsg        == <<IAC, SB, NAWS, cols \div 256, cols % 256, 0, 24, IAC, SE>>
TerminalType   == <<IAC, SB, TTYPE, IS, 120, IAC, SE>>   \* its name, one byte here

\* MUTANT: the answers, without the refusal of an unknown WILL.
RespondNegotiation_silent(cmd, opt) ==
    CASE cmd = DO   -> <<<<IAC, IF opt \in {SGA, NAWS, TTYPE} THEN WILL ELSE WONT, opt>>>>
                       \o IF opt = NAWS THEN <<NawsMsg>> ELSE <<>>
      [] cmd = DONT -> <<<<IAC, WONT, opt>>>>
      [] cmd = WILL -> IF opt \in {SGA, ECHO} THEN <<<<IAC, DO, opt>>>> ELSE <<>>
      [] OTHER      -> <<<<IAC, DONT, opt>>>>

\* MUTANT: the size is not sent with the agreement to send it.
RespondNegotiation_sizeless(cmd, opt) ==
    <<<<IAC, CASE cmd = DO   -> IF opt \in {SGA, NAWS, TTYPE} THEN WILL ELSE WONT
               [] cmd = WILL -> IF opt \in {SGA, ECHO} THEN DO ELSE DONT
               [] cmd = DONT -> WONT
               [] OTHER      -> DONT, opt>>>>

RespondNegotiation(cmd, opt) ==
    CASE cmd \in {DO, DONT} /\ opt = SGA   -> <<<<IAC, IF cmd = DO THEN WILL ELSE WONT, opt>>>>
      [] cmd \in {WILL, WONT} /\ opt \in {SGA, ECHO} ->
                                              <<<<IAC, IF cmd = WILL THEN DO ELSE DONT, opt>>>>
      [] cmd = DO /\ opt = NAWS            -> <<<<IAC, WILL, opt>>, NawsMsg>>
      [] cmd = DO /\ opt = TTYPE           -> <<<<IAC, WILL, opt>>>>
      [] cmd = DONT /\ opt \in {NAWS, TTYPE} -> <<<<IAC, WONT, opt>>>>
      [] cmd = DO /\ opt \notin {SGA, NAWS, TTYPE} -> <<<<IAC, WONT, opt>>>>
      [] cmd = WILL /\ opt \notin {SGA, ECHO}      -> <<<<IAC, DONT, opt>>>>
      [] OTHER                             -> <<>>

RespondSubnegotiation(buf) ==
    IF Len(buf) >= 2 /\ SubSeq(buf, 1, 2) = <<TTYPE, SEND>> THEN <<TerminalType>> ELSE <<>>

(* The parser between two bytes; data and responses are the results of one  *)
(* call of parse.                                                           *)
Fresh == [mode |-> "data", cmd |-> 0, buf |-> <<>>]
In(p, mode) == [p EXCEPT !.mode = mode]

Parsed(p, b) ==
    CASE p.mode = "data" /\ b # IAC  -> [p EXCEPT !.data = Append(@, b)]
      [] p.mode = "data" /\ b = IAC  -> In(p, "iac")
      [] p.mode = "iac" /\ b = IAC   -> [In(p, "data") EXCEPT !.data = Append(@, IAC)]
      [] p.mode = "iac" /\ b = SB    -> [In(p, "sub") EXCEPT !.buf = <<>>]
      [] p.mode = "iac" /\ b \in WILL..DONT -> [In(p, "negotiation") EXCEPT !.cmd = b]
      [] p.mode = "negotiation"      ->
             [In(p, "data") EXCEPT !.responses = @ \o RespondNegotiation(p.cmd, b)]
      [] p.mode = "sub" /\ b # IAC   -> [p EXCEPT !.buf = Append(@, b)]
      [] p.mode = "sub" /\ b = IAC   -> In(p, "subiac")
      [] p.mode = "subiac" /\ b = SE ->
             [In(p, "data") EXCEPT !.responses = @ \o RespondSubnegotiation(p.buf), !.buf = <<>>]
      [] p.mode = "subiac" /\ b = IAC -> [In(p, "sub") EXCEPT !.buf = Append(@, IAC)]
      [] OTHER                       -> [In(p, "data") EXCEPT !.buf = <<>>]

\* What p becomes by bytes, one after the other.
Run(p, bytes) ==
    LET after[n \in 0..Len(bytes)] == IF n = 0 THEN p ELSE Parsed(after[n - 1], bytes[n])
    IN  after[Len(bytes)]
Start(p) == [mode |-> p.mode, cmd |-> p.cmd, buf |-> p.buf, data |-> <<>>, responses |-> <<>>]

\* MUTANT: every read starts in the data state.
Parse_afresh(bytes) == Run(Start(Fresh), bytes)

Parse(bytes) == Run(Start(parser), bytes)

----------------------------------------------------------------------------
(* The remote program; what it hears, by RFC 854: data, answers and the     *)
(* width of the last window size message.                                   *)

Silence == [mode |-> "data", buf |-> <<>>, data |-> <<>>, answers |-> <<>>, size |-> 0]

HeardByte(h, b) ==
    CASE h.mode = "data" /\ b = IAC -> In(h, "command")
      [] h.mode = "data" /\ b # IAC -> [h EXCEPT !.data = Append(@, b)]
      [] h.mode = "command"         ->
             CASE b = IAC -> [In(h, "data") EXCEPT !.data = Append(@, b)]
               [] b = SB  -> [In(h, "sub") EXCEPT !.buf = <<>>]
               [] OTHER   -> [In(h, "option") EXCEPT !.buf = <<b>>]
      [] h.mode = "option"          -> [In(h, "data") EXCEPT !.answers = Append(@, <<h.buf[1], b>>)]
      [] h.mode = "sub"             ->
             IF b = IAC THEN In(h, "subcommand") ELSE [h EXCEPT !.buf = Append(@, b)]
      [] h.mode = "subcommand"      ->
             CASE b = IAC -> [In(h, "sub") EXCEPT !.buf = Append(@, b)]
               [] b = SE /\ Len(h.buf) = 5 /\ h.buf[1] = NAWS -> [In(h, "data") EXCEPT !.size = h.buf[2] * 256 + h.buf[3]]
               [] OTHER   -> [In(h, "data") EXCEPT !.answers = Append(@, <<SB>> \o h.buf)]

Hear(h, bytes) ==
    LET after[n \in 0..Len(bytes)] == IF n = 0 THEN h ELSE HeardByte(after[n - 1], bytes[n])
    IN  after[Len(bytes)]
Tell(bytes) ==
    heard' = IF protocol = "telnet" THEN Hear(heard, bytes)
             ELSE [heard EXCEPT !.data = @ \o bytes]
\* The last thing the client said of its own, or the remote's, side of opt.
Agreed(side, opt) ==
    LET words == IF side \in {DO, DONT} THEN {WILL, WONT} ELSE {DO, DONT}
        About(i) == heard.answers[i][1] \in words /\ heard.answers[i][2] = opt
    IN  \E i \in DOMAIN heard.answers :
          /\ About(i) /\ heard.answers[i][1] \in {WILL, DO}
          /\ \A j \in DOMAIN heard.answers : About(j) => j <= i

RemoteMaySend == Len(sent) + Len(asked) < MaxRemote

RemoteSends(b) ==
    /\ RemoteMaySend
    /\ sent' = Append(sent, b)
    /\ down' = down \o IF protocol = "telnet" THEN Escaped(b) ELSE <<b>>
    /\ UNCHANGED <<protocol, status, heard, serial, telnet, asked, wrote, got>>

RemoteAsks(bytes, request) ==
    /\ RemoteMaySend /\ protocol = "telnet"
    /\ asked' = Append(asked, request)
    /\ down' = down \o bytes
    /\ UNCHANGED <<protocol, status, heard, serial, telnet, sent, wrote, got>>

(* It takes back only what was agreed.                                      *)
RemoteNegotiates ==
    \E cmd \in WILL..DONT, opt \in Options :
        /\ cmd \in {DONT, WONT} => Agreed(cmd, opt)
        /\ RemoteAsks(<<IAC, cmd, opt>>, <<cmd, opt>>)
RemoteWantsType == RemoteAsks(<<IAC, SB, TTYPE, SEND, IAC, SE>>, <<SB, TTYPE>>)

----------------------------------------------------------------------------
(* Telnet and raw TCP                                                       *)

OverTcp == protocol \in {"telnet", "raw"} /\ status = "connected"
Idle    == answering = <<>>

Returned(data) == got' = got \o data

(* read: the parser's state is kept at once, the data returned only after   *)
(* the responses are written, with an await for each.                       *)
TcpRead(n) ==
    /\ OverTcp /\ Idle /\ n \in 1..Len(down)
    /\ down' = SubSeq(down, n + 1, Len(down))
    /\ LET bytes == SubSeq(down, 1, n)
           p     == Parse(bytes) IN
       IF protocol = "raw"
       THEN Returned(bytes) /\ UNCHANGED <<parser, answering>>
       ELSE /\ parser' = [mode |-> p.mode, cmd |-> p.cmd, buf |-> p.buf]
            /\ IF p.responses = <<>>
               THEN Returned(p.data) /\ UNCHANGED answering
               ELSE answering' = <<[data |-> p.data, left |-> p.responses]>> /\ UNCHANGED got
    /\ UNCHANGED <<protocol, status, heard, serial, cols, dropped, sent, asked, wrote>>

WriteResponse ==
    /\ ~Idle
    /\ LET a == answering[1] IN
       /\ Tell(Head(a.left))
       /\ IF Len(a.left) = 1
          THEN answering' = <<>> /\ Returned(a.data)
          ELSE answering' = <<[a EXCEPT !.left = Tail(@)]>> /\ UNCHANGED got
    /\ UNCHANGED <<protocol, status, down, serial, parser, cols, dropped, sent, asked, wrote>>

(* The socket takes no more for now and select! goes on with a key, a       *)
(* resize or the end: the read is dropped with the data it had, inside a    *)
(* response perhaps.                                                        *)
DropRead(n) ==
    /\ ~Idle /\ n \in 0..Len(Head(answering[1].left)) - 1
    /\ Tell(SubSeq(Head(answering[1].left), 1, n))
    /\ answering' = <<>>
    /\ dropped' = TRUE
    /\ UNCHANGED <<protocol, status, down, serial, parser, cols, history>>

LocalMaySend == Len(wrote) < MaxLocal

TcpWrite(b) ==
    /\ OverTcp /\ Idle /\ LocalMaySend
    /\ wrote' = Append(wrote, b)
    /\ Tell(IF protocol = "telnet" THEN Escaped(b) ELSE <<b>>)
    /\ UNCHANGED <<protocol, status, down, serial, telnet, sent, asked, got>>

(* send_resize; the window only grows, which bounds the messages.           *)
Resize(w) ==
    /\ protocol = "telnet" /\ status = "connected" /\ Idle /\ w > cols
    /\ cols' = w
    /\ Tell(NawsMsg')
    /\ UNCHANGED <<protocol, status, down, serial, parser, answering, dropped, history>>

----------------------------------------------------------------------------
(* Serial: two threads around the port                                      *)

OverSerial == protocol = "serial" /\ status = "connected"

(* A read of the port that times out is tried again.                        *)
ReaderTakes(n) ==
    /\ protocol = "serial" /\ reader = "running" /\ held = <<>> /\ n \in 1..Len(down)
    /\ held' = SubSeq(down, 1, n)
    /\ down' = SubSeq(down, n + 1, Len(down))
    /\ UNCHANGED <<protocol, status, heard, reader, writer, inq, outq, telnet, history>>
\* MUTANT: the reader goes on when the channel is closed.
ReaderSends_regardless ==
    /\ reader = "running" /\ held # <<>>
    /\ IF status = "connected"
       THEN Len(inq) < Capacity /\ inq' = Append(inq, held)
       ELSE UNCHANGED inq
    /\ held' = <<>>
    /\ UNCHANGED <<protocol, status, wire, reader, writer, outq, telnet, history>>

ReaderSends ==
    /\ reader = "running" /\ held # <<>>
    /\ IF status = "connected"
       THEN Len(inq) < Capacity /\ inq' = Append(inq, held) /\ UNCHANGED reader
       ELSE reader' = "stopped" /\ UNCHANGED inq
    /\ held' = <<>>
    /\ UNCHANGED <<protocol, status, wire, writer, outq, telnet, history>>
ReaderFails ==
    /\ protocol = "serial" /\ reader = "running" /\ held = <<>>
    /\ reader' = "stopped"
    /\ UNCHANGED <<protocol, status, wire, writer, held, inq, outq, telnet, history>>

(* The writer ends with an error of the port, or with the connection after  *)
(* what is left in the channel.                                             *)
WriterWrites ==
    /\ writer = "running" /\ outq # <<>>
    /\ outq' = Tail(outq)
    /\ Tell(Head(outq))
    /\ UNCHANGED <<protocol, status, down, reader, writer, held, inq, telnet, history>>
WriterFails ==
    /\ writer = "running" /\ outq # <<>>
    /\ writer' = "stopped" /\ outq' = <<>>
    /\ UNCHANGED <<protocol, status, wire, reader, held, inq, telnet, history>>
WriterEnds ==
    /\ protocol = "serial" /\ status = "disconnected" /\ writer = "running" /\ outq = <<>>
    /\ writer' = "stopped"
    /\ UNCHANGED <<protocol, status, wire, reader, held, inq, outq, telnet, history>>

SerialRead ==
    /\ OverSerial
    /\ \/ inq # <<>> /\ Returned(Head(inq)) /\ inq' = Tail(inq) /\ UNCHANGED status
       \/ inq = <<>> /\ reader = "stopped" /\ status' = "disconnected" /\ UNCHANGED <<got, inq>>
    /\ UNCHANGED <<protocol, wire, reader, writer, held, outq, telnet, sent, asked, wrote>>
(* The error of a write whose thread has stopped ends the task.             *)
SerialWrite(b) ==
    /\ OverSerial /\ LocalMaySend
    /\ IF writer = "stopped"
       THEN status' = "disconnected" /\ UNCHANGED <<wrote, outq>>
       ELSE /\ Len(outq) < Capacity
            /\ outq' = Append(outq, <<b>>) /\ wrote' = Append(wrote, b)
            /\ UNCHANGED status
    /\ UNCHANGED <<protocol, wire, reader, writer, held, inq, telnet, sent, asked, got>>

(* The remote closes or resets the stream, or the user disconnects: the     *)
(* task drops the connection and, with it, its stream or its channel ends.  *)
Disconnect ==
    /\ status = "connected" /\ Idle
    /\ status' = "disconnected"
    /\ inq' = <<>>
    /\ UNCHANGED <<protocol, wire, reader, writer, held, outq, telnet, history>>

----------------------------------------------------------------------------

Init ==
    /\ protocol \in Protocols /\ status = "connected"
    /\ down = <<>> /\ heard = Silence
    /\ parser = Fresh /\ answering = <<>> /\ cols = 80
    /\ dropped = FALSE
    /\ reader = (IF protocol = "serial" THEN "running" ELSE "stopped")
    /\ writer = reader
    /\ held = <<>> /\ inq = <<>> /\ outq = <<>>
    /\ sent = <<>> /\ asked = <<>> /\ wrote = <<>> /\ got = <<>>

Remote == \/ \E b \in Keys : RemoteSends(b)
          \/ RemoteNegotiates \/ RemoteWantsType
Reader == (\E n \in 1..Len(down) : ReaderTakes(n)) \/ ReaderSends
Writer == WriterWrites \/ WriterEnds

Next ==
    \/ Remote
    \/ \E n \in 1..Len(down) : TcpRead(n)
    \/ \E b \in Keys : TcpWrite(b) \/ SerialWrite(b)
    \/ WriteResponse
    \/ ~Idle /\ \E n \in 0..Len(Head(answering[1].left)) - 1 : DropRead(n)
    \/ \E w \in Widths : Resize(w)
    \/ Reader \/ ReaderFails \/ Writer \/ WriterFails
    \/ SerialRead
    \/ Disconnect

(* The threads run; nothing is assumed of the remote or of the user.        *)
Spec == Init /\ [][Next]_vars /\ WF_vars(Reader) /\ WF_vars(Writer)

----------------------------------------------------------------------------

(* A byte stream is a byte stream both ways, wherever reads cut it and      *)
(* whatever is negotiated in its middle: what read returned is a beginning  *)
(* of what the remote sent, the whole of it once nothing is on the way, and *)
(* what the remote takes for data is a beginning of what was written        *)
(* (TelnetParser::parse, write, the serial threads), as long as no read is  *)
(* dropped while it answers.                                                *)
DataIntact ==
    dropped \/
    /\ IsPrefix(got, sent)
    /\ OverTcp /\ Idle /\ down = <<>> /\ parser.mode = "data" => got = sent
    /\ IsPrefix(heard.data, wrote)
    /\ OverTcp /\ Idle => heard.data = wrote

(* The remote gets one answer in kind to every request, in the order of its *)
(* requests, however they are cut, and none it did not ask for              *)
(* (respond_negotiation, respond_subnegotiation).                           *)
InKind(request, answer) ==
    /\ answer[2] = request[2]
    /\ CASE request[1] = DO   -> answer[1] \in {WILL, WONT}
         [] request[1] = WILL -> answer[1] \in {DO, DONT}
         [] request[1] = DONT -> answer[1] = WONT
         [] request[1] = WONT -> answer[1] = DONT
         [] OTHER             -> answer[1] = SB
EveryRequestAnswered ==
    dropped \/
    LET answers == heard.answers IN
    /\ Len(answers) <= Len(asked)
    /\ \A i \in DOMAIN answers : InKind(asked[i], answers[i])
    /\ OverTcp /\ Idle /\ down = <<>> => Len(answers) = Len(asked)

(* Once the remote may be told the window size it knows the current one,    *)
(* also when the window changed while its request was on the way (naws_msg, *)
(* send_resize).                                                            *)
SizeKnown ==
    protocol = "telnet" /\ Idle /\ ~dropped /\ Agreed(DO, NAWS) => heard.size = cols

(* After a disconnect the writer ends by itself; the reader, which looks at *)
(* its channel only when it has something to send, ends once a byte         *)
(* arrives, and the port is free (SerialConnection::connect, disconnect).   *)
PortFreed ==
    /\ status = "disconnected" ~> writer = "stopped"
    /\ status = "disconnected" /\ down \o held # <<>> ~> reader = "stopped"
=============================================================================
