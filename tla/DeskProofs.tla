----------------------------- MODULE DeskProofs -----------------------------
(***************************************************************************)
(* Proofs about Desk, for every set of entries, credentials and profiles   *)
(* and any number of sessions: one panel is on top, the directory on disk  *)
(* is whole and the one on the screen, every session is recorded once,     *)
(* tabs follow the default profile, and a public key on the screen has its *)
(* private key in the store.                                               *)
(***************************************************************************)
EXTENDS Desk, TLAPS, SequenceTheorems

-----------------------------------------------------------------------------
(***************************************************************************)
(* The invariants.                                                         *)
(***************************************************************************)

\* The sequence q is empty or holds one member of S.
Single(q, S) == q # <<>> => q = <<q[1]>> /\ q[1] \in S

Form == [editing : Ids \cup {None}, credential : Credentials \cup {None}, valid : BOOLEAN]
Panel == [dir : SUBSET Entry, at : {"browse", "status", "searching", "confirm", "form", "group"},
          id : Ids \cup {None}, form : Form]
Profile == [name : Profiles, bound : SUBSET Commands]
Item == [id : Credentials, kind : {"password", "key"}]
Picker == [items : SUBSET Item, at : {"browse", "kind", "secret", "pubkey", "shown"},
           id : Credentials \cup {None}]
Tab == [entry : Entry, status : {"connected", "disconnected", "error"}, session : Nat,
        recorded : BOOLEAN, profile : Profile, viewer : BOOLEAN]
Outcomes == {"connected", "error"}
Record == [entry : Ids, row : BOOLEAN, ended : Nat, outcomes : Seq(Outcomes), failed : BOOLEAN]
Job == [session : Nat, outcome : Outcomes, todo : {"end", "record"}]

FilesOK ==
  /\ running \in {"up", "exiting", "down"} /\ changes \in Nat
  /\ disk \in SUBSET Entry
  /\ Single(temp, [content : SUBSET Entry, whole : BOOLEAN])
  /\ unsaved \in BOOLEAN
ScreenOK ==
  /\ Single(panel, Panel) /\ Single(store, SUBSET Entry)
  /\ tabs \in Seq(Tab) /\ active \in Nat \ {0}
  /\ Single(keymap, Profile) /\ scripts \in BOOLEAN /\ prompt \in BOOLEAN
SecretsOK == Single(creds, Picker) /\ picking \in BOOLEAN /\ vault \in SUBSET Item
MappingOK ==
  /\ profiles \in [Profiles -> Seq(Profile)]
  /\ global \in Profile /\ strayed \in BOOLEAN
PastOK ==
  /\ history \in Seq(Record) /\ imported \in [Ids -> {0, 1}]
  /\ first \in Nat /\ tasks \in SUBSET Job
TypeOK == FilesOK /\ ScreenOK /\ SecretsOK /\ MappingOK /\ PastOK

\* A program that does not run has nothing on the screen and no task.
Closed ==
  running = "down" =>
  /\ temp = <<>> /\ panel = <<>> /\ store = <<>> /\ tabs = <<>>
  /\ keymap = <<>> /\ ~scripts /\ ~prompt /\ creds = <<>> /\ ~picking /\ tasks = {}

\* What may lie under what.
Layers ==
  running = "up" =>
  /\ prompt => keymap = <<>> /\ ~scripts /\ creds = <<>> /\ panel = <<>> /\ ~Viewing
  /\ keymap # <<>> => ~scripts /\ creds = <<>> /\ panel = <<>> /\ ~Viewing
  /\ scripts => creds = <<>> /\ ~Viewing
  /\ Viewing => creds = <<>> /\ panel = <<>>
  /\ (panel = <<>>) # (store = <<>>)
  /\ tabs = <<>> => panel # <<>>
  /\ tabs # <<>> => active \in DOMAIN tabs
  /\ picking => creds # <<>> /\ panel # <<>> /\ panel[1].at = "form"

\* A save in progress is of the directory held, and after it disk has it.
Saved ==
  /\ temp # <<>> => running = "up" /\ temp[1].content = Directory
  /\ Up /\ ~unsaved => disk = Directory

\* No two tabs, and no two tasks, are about one session; a session that no
\* one recorded has nothing in the history; a task has its work still to do.
Booked ==
  /\ \A i \in DOMAIN tabs :
       /\ tabs[i].session \in DOMAIN history
       /\ \A j \in DOMAIN tabs : tabs[i].session = tabs[j].session => i = j
       /\ running = "up" /\ tabs[i].status = "connected" => ~tabs[i].recorded
       /\ ~tabs[i].recorded =>
            /\ history[tabs[i].session].ended = 0
            /\ history[tabs[i].session].outcomes = <<>>
            /\ \A t \in tasks : t.session # tabs[i].session
  /\ \A t \in tasks :
       /\ t.session \in DOMAIN history
       /\ history[t.session].outcomes = <<>>
       /\ IF t.todo = "end" THEN history[t.session].ended = 0
          ELSE history[t.session].ended = 1 \/ history[t.session].failed
       /\ \A u \in tasks : u.session = t.session => u = t
  /\ \A n \in DOMAIN history :
       /\ history[n].ended <= 1 /\ Len(history[n].outcomes) <= 1
       /\ history[n].row /\ history[n].outcomes # <<>> => history[n].ended = 1 \/ history[n].failed

Inv == TypeOK /\ Closed /\ Layers /\ Saved /\ Booked /\ DefaultFollows /\ KeyStored

-----------------------------------------------------------------------------
(***************************************************************************)
(* Lemmas about the operators.                                             *)
(***************************************************************************)

\* A sequence of one member of S.
LEMMA OneIs ==
  ASSUME NEW S, NEW x \in S
  PROVE  /\ Single(<<x>>, S) /\ <<x>> # <<>> /\ <<x>>[1] = x
         /\ Head(<<x>>) = x /\ Single(<<>>, S)
BY DEF Single

\* Get finds an entry the directory has.
LEMMA GetIs ==
  ASSUME NEW dir \in SUBSET Entry, NEW id, Has(dir, id)
  PROVE  Get(dir, id) \in Entry /\ Get(dir, id) \in dir /\ Get(dir, id).id = id
BY DEF Get, Has

\* Replacing an entry, and so marking one connected, leaves a directory.
LEMMA ReplacedIs ==
  ASSUME NEW dir \in SUBSET Entry
  PROVE  /\ \A e \in Entry : Replaced(dir, e) \in SUBSET Entry
         /\ \A id : Has(dir, id) => MarkConnected(dir, id) \in SUBSET Entry
<1>1. \A e \in Entry : Replaced(dir, e) \in SUBSET Entry
  BY DEF Replaced
<1>2. ASSUME NEW id, Has(dir, id)
      PROVE  MarkConnected(dir, id) \in SUBSET Entry
  <2>1. Get(dir, id) \in Entry
    BY <1>2, GetIs
  <2>2. [Get(dir, id) EXCEPT !.connected = TRUE] \in Entry
    BY <2>1 DEF Entry
  <2> QED BY <2>2, <1>1 DEF MarkConnected
<1> QED BY <1>1, <1>2

\* No directory is torn.
LEMMA NotTorn ==
  ASSUME NEW dir \in SUBSET Entry
  PROVE  dir # Torn
<1> SUFFICES ASSUME dir = Torn PROVE FALSE
  OBVIOUS
<1>1. [torn |-> TRUE] \in Entry
  BY DEF Torn
<1>2. "id" \in DOMAIN [torn |-> TRUE]
  BY <1>1 DEF Entry
<1> QED BY <1>2

\* The panel that takes a key, and what it says of those below and above.
LEMMA Turn ==
  /\ At("directory") => /\ Up /\ ~prompt /\ keymap = <<>> /\ ~scripts /\ ~Viewing
                        /\ creds = <<>> /\ panel # <<>>
  /\ At("credentials") => /\ Up /\ ~prompt /\ keymap = <<>> /\ ~scripts /\ ~Viewing
                          /\ creds # <<>>
  /\ At("session") => /\ Up /\ ~prompt /\ keymap = <<>> /\ ~scripts /\ ~Viewing
                      /\ creds = <<>> /\ panel = <<>>
  /\ At("prompt") => Up /\ prompt
  /\ At("keymap") => Up /\ ~prompt /\ keymap # <<>>
  /\ At("scripts") => Up /\ ~prompt /\ keymap = <<>> /\ scripts
  /\ At("log") => Up /\ ~prompt /\ keymap = <<>> /\ ~scripts /\ Viewing
BY DEF At, TakesKeys

-----------------------------------------------------------------------------
(***************************************************************************)
(* What is left alone stays right.                                         *)
(***************************************************************************)

LEMMA SteadyBooks ==
  ASSUME Booked, UNCHANGED <<tabs, history, tasks>>, running' = "up" => running = "up"
  PROVE  Booked'
BY DEF Booked

LEMMA SteadyMapping ==
  ASSUME DefaultFollows, UNCHANGED <<tabs, mapping>>, running' = "up" => running = "up"
  PROVE  DefaultFollows'
BY DEF DefaultFollows, mapping, LoadOrDefault

LEMMA SteadySecrets ==
  ASSUME SecretsOK, KeyStored, UNCHANGED secrets
  PROVE  SecretsOK' /\ KeyStored'
BY DEF SecretsOK, KeyStored, secrets, Single

LEMMA SteadyFiles ==
  ASSUME FilesOK, Saved, UNCHANGED <<running, changes, files, panel, store>>
  PROVE  FilesOK' /\ Saved'
BY DEF FilesOK, Saved, files, Single, Up, Directory

LEMMA SteadyScreen ==
  ASSUME ScreenOK, Layers, UNCHANGED <<running, panel, store, tabbar, overlay, creds, picking>>
  PROVE  ScreenOK' /\ Layers'
BY DEF ScreenOK, Layers, tabbar, overlay, Single, Viewing

LEMMA SteadyTypes ==
  /\ MappingOK /\ UNCHANGED mapping => MappingOK'
  /\ PastOK /\ UNCHANGED past => PastOK'
BY DEF MappingOK, PastOK, mapping, past

-----------------------------------------------------------------------------
(***************************************************************************)
(* The directory panel.                                                    *)
(***************************************************************************)

\* A key that changes the state of the panel and not the directory.
LEMMA PanelKeeps ==
  ASSUME Inv, At("directory"), NEW p \in Panel, p.dir = panel[1].dir,
         panel' = <<p>>, OnlyPanel
  PROVE  Inv'
<1>u. /\ Up /\ ~prompt /\ keymap = <<>> /\ ~scripts /\ ~Viewing /\ creds = <<>> /\ panel # <<>>
      /\ UNCHANGED <<running, changes, files, store, tabbar, overlay, secrets, mapping, past>>
  BY Turn DEF OnlyPanel
<1>v. UNCHANGED <<tabs, active, keymap, scripts, prompt, creds, picking, vault, history, tasks, temp,
                  unsaved, disk, imported, first>>
  BY <1>u DEF tabbar, overlay, secrets, past, files
<1>p. Single(panel', Panel) /\ panel' # <<>> /\ panel'[1] = p
  BY OneIs
<1>1. FilesOK'
  BY <1>u, <1>v DEF Inv, TypeOK, FilesOK, Single
<1>2. ScreenOK'
  BY <1>u, <1>v, <1>p DEF Inv, TypeOK, ScreenOK, Single
<1>3. SecretsOK' /\ KeyStored'
  BY <1>u, SteadySecrets DEF Inv, TypeOK
<1>4. MappingOK' /\ PastOK'
  BY <1>u, SteadyTypes DEF Inv, TypeOK
<1>5. Closed' /\ running' = "up"
  BY <1>u DEF Up, Closed
<1>6. Layers'
  <2>1. ~Viewing' /\ tabs' = tabs /\ active' = active
    BY <1>u, <1>v DEF Viewing
  <2>2. ~picking
    BY <1>u DEF Inv, Layers, Up
  <2>3. store = <<>> /\ (tabs # <<>> => active \in DOMAIN tabs)
    BY <1>u DEF Inv, Layers, Up
  <2> QED BY <1>u, <1>v, <1>p, <2>1, <2>2, <2>3 DEF Layers
<1>7. Saved'
  BY <1>u, <1>v, <1>p DEF Inv, Saved, Up, Directory
<1>8. Booked' /\ DefaultFollows'
  BY <1>u, <1>v, SteadyBooks, SteadyMapping DEF Inv
<1> QED BY <1>1, <1>2, <1>3, <1>4, <1>5, <1>6, <1>7, <1>8 DEF Inv, TypeOK

\* A key that changes the directory and saves it.
LEMMA PanelChanges ==
  ASSUME Inv, At("directory"), NEW dir \in SUBSET Entry, PanelSaves(dir)
  PROVE  Inv'
<1> DEFINE p == [Fresh(dir)[1] EXCEPT !.at = "status"]
<1>a. p \in Panel /\ p.dir = dir
  BY DEF Fresh, Panel, NewForm, Form
<1>u. /\ Up /\ ~prompt /\ keymap = <<>> /\ ~scripts /\ ~Viewing /\ creds = <<>> /\ panel # <<>>
      /\ UNCHANGED <<running, store, tabbar, overlay, secrets, mapping, past>>
      /\ changes' \in Nat /\ panel' = <<p>>
      /\ temp' = <<[content |-> dir, whole |-> FALSE]>> /\ UNCHANGED <<disk, unsaved>>
  BY Turn DEF PanelSaves, Save, Change, Inv, TypeOK, FilesOK
<1>v. UNCHANGED <<tabs, active, keymap, scripts, prompt, creds, picking, vault, history, tasks>>
  BY <1>u DEF tabbar, overlay, secrets, past
<1> HIDE DEF p
<1>p. Single(panel', Panel) /\ panel' # <<>> /\ panel'[1] = p
  BY <1>a, <1>u, OneIs
<1>t. [content |-> dir, whole |-> FALSE] \in [content : SUBSET Entry, whole : BOOLEAN]
  OBVIOUS
<1>q. /\ Single(temp', [content : SUBSET Entry, whole : BOOLEAN])
      /\ temp' # <<>> /\ temp'[1].content = dir
  BY <1>u, <1>t, OneIs
<1>1. FilesOK'
  BY <1>u, <1>q DEF Inv, TypeOK, FilesOK
<1>2. ScreenOK'
  BY <1>u, <1>v, <1>p DEF Inv, TypeOK, ScreenOK
<1>3. SecretsOK' /\ KeyStored'
  BY <1>u, SteadySecrets DEF Inv, TypeOK
<1>4. MappingOK' /\ PastOK'
  BY <1>u, SteadyTypes DEF Inv, TypeOK
<1>5. Closed' /\ running' = "up"
  BY <1>u DEF Up, Closed
<1>6. Layers'
  <2>1. ~Viewing' /\ tabs' = tabs /\ active' = active
    BY <1>u, <1>v DEF Viewing
  <2>2. ~picking
    BY <1>u DEF Inv, Layers, Up
  <2>3. store = <<>> /\ (tabs # <<>> => active \in DOMAIN tabs)
    BY <1>u DEF Inv, Layers, Up
  <2> QED BY <1>u, <1>v, <1>p, <2>1, <2>2, <2>3 DEF Layers
<1>7. Saved'
  BY <1>a, <1>u, <1>p, <1>q DEF Saved, Up, Directory
<1>8. Booked' /\ DefaultFollows'
  BY <1>u, <1>v, SteadyBooks, SteadyMapping DEF Inv
<1> QED BY <1>1, <1>2, <1>3, <1>4, <1>5, <1>6, <1>7, <1>8 DEF Inv, TypeOK

LEMMA DirectoryKeySafe == Inv /\ DirectoryKey => Inv'
<1> SUFFICES ASSUME Inv, DirectoryKey PROVE Inv'
  OBVIOUS
<1>p. At("directory") => panel # <<>> /\ panel[1] \in Panel /\ Directory = panel[1].dir /\ Directory \in SUBSET Entry
  BY Turn DEF Inv, TypeOK, ScreenOK, Single, Directory, Panel
<1>n. NewForm \in Form
  BY DEF NewForm, Form
<1>g. ASSUME NEW mode \in {"browse", "searching"}, At("directory"), Goes(mode), OnlyPanel
      PROVE  Inv'
  <2>1. [panel[1] EXCEPT !.at = mode, !.id = None, !.form = NewForm] \in Panel
    BY <1>g, <1>p, <1>n DEF Panel
  <2>2. [panel[1] EXCEPT !.at = mode, !.id = None, !.form = NewForm].dir = panel[1].dir
    BY <1>g, <1>p DEF Panel
  <2> QED BY <1>g, <2>1, <2>2, PanelKeeps DEF Goes
<1>f. ASSUME NEW form \in Form, At("directory"), OnlyPanel,
             \/ panel' = <<[panel[1] EXCEPT !.at = "form", !.form = form]>>
             \/ panel' = <<[panel[1] EXCEPT !.form = form]>>
      PROVE  Inv'
  <2>1. /\ [panel[1] EXCEPT !.at = "form", !.form = form] \in Panel
        /\ [panel[1] EXCEPT !.at = "form", !.form = form].dir = panel[1].dir
    BY <1>f, <1>p DEF Panel
  <2>2. /\ [panel[1] EXCEPT !.form = form] \in Panel
        /\ [panel[1] EXCEPT !.form = form].dir = panel[1].dir
    BY <1>f, <1>p DEF Panel
  <2> QED BY <1>f, <2>1, <2>2, PanelKeeps
<1>1. CASE PanelLeaves \/ PanelSearches
  BY <1>1, <1>g DEF PanelLeaves, PanelSearches, In
<1>2. CASE ConfirmDelete
  <2>1. At("directory") /\ PanelSaves({e \in Directory : e.id # panel[1].id})
    BY <1>2 DEF ConfirmDelete, In
  <2> QED BY <2>1, <1>p, PanelChanges
<1>3. CASE \E id \in Ids, mode \in {"confirm", "group"} : PanelAsks(id, mode)
  <2>1. PICK id \in Ids, mode \in {"confirm", "group"} : PanelAsks(id, mode)
    BY <1>3
  <2>2. At("directory") /\ panel' = <<[panel[1] EXCEPT !.at = mode, !.id = id]>> /\ OnlyPanel
    BY <2>1 DEF PanelAsks, In
  <2>3. /\ [panel[1] EXCEPT !.at = mode, !.id = id] \in Panel
        /\ [panel[1] EXCEPT !.at = mode, !.id = id].dir = panel[1].dir
    BY <2>2, <1>p DEF Panel
  <2> QED BY <2>2, <2>3, PanelKeeps
<1>4. CASE PanelOpensForm(NewForm)
  BY <1>4, <1>f, <1>n DEF PanelOpensForm, In
<1>5. CASE panel # <<>> /\ \E e \in Directory : PanelOpensForm(FromEntry(e))
  <2>1. PICK e \in Directory : PanelOpensForm(FromEntry(e))
    BY <1>5
  <2>2. At("directory")
    BY <2>1 DEF PanelOpensForm, In
  <2>3. e \in Entry
    BY <2>2, <1>p
  <2>4. FromEntry(e) \in Form
    BY <2>3 DEF FromEntry, Form, Entry
  <2> QED BY <2>1, <2>2, <2>4, <1>f DEF PanelOpensForm
<1>6. CASE panel # <<>> /\ \E f \in TypedForms(panel[1].form) : PanelTypes(f)
  <2>1. PICK f \in TypedForms(panel[1].form) : PanelTypes(f)
    BY <1>6
  <2>2. At("directory")
    BY <2>1 DEF PanelTypes, In
  <2>3. panel[1].form \in Form
    BY <2>2, <1>p DEF Panel
  <2>4. f \in Form
    BY <2>3 DEF TypedForms, Form
  <2> QED BY <2>1, <2>2, <2>4, <1>f DEF PanelTypes
<1>7. CASE \E id \in Ids : panel # <<>> /\ SubmitForm(id)
  <2>1. PICK id \in Ids : panel # <<>> /\ SubmitForm(id)
    BY <1>7
  <2> DEFINE existing == IF Has(Directory, id) THEN Get(Directory, id) ELSE Blank(id)
  <2>2. At("directory")
    BY <2>1 DEF SubmitForm, In
  <2>3. panel[1].form.credential \in Credentials \cup {None}
    BY <2>2, <1>p DEF Panel, Form
  <2>4. Blank(id) \in Entry
    BY DEF Blank, Entry
  <2>5. existing \in Entry
    BY <2>4, <2>2, <1>p, GetIs
  <2>6. BuildEntry(panel[1].form, existing) \in Entry
    BY <2>3, <2>5 DEF BuildEntry, Entry
  <2>7. Replaced(Directory, BuildEntry(panel[1].form, existing)) \in SUBSET Entry
    BY <2>6, <2>2, <1>p, ReplacedIs
  <2>8. PanelSaves(Replaced(Directory, BuildEntry(panel[1].form, existing)))
    BY <2>1 DEF SubmitForm
  <2> QED BY <2>2, <2>7, <2>8, PanelChanges
<1>8. CASE \E g \in Groups \cup {None} : SetGroup(g)
  <2>1. PICK g \in Groups \cup {None} : SetGroup(g)
    BY <1>8
  <2> DEFINE e == [Get(Directory, panel[1].id) EXCEPT !.group = g]
  <2>2. At("directory") /\ Has(Directory, panel[1].id) /\ PanelSaves(Replaced(Directory, e))
    BY <2>1 DEF SetGroup, In
  <2>3. Get(Directory, panel[1].id) \in Entry
    BY <2>2, <1>p, GetIs
  <2>4. e \in Entry
    BY <2>3 DEF Entry
  <2>5. Replaced(Directory, e) \in SUBSET Entry
    BY <2>4, <2>2, <1>p, ReplacedIs
  <2> QED BY <2>2, <2>5, PanelChanges
<1> QED BY <1>1, <1>2, <1>3, <1>4, <1>5, <1>6, <1>7, <1>8 DEF DirectoryKey

-----------------------------------------------------------------------------
(***************************************************************************)
(* Keys that only change what is on the screen.                            *)
(***************************************************************************)

LEMMA PanelQuitsSafe == Inv /\ PanelQuits => Inv'
<1> SUFFICES ASSUME Inv, PanelQuits PROVE Inv'
  OBVIOUS
<1>u. /\ Up /\ ~prompt /\ keymap = <<>> /\ ~scripts /\ ~Viewing /\ creds = <<>> /\ panel # <<>>
      /\ UNCHANGED <<changes, files, tabbar, overlay, secrets, mapping, past>>
  BY Turn DEF PanelQuits, In
<1>v. UNCHANGED <<tabs, active, keymap, scripts, prompt, creds, picking, vault, history, tasks, temp,
                  unsaved, disk>>
  BY <1>u DEF tabbar, overlay, secrets, past, files
<1>d. panel[1] \in Panel /\ Directory = panel[1].dir /\ Directory \in SUBSET Entry
  BY <1>u DEF Inv, TypeOK, ScreenOK, Single, Directory, Panel
<1>r. running' = "exiting" \/ running' = running
  BY DEF PanelQuits
<1>1. FilesOK'
  BY <1>u, <1>v, <1>r DEF Inv, TypeOK, FilesOK, Single
<1>3. SecretsOK' /\ KeyStored'
  BY <1>u, SteadySecrets DEF Inv, TypeOK
<1>4. MappingOK' /\ PastOK'
  BY <1>u, SteadyTypes DEF Inv, TypeOK
<1>5. Closed'
  BY <1>u, <1>r DEF Up, Closed
<1>8. Booked' /\ DefaultFollows'
  BY <1>u, <1>v, <1>r, SteadyBooks, SteadyMapping DEF Inv, Up
<1>6. CASE tabs = <<>>
  <2>1. running' = "exiting" /\ UNCHANGED <<panel, store>>
    BY <1>6 DEF PanelQuits
  <2>2. ScreenOK'
    BY <1>u, <1>v, <2>1 DEF Inv, TypeOK, ScreenOK, Single
  <2>3. Layers' /\ Saved'
    BY <1>u, <1>v, <2>1 DEF Layers, Saved, Up
  <2> QED BY <1>1, <2>2, <1>3, <1>4, <1>5, <2>3, <1>8 DEF Inv, TypeOK
<1>7. CASE tabs # <<>>
  <2>1. running' = running /\ panel' = <<>> /\ store' = <<Directory>>
    BY <1>7 DEF PanelQuits
  <2>2. Single(panel', Panel) /\ Single(store', SUBSET Entry) /\ store'[1] = Directory /\ store' # <<>>
    BY <2>1, <1>d, OneIs
  <2>3. ScreenOK'
    BY <1>u, <1>v, <2>2 DEF Inv, TypeOK, ScreenOK, Single
  <2>4. Layers'
    <3>1. ~Viewing'
      BY <1>u, <1>v DEF Viewing
    <3>2. ~picking /\ active \in DOMAIN tabs
      BY <1>u, <1>7 DEF Inv, Layers, Up
    <3> QED BY <1>u, <1>v, <1>7, <2>1, <2>2, <3>1, <3>2 DEF Layers
  <2>5. Saved'
    BY <1>u, <1>v, <2>1, <2>2 DEF Inv, Saved, Up, Directory
  <2> QED BY <1>1, <2>3, <1>3, <1>4, <1>5, <2>4, <2>5, <1>8 DEF Inv, TypeOK
<1> QED BY <1>6, <1>7

\* What the keys that open and close the overlays have in common.
LEMMA OverlayKeeps ==
  ASSUME Inv, Up, UNCHANGED <<running, changes, files, panel, store, tabbar, secrets, mapping, past>>,
         Single(keymap', Profile), scripts' \in BOOLEAN, prompt' \in BOOLEAN, Layers'
  PROVE  Inv'
<1>v. UNCHANGED <<tabs, active, history, tasks>>
  BY DEF tabbar, past
<1>1. FilesOK' /\ Saved'
  BY SteadyFiles DEF Inv, TypeOK
<1>2. ScreenOK'
  BY <1>v DEF Inv, TypeOK, ScreenOK, Single
<1>3. SecretsOK' /\ KeyStored'
  BY SteadySecrets DEF Inv, TypeOK
<1>4. MappingOK' /\ PastOK'
  BY SteadyTypes DEF Inv, TypeOK
<1>5. Closed'
  BY DEF Up, Closed
<1>6. Booked' /\ DefaultFollows'
  BY <1>v, SteadyBooks, SteadyMapping DEF Inv
<1> QED BY <1>1, <1>2, <1>3, <1>4, <1>5, <1>6 DEF Inv, TypeOK

\* A command of a session finds nothing above the session.
LEMMA CommandIs ==
  ASSUME Inv, NEW c, Command(c)
  PROVE  /\ Up /\ ~prompt /\ keymap = <<>> /\ ~scripts /\ ~Viewing /\ creds = <<>> /\ panel = <<>>
         /\ tabs # <<>> /\ active \in DOMAIN tabs /\ tabs[active] \in Tab
         /\ store # <<>> /\ store[1] \in SUBSET Entry /\ Directory = store[1] /\ ~picking
<1>1. /\ Up /\ ~prompt /\ keymap = <<>> /\ ~scripts /\ ~Viewing /\ creds = <<>> /\ panel = <<>>
      /\ tabs # <<>>
  BY Turn DEF Command
<1>2. active \in DOMAIN tabs /\ store # <<>> /\ ~picking
  BY <1>1 DEF Inv, Layers, Up
<1>3. tabs[active] \in Tab
  BY <1>2, ElementOfSeq DEF Inv, TypeOK, ScreenOK
<1>4. store[1] \in SUBSET Entry
  BY <1>2 DEF Inv, TypeOK, ScreenOK, Single
<1> QED BY <1>1, <1>2, <1>3, <1>4 DEF Directory

LEMMA OverlayKeySafe ==
  Inv /\ (FilePrompt \/ OpenScripts \/ CloseScripts \/ OpenKeyMapping
          \/ \E c \in Editable : EditBinding(c)) => Inv'
<1> SUFFICES ASSUME Inv, \/ FilePrompt \/ OpenScripts \/ CloseScripts \/ OpenKeyMapping
                         \/ \E c \in Editable : EditBinding(c)
             PROVE  Inv'
  OBVIOUS
<1>t. ScreenOK /\ Layers /\ Single(keymap, Profile) /\ scripts \in BOOLEAN /\ prompt \in BOOLEAN
  BY DEF Inv, TypeOK, ScreenOK
<1>1. CASE FilePrompt
  <2>1. /\ Up /\ keymap' = keymap /\ scripts' = scripts /\ prompt' = ~prompt
        /\ UNCHANGED <<running, changes, files, panel, store, tabbar, secrets, mapping, past>>
    BY <1>1, Turn DEF FilePrompt
  <2>2. ~prompt => keymap = <<>> /\ ~scripts /\ creds = <<>> /\ panel = <<>> /\ ~Viewing
    BY <1>1, Turn DEF FilePrompt
  <2>3. Single(keymap', Profile)
    BY <1>t, <2>1 DEF Single
  <2>4. UNCHANGED <<tabs, active, creds, picking>>
    BY <2>1 DEF tabbar, secrets
  <2>5. Layers'
    BY <1>t, <2>1, <2>2, <2>4 DEF Layers, Viewing, Up
  <2> QED BY <1>t, <2>1, <2>3, <2>5, OverlayKeeps
<1>2. CASE OpenScripts
  <2>1. /\ Up /\ keymap' = keymap /\ scripts' = TRUE /\ prompt' = prompt
        /\ UNCHANGED <<running, changes, files, panel, store, tabbar, secrets, mapping, past>>
    BY <1>2, Turn DEF OpenScripts, Command, In
  <2>2. ~prompt /\ keymap = <<>> /\ ~scripts /\ creds = <<>> /\ ~Viewing
    BY <1>2, Turn DEF OpenScripts, Command, In
  <2>3. Single(keymap', Profile)
    BY <1>t, <2>1 DEF Single
  <2>4. UNCHANGED <<tabs, active, creds, picking>>
    BY <2>1 DEF tabbar, secrets
  <2>5. Layers'
    BY <1>t, <2>1, <2>2, <2>4 DEF Layers, Viewing, Up
  <2> QED BY <1>t, <2>1, <2>3, <2>5, OverlayKeeps
<1>3. CASE CloseScripts
  <2>1. /\ Up /\ keymap' = keymap /\ scripts' = FALSE /\ prompt' = prompt
        /\ UNCHANGED <<running, changes, files, panel, store, tabbar, secrets, mapping, past>>
    BY <1>3, Turn DEF CloseScripts
  <2>3. Single(keymap', Profile)
    BY <1>t, <2>1 DEF Single
  <2>4. UNCHANGED <<tabs, active, creds, picking>>
    BY <2>1 DEF tabbar, secrets
  <2>5. Layers'
    BY <1>t, <2>1, <2>4 DEF Layers, Viewing, Up
  <2> QED BY <1>t, <2>1, <2>3, <2>5, OverlayKeeps
<1>4. CASE OpenKeyMapping
  <2>1. /\ keymap' = <<tabs[active].profile>> /\ scripts' = scripts /\ prompt' = prompt
        /\ UNCHANGED <<running, changes, files, panel, store, tabbar, secrets, mapping, past>>
    BY <1>4 DEF OpenKeyMapping
  <2>2. /\ Up /\ ~prompt /\ keymap = <<>> /\ ~scripts /\ ~Viewing /\ creds = <<>> /\ panel = <<>>
        /\ tabs[active].profile \in Profile
    BY <1>4, CommandIs DEF OpenKeyMapping, Tab
  <2>3. Single(keymap', Profile)
    BY <2>1, <2>2, OneIs
  <2>4. UNCHANGED <<tabs, active, creds, picking>>
    BY <2>1 DEF tabbar, secrets
  <2>5. Layers'
    BY <1>t, <2>1, <2>2, <2>4 DEF Layers, Viewing, Up
  <2> QED BY <1>t, <2>1, <2>2, <2>3, <2>5, OverlayKeeps
<1>5. CASE \E c \in Editable : EditBinding(c)
  <2> PICK c \in Editable : EditBinding(c)
    BY <1>5
  <2> DEFINE edited == [keymap[1] EXCEPT !.bound = IF c \in @ THEN @ \ {c} ELSE @ \cup {c}]
  <2>1. /\ keymap' = <<edited>> /\ scripts' = scripts /\ prompt' = prompt
        /\ UNCHANGED <<running, changes, files, panel, store, tabbar, secrets, mapping, past>>
    BY DEF EditBinding
  <2>2. Up /\ keymap # <<>>
    BY Turn DEF EditBinding
  <2>3. edited \in Profile
    BY <1>t, <2>2, DeskAssumption DEF Single, Profile
  <2>4. Single(keymap', Profile) /\ keymap' # <<>>
    BY <2>1, <2>3, OneIs
  <2>5. UNCHANGED <<tabs, active, creds, picking>>
    BY <2>1 DEF tabbar, secrets
  <2>6. Layers'
    BY <1>t, <2>1, <2>2, <2>4, <2>5 DEF Layers, Viewing, Up
  <2> QED BY <1>t, <2>1, <2>2, <2>4, <2>6, OverlayKeeps
<1> QED BY <1>1, <1>2, <1>3, <1>4, <1>5

-----------------------------------------------------------------------------
(***************************************************************************)
(* Keys of a session.                                                      *)
(***************************************************************************)

\* Opening the directory panel over the tabs, or when the last is gone.
LEMMA ToDirectoryIs ==
  ASSUME Inv, store # <<>>, store[1] \in SUBSET Entry, panel = <<>>, ToDirectory
  PROVE  /\ Single(panel', Panel) /\ panel' # <<>> /\ panel'[1].at = "browse"
         /\ store' = <<>> /\ Single(store', SUBSET Entry)
         /\ panel'[1].dir = store[1] /\ Directory' = Directory
<1> DEFINE p == [dir |-> store[1], at |-> "browse", id |-> None, form |-> NewForm]
<1>1. p \in Panel
  BY DEF Panel, NewForm, Form
<1>2. panel' = <<p>> /\ store' = <<>>
  BY DEF ToDirectory, Fresh
<1>3. p.at = "browse" /\ p.dir = store[1]
  OBVIOUS
<1> HIDE DEF p
<1>4. Single(panel', Panel) /\ panel' # <<>> /\ panel'[1] = p /\ Single(store', SUBSET Entry)
  BY <1>1, <1>2, OneIs DEF Single
<1> QED BY <1>2, <1>3, <1>4 DEF Directory

LEMMA OpenDirectorySafe == Inv /\ OpenDirectory => Inv'
<1> SUFFICES ASSUME Inv, OpenDirectory PROVE Inv'
  OBVIOUS
<1>c. /\ Up /\ ~prompt /\ keymap = <<>> /\ ~scripts /\ ~Viewing /\ creds = <<>> /\ panel = <<>>
      /\ tabs # <<>> /\ active \in DOMAIN tabs
      /\ store # <<>> /\ store[1] \in SUBSET Entry /\ ~picking
  BY CommandIs DEF OpenDirectory
<1>u. ToDirectory /\ UNCHANGED <<running, changes, files, tabbar, overlay, secrets, mapping, past>>
  BY DEF OpenDirectory
<1>v. UNCHANGED <<tabs, active, keymap, scripts, prompt, creds, picking, vault, history, tasks, temp,
                  unsaved, disk>>
  BY <1>u DEF tabbar, overlay, secrets, past, files
<1>d. /\ Single(panel', Panel) /\ panel' # <<>> /\ store' = <<>> /\ Single(store', SUBSET Entry)
      /\ Directory' = Directory
  BY <1>c, <1>u, ToDirectoryIs
<1>1. FilesOK'
  BY <1>u, <1>v DEF Inv, TypeOK, FilesOK, Single
<1>2. ScreenOK'
  BY <1>v, <1>d DEF Inv, TypeOK, ScreenOK, Single
<1>3. SecretsOK' /\ KeyStored'
  BY <1>u, SteadySecrets DEF Inv, TypeOK
<1>4. MappingOK' /\ PastOK'
  BY <1>u, SteadyTypes DEF Inv, TypeOK
<1>5. Closed'
  BY <1>u, <1>c DEF Up, Closed
<1>6. Layers'
  BY <1>c, <1>v, <1>d DEF Layers, Viewing
<1>7. Saved'
  BY <1>c, <1>u, <1>v, <1>d DEF Inv, Saved, Up
<1>8. Booked' /\ DefaultFollows'
  BY <1>u, <1>v, SteadyBooks, SteadyMapping DEF Inv
<1> QED BY <1>1, <1>2, <1>3, <1>4, <1>5, <1>6, <1>7, <1>8 DEF Inv, TypeOK

\* The tab shown or its log viewer changes.
LEMMA TabKeySafe ==
  Inv /\ (ToggleLog \/ \E n \in DOMAIN tabs : SwitchTab(n)) => Inv'
<1> SUFFICES ASSUME Inv, ToggleLog \/ \E n \in DOMAIN tabs : SwitchTab(n) PROVE Inv'
  OBVIOUS
<1>t. tabs \in Seq(Tab) /\ active \in Nat \ {0}
  BY DEF Inv, TypeOK, ScreenOK
<1>u. UNCHANGED <<running, changes, files, panel, store, overlay, secrets, mapping, past>>
  BY DEF ToggleLog, SwitchTab
<1>v. UNCHANGED <<keymap, scripts, prompt, creds, picking, vault, history, tasks, temp, unsaved, disk>>
  BY <1>u DEF overlay, secrets, past, files
<1>c. Up /\ ~prompt /\ keymap = <<>> /\ ~scripts /\ tabs # <<>>
  BY Turn DEF ToggleLog, SwitchTab, Command, Viewing
<1>b. creds = <<>> /\ panel = <<>> /\ store # <<>> /\ active \in DOMAIN tabs /\ ~picking
  <2>1. creds = <<>> /\ panel = <<>>
    BY <1>c, Turn DEF ToggleLog, SwitchTab, Command, Inv, Layers, Up
  <2> QED BY <1>c, <2>1 DEF Inv, Layers, Up
<1>1. FilesOK' /\ Saved'
  BY <1>u, SteadyFiles DEF Inv, TypeOK
<1>3. SecretsOK' /\ KeyStored'
  BY <1>u, SteadySecrets DEF Inv, TypeOK
<1>4. MappingOK' /\ PastOK'
  BY <1>u, SteadyTypes DEF Inv, TypeOK
<1>5. Closed'
  BY <1>u, <1>c DEF Up, Closed
<1>s. ASSUME tabs' \in Seq(Tab), DOMAIN tabs' = DOMAIN tabs, active' \in DOMAIN tabs',
             \A i \in DOMAIN tabs : /\ tabs'[i].entry = tabs[i].entry
                                    /\ tabs'[i].status = tabs[i].status
                                    /\ tabs'[i].session = tabs[i].session
                                    /\ tabs'[i].recorded = tabs[i].recorded
                                    /\ tabs'[i].profile = tabs[i].profile
      PROVE  Inv'
  <2>1. tabs' # <<>> /\ active' \in Nat \ {0}
    BY <1>s, <1>b, <1>t
  <2>2. ScreenOK'
    BY <1>s, <1>u, <1>v, <2>1 DEF Inv, TypeOK, ScreenOK, Single
  <2>3. Layers'
    BY <1>s, <1>u, <1>v, <1>c, <1>b, <2>1 DEF Layers, Up
  <2>4. Booked'
    BY <1>s, <1>u, <1>v DEF Inv, Booked
  <2>5. DefaultFollows'
    BY <1>s, <1>u DEF Inv, DefaultFollows, LoadOrDefault, mapping
  <2> QED BY <1>1, <1>3, <1>4, <1>5, <2>2, <2>3, <2>4, <2>5 DEF Inv, TypeOK
<1>6. CASE ToggleLog
  <2>1. tabs' = [tabs EXCEPT ![active].viewer = ~@] /\ active' = active
    BY <1>6 DEF ToggleLog
  <2> DEFINE tab == [tabs[active] EXCEPT !.viewer = ~@]
  <2>2. tabs[active] \in Tab
    BY <1>b, <1>t, ElementOfSeq
  <2>3. /\ tab \in Tab /\ tab.entry = tabs[active].entry /\ tab.status = tabs[active].status
        /\ tab.session = tabs[active].session /\ tab.recorded = tabs[active].recorded
        /\ tab.profile = tabs[active].profile
    BY <2>2 DEF Tab
  <2>4. tabs' = [tabs EXCEPT ![active] = tab]
    BY <2>1
  <2> HIDE DEF tab
  <2>5. tabs' \in Seq(Tab) /\ DOMAIN tabs' = DOMAIN tabs
    BY <1>b, <1>t, <2>3, <2>4, ExceptSeq
  <2>6. \A i \in DOMAIN tabs : tabs'[i] = IF i = active THEN tab ELSE tabs[i]
    BY <1>t, <2>4
  <2> QED BY <1>s, <1>b, <2>1, <2>3, <2>5, <2>6
<1>7. CASE \E n \in DOMAIN tabs : SwitchTab(n)
  BY <1>7, <1>s, <1>t DEF SwitchTab
<1> QED BY <1>6, <1>7

\* After Quit the screen no longer counts.
LEMMA QuitSafe == Inv /\ Quit => Inv'
<1> SUFFICES ASSUME Inv, Quit PROVE Inv'
  OBVIOUS
<1>u. /\ Up /\ running' = "exiting"
      /\ UNCHANGED <<changes, files, panel, store, tabbar, overlay, secrets, mapping, past>>
  BY Turn DEF Quit
<1>v. UNCHANGED <<tabs, active, keymap, scripts, prompt, history, tasks, temp, disk, unsaved>>
  BY <1>u DEF tabbar, overlay, past, files
<1>1. FilesOK'
  BY <1>u, <1>v DEF Inv, TypeOK, FilesOK, Single
<1>2. ScreenOK'
  BY <1>u, <1>v DEF Inv, TypeOK, ScreenOK, Single
<1>3. SecretsOK' /\ KeyStored'
  BY <1>u, SteadySecrets DEF Inv, TypeOK
<1>4. MappingOK' /\ PastOK'
  BY <1>u, SteadyTypes DEF Inv, TypeOK
<1>5. Closed' /\ Layers' /\ Saved'
  BY <1>u, <1>v DEF Closed, Layers, Saved, Up
<1>6. Booked' /\ DefaultFollows'
  BY <1>u, <1>v, SteadyBooks, SteadyMapping DEF Inv
<1> QED BY <1>1, <1>2, <1>3, <1>4, <1>5, <1>6 DEF Inv, TypeOK

-----------------------------------------------------------------------------
(***************************************************************************)
(* Closing a tab, and the end of a link: the session is recorded.          *)
(***************************************************************************)

\* What is left of a sequence without its member i.
LEMMA RemovedIs ==
  ASSUME NEW S, NEW q \in Seq(S), NEW i \in 1..Len(q)
  PROVE  /\ RemoveAt(q, i) \in Seq(S) /\ Len(RemoveAt(q, i)) = Len(q) - 1
         /\ \A j \in 1..(Len(q) - 1) : RemoveAt(q, i)[j] = IF j < i THEN q[j] ELSE q[j + 1]
<1>1. /\ SubSeq(q, 1, i - 1) \in Seq(S) /\ Len(SubSeq(q, 1, i - 1)) = i - 1
      /\ \A j \in 1..(i - 1) : SubSeq(q, 1, i - 1)[j] = q[j]
  BY SubSeqProperties
<1>2. /\ SubSeq(q, i + 1, Len(q)) \in Seq(S) /\ Len(SubSeq(q, i + 1, Len(q))) = Len(q) - i
      /\ \A j \in 1..(Len(q) - i) : SubSeq(q, i + 1, Len(q))[j] = q[i + j]
  BY SubSeqProperties
<1> DEFINE a == SubSeq(q, 1, i - 1)
           b == SubSeq(q, i + 1, Len(q))
<1>3. a \in Seq(S) /\ b \in Seq(S) /\ Len(a) = i - 1 /\ Len(b) = Len(q) - i
  BY <1>1, <1>2
<1>4. RemoveAt(q, i) = a \o b
  BY DEF RemoveAt
<1> HIDE DEF a, b
<1>5. /\ a \o b \in Seq(S) /\ Len(a \o b) = Len(a) + Len(b)
      /\ \A j \in 1..(Len(a) + Len(b)) : (a \o b)[j] = IF j <= Len(a) THEN a[j] ELSE b[j - Len(a)]
  BY <1>3, ConcatProperties
<1>6. Len(a) + Len(b) = Len(q) - 1 /\ Len(q) \in Nat /\ i \in Nat
  BY <1>3
<1>7. ASSUME NEW j \in 1..(Len(q) - 1)
      PROVE  (a \o b)[j] = IF j < i THEN q[j] ELSE q[j + 1]
  <2>1. CASE j < i
    <3>1. j \in 1..(i - 1) /\ j <= Len(a)
      BY <2>1, <1>3, <1>6
    <3>2. a[j] = q[j]
      BY <3>1, <1>1 DEF a
    <3> QED BY <3>1, <3>2, <1>5, <1>6, <2>1
  <2>2. CASE ~(j < i)
    <3>1. j - (i - 1) \in 1..(Len(q) - i) /\ ~(j <= Len(a)) /\ i + (j - (i - 1)) = j + 1
      BY <2>2, <1>3, <1>6
    <3>2. b[j - (i - 1)] = q[j + 1]
      BY <3>1, <1>2 DEF b
    <3> QED BY <3>1, <3>2, <1>3, <1>5, <1>6, <2>2
  <2> QED BY <2>1, <2>2
<1> QED BY <1>4, <1>5, <1>6, <1>7

\* The tasks after a session is recorded: one more at most, of that session.
LEMMA RecordedIs ==
  ASSUME NEW tab \in Tab, RecordSessionEnd(tab), PastOK
  PROVE  /\ tasks' \in SUBSET Job
         /\ \A t \in tasks' : \/ t \in tasks
                              \/ /\ t.session = tab.session /\ t.todo = "end"
                                 /\ ~tab.recorded
         /\ \A t, u \in tasks' : t \in tasks \/ u \in tasks \/ t = u
<1> DEFINE new == [session |-> tab.session, outcome |-> Outcome(tab), todo |-> "end"]
<1>1. new \in Job /\ new.session = tab.session /\ new.todo = "end"
  BY DEF Job, Outcomes, Outcome, Tab
<1>2. \/ tasks' = tasks
      \/ tasks' = tasks \cup {new} /\ ~tab.recorded
  BY DEF RecordSessionEnd
<1> HIDE DEF new
<1> QED BY <1>1, <1>2 DEF PastOK

LEMMA CloseTabSafe == Inv /\ CloseTab => Inv'
<1> SUFFICES ASSUME Inv, CloseTab PROVE Inv'
  OBVIOUS
<1> DEFINE left == RemoveAt(tabs, active)
<1>c. /\ Up /\ ~prompt /\ keymap = <<>> /\ ~scripts /\ ~Viewing /\ creds = <<>> /\ panel = <<>>
      /\ tabs # <<>> /\ active \in DOMAIN tabs /\ tabs[active] \in Tab
      /\ store # <<>> /\ store[1] \in SUBSET Entry /\ ~picking
  BY CommandIs DEF CloseTab
<1>u. /\ UNCHANGED <<running, changes, files, overlay, secrets, mapping, history, imported, first>>
      /\ tabs' = left /\ RecordSessionEnd(tabs[active])
      /\ IF left = <<>>
         THEN ToDirectory /\ UNCHANGED active
         ELSE active' = (IF active > Len(left) THEN Len(left) ELSE active) /\ UNCHANGED <<panel, store>>
  BY DEF CloseTab
<1>v. UNCHANGED <<keymap, scripts, prompt, creds, picking, vault, temp, unsaved, disk>>
  BY <1>u DEF overlay, secrets, files
<1>t. tabs \in Seq(Tab) /\ active \in 1..Len(tabs)
  BY <1>c DEF Inv, TypeOK, ScreenOK
<1>l. /\ left \in Seq(Tab) /\ Len(left) = Len(tabs) - 1 /\ DOMAIN left = 1..Len(left)
      /\ \A j \in 1..Len(left) : left[j] = IF j < active THEN tabs[j] ELSE tabs[j + 1]
  BY <1>t, RemovedIs
<1>m. \A j \in DOMAIN left : \E k \in DOMAIN tabs : k # active /\ left[j] = tabs[k]
  <2> TAKE j \in DOMAIN left
  <2>1. CASE j < active
    BY <2>1, <1>l, <1>t
  <2>2. CASE ~(j < active)
    <3>1. j + 1 \in DOMAIN tabs /\ j + 1 # active
      BY <2>2, <1>l, <1>t
    <3> QED BY <3>1, <2>2, <1>l
  <2> QED BY <2>1, <2>2
<1> HIDE DEF left
<1>p. /\ tasks' \in SUBSET Job
      /\ \A t \in tasks' : \/ t \in tasks
                           \/ /\ t.session = tabs[active].session /\ t.todo = "end"
                              /\ ~tabs[active].recorded
      /\ \A t, u \in tasks' : t \in tasks \/ u \in tasks \/ t = u
  BY <1>c, <1>u, RecordedIs DEF Inv, TypeOK
<1>d. /\ Single(panel', Panel) /\ Single(store', SUBSET Entry) /\ Directory' = Directory
      /\ (panel' = <<>>) # (store' = <<>>)
      /\ left = <<>> <=> panel' # <<>>
  <2>1. CASE left = <<>>
    BY <2>1, <1>c, <1>u, ToDirectoryIs
  <2>2. CASE left # <<>>
    BY <2>2, <1>c, <1>u DEF Inv, TypeOK, ScreenOK, Single, Directory
  <2> QED BY <2>1, <2>2
<1>a. active' \in Nat \ {0} /\ (left # <<>> => active' \in DOMAIN left)
  <2>1. left # <<>> => Len(left) >= 1
    BY <1>l
  <2> QED BY <1>t, <1>u, <1>l, <2>1
<1>1. FilesOK'
  BY <1>u, <1>v DEF Inv, TypeOK, FilesOK, Single
<1>2. ScreenOK'
  BY <1>u, <1>v, <1>l, <1>d, <1>a DEF Inv, TypeOK, ScreenOK, Single
<1>3. SecretsOK' /\ KeyStored'
  BY <1>u, SteadySecrets DEF Inv, TypeOK
<1>4. MappingOK' /\ PastOK'
  BY <1>u, <1>p DEF Inv, TypeOK, MappingOK, PastOK, mapping
<1>5. Closed'
  BY <1>u, <1>c DEF Up, Closed
<1>6. Layers'
  <2>1. Viewing' => panel' = <<>>
    BY <1>u, <1>d DEF Viewing
  <2> QED BY <1>c, <1>u, <1>v, <1>d, <1>a, <2>1 DEF Layers
<1>7. Saved'
  BY <1>c, <1>u, <1>v, <1>d DEF Inv, Saved, Up
<1>8. Booked'
  <2>b. Booked
    BY DEF Inv
  <2>s. PICK n : n = tabs[active].session
    OBVIOUS
  <2>n. n \in DOMAIN history
    BY <2>b, <2>s, <1>c DEF Booked
  <2>o. \A k \in DOMAIN tabs : k # active => tabs[k].session # n
    BY <2>b, <2>s, <1>c DEF Booked
  <2>f. ~tabs[active].recorded => /\ history[n].ended = 0 /\ history[n].outcomes = <<>>
                                  /\ \A t \in tasks : t.session # n
    BY <2>b, <2>s, <1>c DEF Booked
  <2>1. ASSUME NEW i \in DOMAIN tabs'
        PROVE  /\ tabs'[i].session \in DOMAIN history'
               /\ \A j \in DOMAIN tabs' : tabs'[i].session = tabs'[j].session => i = j
               /\ running' = "up" /\ tabs'[i].status = "connected" => ~tabs'[i].recorded
               /\ ~tabs'[i].recorded =>
                    /\ history'[tabs'[i].session].ended = 0
                    /\ history'[tabs'[i].session].outcomes = <<>>
                    /\ \A t \in tasks' : t.session # tabs'[i].session
    <3>1. PICK k \in DOMAIN tabs : k # active /\ tabs'[i] = tabs[k]
      BY <1>m, <1>u
    <3>2. \A j \in DOMAIN tabs' : tabs'[i].session = tabs'[j].session => i = j
      <4> TAKE j \in DOMAIN tabs'
      <4>1. /\ i \in 1..Len(left) /\ j \in 1..Len(left)
            /\ tabs'[i] = IF i < active THEN tabs[i] ELSE tabs[i + 1]
            /\ tabs'[j] = IF j < active THEN tabs[j] ELSE tabs[j + 1]
        BY <1>u, <1>l
      <4>2. \A a, b \in 1..Len(tabs) : tabs[a].session = tabs[b].session => a = b
        BY <2>b, <1>t DEF Booked
      <4>3. i \in 1..Len(tabs) /\ j \in 1..Len(tabs) /\ i + 1 \in 1..Len(tabs) /\ j + 1 \in 1..Len(tabs)
        BY <4>1, <1>l, <1>t
      <4> QED BY <4>1, <4>2, <4>3, <1>t
    <3>3. \A t \in tasks' : ~tabs[k].recorded => t.session # tabs[k].session
      BY <1>p, <2>b, <2>o, <2>s, <3>1 DEF Booked
    <3> QED BY <2>b, <3>1, <3>2, <3>3, <1>u, <1>c DEF Booked
  <2>2. ASSUME NEW t \in tasks'
        PROVE  /\ t.session \in DOMAIN history'
               /\ history'[t.session].outcomes = <<>>
               /\ IF t.todo = "end" THEN history'[t.session].ended = 0
                  ELSE history'[t.session].ended = 1 \/ history'[t.session].failed
               /\ \A u \in tasks' : u.session = t.session => u = t
    <3>1. CASE t \in tasks
      <4>1. \A u \in tasks' : u.session = t.session => u \in tasks
        BY <1>p, <2>f, <2>s, <3>1
      <4> QED BY <2>b, <3>1, <4>1, <1>u DEF Booked
    <3>2. CASE t \notin tasks
      BY <1>p, <2>f, <2>s, <2>n, <3>2, <1>u
    <3> QED BY <3>1, <3>2
  <2>3. \A k \in DOMAIN history' :
          /\ history'[k].ended <= 1 /\ Len(history'[k].outcomes) <= 1
          /\ history'[k].row /\ history'[k].outcomes # <<>> => history'[k].ended = 1 \/ history'[k].failed
    BY <2>b, <1>u DEF Booked
  <2> QED BY <2>1, <2>2, <2>3 DEF Booked
<1>9. DefaultFollows'
  BY <1>u, <1>m DEF Inv, DefaultFollows, LoadOrDefault, mapping
<1> QED BY <1>1, <1>2, <1>3, <1>4, <1>5, <1>6, <1>7, <1>8, <1>9 DEF Inv, TypeOK

\* One tab changes its status or is marked recorded; the screen stays.
LEMMA TabMarked ==
  ASSUME Inv, NEW i \in DOMAIN tabs, NEW tab \in Tab, tabs' = [tabs EXCEPT ![i] = tab],
         tab.entry = tabs[i].entry, tab.profile = tabs[i].profile, tab.viewer = tabs[i].viewer,
         tab.session = tabs[i].session,
         UNCHANGED <<running, files, panel, store, active, overlay, secrets, mapping>>,
         running # "down"
  PROVE  /\ ScreenOK' /\ SecretsOK' /\ KeyStored' /\ MappingOK' /\ Closed' /\ Layers' /\ Saved'
         /\ DefaultFollows'
         /\ disk' \in SUBSET Entry /\ Single(temp', [content : SUBSET Entry, whole : BOOLEAN])
         /\ unsaved' \in BOOLEAN
         /\ DOMAIN tabs' = DOMAIN tabs
         /\ \A j \in DOMAIN tabs : tabs'[j] = IF j = i THEN tab ELSE tabs[j]
<1>v. UNCHANGED <<keymap, scripts, prompt, creds, picking, vault, temp, unsaved, disk>>
  BY DEF overlay, secrets, files
<1>t. tabs \in Seq(Tab) /\ DOMAIN tabs = 1..Len(tabs)
  BY DEF Inv, TypeOK, ScreenOK
<1>1. tabs' \in Seq(Tab) /\ DOMAIN tabs' = DOMAIN tabs
  BY <1>t, ExceptSeq
<1>2. \A j \in DOMAIN tabs : tabs'[j] = IF j = i THEN tab ELSE tabs[j]
  BY <1>t
<1>3. ScreenOK'
  BY <1>v, <1>1 DEF Inv, TypeOK, ScreenOK, Single
<1>4. SecretsOK' /\ KeyStored' /\ MappingOK'
  BY SteadySecrets, SteadyTypes DEF Inv, TypeOK
<1>5. Closed'
  BY DEF Closed
<1>6. (tabs' = <<>> <=> tabs = <<>>) /\ (running = "up" => Viewing' = Viewing)
  <2>1. tabs # <<>> /\ tabs' # <<>>
    BY <1>1, <1>t
  <2>2. running = "up" => active \in DOMAIN tabs
    BY <2>1 DEF Inv, Layers
  <2> QED BY <1>2, <2>1, <2>2 DEF Viewing
<1>7. Layers'
  BY <1>v, <1>1, <1>6 DEF Inv, Layers
<1>8. Saved'
  BY <1>v DEF Inv, Saved, Up, Directory
<1>9. DefaultFollows'
  BY <1>1, <1>2 DEF Inv, DefaultFollows, LoadOrDefault, mapping
<1>10. /\ disk' \in SUBSET Entry /\ Single(temp', [content : SUBSET Entry, whole : BOOLEAN])
       /\ unsaved' \in BOOLEAN
  BY <1>v DEF Inv, TypeOK, FilesOK, Single
<1> QED BY <1>1, <1>2, <1>3, <1>4, <1>5, <1>7, <1>8, <1>9, <1>10

LEMMA LinkEndsSafe ==
  Inv /\ (\E i \in DOMAIN tabs, status \in {"disconnected", "error"} : LinkEnds(i, status)) => Inv'
<1> SUFFICES ASSUME Inv, NEW i \in DOMAIN tabs, NEW status \in {"disconnected", "error"},
                    LinkEnds(i, status)
             PROVE  Inv'
  OBVIOUS
<1> DEFINE seen == [tabs[i] EXCEPT !.status = status]
           tab == [seen EXCEPT !.recorded = TRUE]
<1>u. /\ Up /\ tabs[i].status = "connected" /\ RecordSessionEnd(seen)
      /\ tabs' = [tabs EXCEPT ![i] = tab]
      /\ UNCHANGED <<running, changes, files, panel, store, active, overlay, secrets, mapping, history,
                     imported, first>>
  BY DEF LinkEnds
<1>t. tabs[i] \in Tab
  BY ElementOfSeq DEF Inv, TypeOK, ScreenOK
<1>a. /\ seen \in Tab /\ seen.session = tabs[i].session /\ seen.recorded = tabs[i].recorded
      /\ tab \in Tab /\ tab.entry = tabs[i].entry /\ tab.profile = tabs[i].profile
      /\ tab.viewer = tabs[i].viewer /\ tab.session = tabs[i].session /\ tab.recorded
      /\ tab.status = status
  BY <1>t DEF Tab
<1> HIDE DEF seen, tab
<1>r. running' = "up" /\ running = "up" /\ changes' = changes
  BY <1>u DEF Up
<1>m. /\ ScreenOK' /\ SecretsOK' /\ KeyStored' /\ MappingOK' /\ Closed' /\ Layers' /\ Saved'
      /\ DefaultFollows' /\ disk' \in SUBSET Entry
      /\ Single(temp', [content : SUBSET Entry, whole : BOOLEAN]) /\ unsaved' \in BOOLEAN
      /\ DOMAIN tabs' = DOMAIN tabs
      /\ \A j \in DOMAIN tabs : tabs'[j] = IF j = i THEN tab ELSE tabs[j]
  BY <1>u, <1>a, <1>r, TabMarked
<1>p. /\ tasks' \in SUBSET Job
      /\ \A t \in tasks' : t \in tasks \/ (t.session = tabs[i].session /\ t.todo = "end")
      /\ \A t, u \in tasks' : t \in tasks \/ u \in tasks \/ t = u
  BY <1>a, <1>u, RecordedIs DEF Inv, TypeOK
<1>1. FilesOK' /\ PastOK'
  BY <1>m, <1>p, <1>r, <1>u DEF Inv, TypeOK, FilesOK, PastOK
<1>8. Booked'
  <2>b. Booked
    BY DEF Inv
  <2>s. PICK n : n = tabs[i].session
    OBVIOUS
  <2>n. n \in DOMAIN history /\ ~tabs[i].recorded
    BY <2>b, <2>s, <1>u, <1>r DEF Booked
  <2>o. \A k \in DOMAIN tabs : k # i => tabs[k].session # n
    BY <2>b, <2>s DEF Booked
  <2>f. history[n].ended = 0 /\ history[n].outcomes = <<>> /\ \A t \in tasks : t.session # n
    BY <2>b, <2>s, <2>n DEF Booked
  <2>1. ASSUME NEW k \in DOMAIN tabs'
        PROVE  /\ tabs'[k].session \in DOMAIN history'
               /\ \A j \in DOMAIN tabs' : tabs'[k].session = tabs'[j].session => k = j
               /\ running' = "up" /\ tabs'[k].status = "connected" => ~tabs'[k].recorded
               /\ ~tabs'[k].recorded =>
                    /\ history'[tabs'[k].session].ended = 0
                    /\ history'[tabs'[k].session].outcomes = <<>>
                    /\ \A t \in tasks' : t.session # tabs'[k].session
    <3>1. \A j \in DOMAIN tabs : tabs'[j].session = tabs[j].session
      BY <1>m, <1>a
    <3>2. CASE k = i
      BY <3>1, <3>2, <2>b, <1>m, <1>a, <1>u DEF Booked
    <3>3. CASE k # i
      <4>1. tabs'[k] = tabs[k] /\ tabs[k].session # n
        BY <3>3, <1>m, <2>o
      <4>2. ~tabs[k].recorded => \A t \in tasks' : t.session # tabs[k].session
        BY <1>p, <4>1, <2>s, <2>b, <1>m DEF Booked
      <4> QED BY <4>1, <4>2, <3>1, <2>b, <1>m, <1>u, <1>r DEF Booked
    <3> QED BY <3>2, <3>3
  <2>2. ASSUME NEW t \in tasks'
        PROVE  /\ t.session \in DOMAIN history'
               /\ history'[t.session].outcomes = <<>>
               /\ IF t.todo = "end" THEN history'[t.session].ended = 0
                  ELSE history'[t.session].ended = 1 \/ history'[t.session].failed
               /\ \A u \in tasks' : u.session = t.session => u = t
    <3>1. CASE t \in tasks
      <4>1. \A u \in tasks' : u.session = t.session => u \in tasks
        BY <1>p, <2>f, <2>s, <3>1
      <4> QED BY <2>b, <3>1, <4>1, <1>u DEF Booked
    <3>2. CASE t \notin tasks
      BY <1>p, <2>f, <2>s, <2>n, <3>2, <1>u
    <3> QED BY <3>1, <3>2
  <2>3. \A k \in DOMAIN history' :
          /\ history'[k].ended <= 1 /\ Len(history'[k].outcomes) <= 1
          /\ history'[k].row /\ history'[k].outcomes # <<>> => history'[k].ended = 1 \/ history'[k].failed
    BY <2>b, <1>u DEF Booked
  <2> QED BY <2>1, <2>2, <2>3 DEF Booked
<1> QED BY <1>1, <1>m, <1>8 DEF Inv, TypeOK

-----------------------------------------------------------------------------
(***************************************************************************)
(* The tasks that write the history, and the exit that writes it itself.   *)
(***************************************************************************)

\* What an attempt to write one thing about session n leaves.
LEMMA WrittenIs ==
  ASSUME NEW h \in Seq(Record), NEW n \in DOMAIN h, NEW ok \in BOOLEAN, NEW outcome \in Outcomes
  PROVE  /\ Noted(h, n, outcome, ok) \in Seq(Record) /\ DOMAIN Noted(h, n, outcome, ok) = DOMAIN h
         /\ \A k \in DOMAIN h : k # n => Noted(h, n, outcome, ok)[k] = h[k]
         /\ Noted(h, n, outcome, ok)[n].row = h[n].row
         /\ Noted(h, n, outcome, ok)[n].ended = h[n].ended
         /\ Noted(h, n, outcome, ok)[n].failed <=> (h[n].failed \/ ~ok)
         /\ Len(Noted(h, n, outcome, ok)[n].outcomes) <= Len(h[n].outcomes) + 1
<1> DEFINE new == [h[n] EXCEPT !.outcomes = IF ok THEN Append(@, outcome) ELSE @,
                               !.failed = @ \/ ~ok]
<1>1. h[n] \in Record
  BY ElementOfSeq
<1>2. Append(h[n].outcomes, outcome) \in Seq(Outcomes)
  BY <1>1, AppendProperties DEF Record
<1>3. /\ new \in Record /\ new.row = h[n].row /\ new.ended = h[n].ended
      /\ new.failed <=> (h[n].failed \/ ~ok)
      /\ new.outcomes = IF ok THEN Append(h[n].outcomes, outcome) ELSE h[n].outcomes
  BY <1>1, <1>2 DEF Record
<1>a. Len(new.outcomes) <= Len(h[n].outcomes) + 1
  <2>1. h[n].outcomes \in Seq(Outcomes)
    BY <1>1 DEF Record
  <2>2. Len(Append(h[n].outcomes, outcome)) = Len(h[n].outcomes) + 1 /\ Len(h[n].outcomes) \in Nat
    BY <2>1, AppendProperties, LenProperties
  <2> HIDE DEF new
  <2> QED BY <1>3, <2>2
<1>4. Noted(h, n, outcome, ok) = [h EXCEPT ![n] = new]
  BY DEF Noted
<1> HIDE DEF new
<1>5. [h EXCEPT ![n] = new] \in Seq(Record) /\ DOMAIN [h EXCEPT ![n] = new] = DOMAIN h
  BY <1>3, ExceptSeq
<1>6. [h EXCEPT ![n] = new][n] = new /\ \A k \in DOMAIN h : k # n => [h EXCEPT ![n] = new][k] = h[k]
  OBVIOUS
<1> QED BY <1>3, <1>a, <1>4, <1>5, <1>6

LEMMA EndedIs ==
  ASSUME history \in Seq(Record), NEW n \in DOMAIN history, NEW ok \in BOOLEAN
  PROVE  /\ Ended(n, ok) \in Seq(Record) /\ DOMAIN Ended(n, ok) = DOMAIN history
         /\ \A k \in DOMAIN history : k # n => Ended(n, ok)[k] = history[k]
         /\ Ended(n, ok)[n].row = history[n].row
         /\ Ended(n, ok)[n].outcomes = history[n].outcomes
         /\ Ended(n, ok)[n].failed <=> (history[n].failed \/ ~ok)
         /\ Ended(n, ok)[n].ended = IF ok THEN history[n].ended + 1 ELSE history[n].ended
<1> DEFINE new == [history[n] EXCEPT !.ended = IF ok THEN @ + 1 ELSE @, !.failed = @ \/ ~ok]
<1>1. history[n] \in Record
  BY ElementOfSeq
<1>2. PICK e \in Nat : e = IF ok THEN history[n].ended + 1 ELSE history[n].ended
  BY <1>1 DEF Record
<1>3. new = [history[n] EXCEPT !.ended = e, !.failed = @ \/ ~ok]
  BY <1>2
<1>4. Ended(n, ok) = [history EXCEPT ![n] = new]
  BY DEF Ended
<1> HIDE DEF new
<1>5. /\ new \in Record /\ new.row = history[n].row /\ new.outcomes = history[n].outcomes
      /\ new.failed <=> (history[n].failed \/ ~ok)
      /\ new.ended = e
  BY <1>1, <1>3 DEF Record
<1>6. [history EXCEPT ![n] = new] \in Seq(Record) /\ DOMAIN [history EXCEPT ![n] = new] = DOMAIN history
  BY <1>5, ExceptSeq
<1>7. /\ [history EXCEPT ![n] = new][n] = new
      /\ \A k \in DOMAIN history : k # n => [history EXCEPT ![n] = new][k] = history[k]
  OBVIOUS
<1> QED BY <1>2, <1>4, <1>5, <1>6, <1>7

LEMMA TaskSafe == Inv /\ Task => Inv'
<1> SUFFICES ASSUME Inv, NEW t \in tasks, NEW ok \in BOOLEAN, TaskStep(t, ok) PROVE Inv'
  BY DEF Task
<1>b. Booked /\ history \in Seq(Record) /\ tasks \in SUBSET Job
  BY DEF Inv, TypeOK, PastOK
<1>u. /\ running # "down"
      /\ UNCHANGED <<running, files, panel, store, tabbar, overlay, secrets, mapping, imported, first>>
      /\ changes' \in Nat
  BY DEF TaskStep, Change, Inv, TypeOK, FilesOK
<1>v. UNCHANGED <<tabs, active, keymap, scripts, prompt, creds, picking, disk, temp, unsaved>>
  BY <1>u DEF tabbar, overlay, secrets, files
<1>s. PICK n : n = t.session
  OBVIOUS
<1>n. /\ n \in DOMAIN history /\ history[n].outcomes = <<>> /\ t.todo \in {"end", "record"}
      /\ t.outcome \in Outcomes /\ \A w \in tasks : w.session = n => w = t
  BY <1>b, <1>s DEF Booked, Job
<1>o. \A i \in DOMAIN tabs : tabs[i].session = n => tabs[i].recorded
  BY <1>b, <1>s DEF Booked
<1>h. \A k \in DOMAIN history : history[k] \in Record
  BY <1>b, ElementOfSeq
\* What is common to the two statements a task makes.
<1>x. ASSUME history' \in Seq(Record), DOMAIN history' = DOMAIN history,
             \A k \in DOMAIN history : k # n => history'[k] = history[k],
             tasks' \in SUBSET Job,
             \A w \in tasks' : \/ w \in tasks /\ w # t
                               \/ /\ w.session = n /\ w.todo = "record"
                                  /\ history'[n].outcomes = <<>>
                                  /\ history'[n].ended = 1 \/ history'[n].failed,
             \A w, z \in tasks' : \/ w \in tasks /\ w # t
                                  \/ z \in tasks /\ z # t
                                  \/ w = z,
             history'[n].ended <= 1, Len(history'[n].outcomes) <= 1,
             history'[n].outcomes # <<>> => history'[n].ended = 1 \/ history'[n].failed
      PROVE  Inv'
  <2>1. FilesOK' /\ PastOK'
    BY <1>x, <1>u, <1>v DEF Inv, TypeOK, FilesOK, PastOK, Single
  <2>2. ScreenOK' /\ Layers'
    BY <1>u, <1>v, SteadyScreen DEF Inv, TypeOK
  <2>3. SecretsOK' /\ KeyStored' /\ MappingOK'
    BY <1>u, SteadySecrets, SteadyTypes DEF Inv, TypeOK
  <2>4. Closed' /\ Saved'
    BY <1>u, <1>v DEF Inv, Closed, Saved, Up, Directory
  <2>5. DefaultFollows'
    BY <1>u, <1>v, SteadyMapping DEF Inv
  <2>6. ASSUME NEW i \in DOMAIN tabs'
        PROVE  /\ tabs'[i].session \in DOMAIN history'
               /\ \A j \in DOMAIN tabs' : tabs'[i].session = tabs'[j].session => i = j
               /\ running' = "up" /\ tabs'[i].status = "connected" => ~tabs'[i].recorded
               /\ ~tabs'[i].recorded =>
                    /\ history'[tabs'[i].session].ended = 0
                    /\ history'[tabs'[i].session].outcomes = <<>>
                    /\ \A w \in tasks' : w.session # tabs'[i].session
    <3>1. ~tabs[i].recorded => tabs[i].session # n
      BY <1>o, <1>v
    <3>2. ~tabs[i].recorded => \A w \in tasks' : w.session # tabs[i].session
      BY <1>b, <1>x, <1>v, <3>1 DEF Booked
    <3> QED BY <1>b, <1>x, <1>u, <1>v, <3>1, <3>2 DEF Booked
  <2>7. ASSUME NEW w \in tasks'
        PROVE  /\ w.session \in DOMAIN history'
               /\ history'[w.session].outcomes = <<>>
               /\ IF w.todo = "end" THEN history'[w.session].ended = 0
                  ELSE history'[w.session].ended = 1 \/ history'[w.session].failed
               /\ \A z \in tasks' : z.session = w.session => z = w
    <3>1. CASE w \in tasks /\ w # t
      <4>1. w.session # n
        BY <1>n, <3>1
      <4> QED BY <1>b, <1>x, <3>1, <4>1 DEF Booked
    <3>2. CASE ~(w \in tasks /\ w # t)
      <4>1. /\ w.session = n /\ w.todo = "record" /\ history'[n].outcomes = <<>>
            /\ history'[n].ended = 1 \/ history'[n].failed
        BY <1>x, <3>2
      <4>2. ASSUME NEW z \in tasks', z.session = n
            PROVE  z = w
        <5>1. ~(z \in tasks /\ z # t)
          BY <1>n, <4>2
        <5> QED BY <5>1, <3>2, <4>2, <1>x
      <4> QED BY <4>1, <4>2, <1>n, <1>x
    <3> QED BY <3>1, <3>2
  <2>8. \A k \in DOMAIN history' :
          /\ history'[k].ended <= 1 /\ Len(history'[k].outcomes) <= 1
          /\ history'[k].row /\ history'[k].outcomes # <<>> => history'[k].ended = 1 \/ history'[k].failed
    BY <1>b, <1>x DEF Booked
  <2>9. Booked'
    BY <2>6, <2>7, <2>8 DEF Booked
  <2> QED BY <2>1, <2>2, <2>3, <2>4, <2>5, <2>9 DEF Inv, TypeOK
<1>1. CASE t.todo = "end"
  <2> DEFINE next == [t EXCEPT !.todo = "record"]
  <2>1. history' = Ended(n, ok) /\ tasks' = (tasks \ {t}) \cup {next}
    BY <1>1, <1>s DEF TaskStep
  <2>2. next \in Job /\ next.session = n /\ next.todo = "record"
    BY <1>b, <1>s DEF Job
  <2> HIDE DEF next
  <2>3. history[n].ended = 0
    BY <1>1, <1>b, <1>s DEF Booked
  <2>4. /\ history' \in Seq(Record) /\ DOMAIN history' = DOMAIN history
        /\ \A k \in DOMAIN history : k # n => history'[k] = history[k]
        /\ history'[n].outcomes = <<>>
        /\ history'[n].failed <=> (history[n].failed \/ ~ok)
        /\ history'[n].ended = IF ok THEN 1 ELSE 0
    BY <1>b, <1>n, <2>1, <2>3, EndedIs
  <2>5. history'[n].ended = 1 \/ history'[n].failed
    BY <2>4
  <2>6. history'[n].ended <= 1 /\ Len(history'[n].outcomes) <= 1
    BY <2>4
  <2>7. /\ tasks' \in SUBSET Job
        /\ \A w \in tasks' : \/ w \in tasks /\ w # t
                             \/ w = next
    BY <2>1, <2>2, <1>b
  <2>8. \A w, z \in tasks' : \/ w \in tasks /\ w # t
                             \/ z \in tasks /\ z # t
                             \/ w = z
    BY <2>7
  <2> QED BY <1>x, <2>2, <2>4, <2>5, <2>6, <2>7, <2>8
<1>2. CASE t.todo = "record"
  <2>1. history' = Noted(history, n, t.outcome, ok) /\ tasks' = tasks \ {t}
    BY <1>2, <1>s DEF TaskStep
  <2>2. history[n].ended = 1 \/ history[n].failed
    BY <1>2, <1>b, <1>s DEF Booked
  <2>3. history[n].ended <= 1
    BY <1>b, <1>n DEF Booked
  <2>4. /\ history' \in Seq(Record) /\ DOMAIN history' = DOMAIN history
        /\ \A k \in DOMAIN history : k # n => history'[k] = history[k]
        /\ history'[n].failed <=> (history[n].failed \/ ~ok)
        /\ history'[n].ended = history[n].ended
        /\ Len(history'[n].outcomes) <= Len(history[n].outcomes) + 1
    BY <1>b, <1>n, <2>1, WrittenIs
  <2>5. Len(history'[n].outcomes) <= 1
    <3>1. Len(history[n].outcomes) = 0 /\ Len(history'[n].outcomes) \in Nat
      BY <2>4, <1>n, ElementOfSeq, LenProperties DEF Record
    <3> QED BY <2>4, <1>n, <3>1
  <2>6. /\ tasks' \in SUBSET Job /\ \A w \in tasks' : w \in tasks /\ w # t
    BY <2>1, <1>b
  <2> QED BY <1>x, <2>2, <2>3, <2>4, <2>5, <2>6
<1> QED BY <1>1, <1>2, <1>n

\* The exit records the first session that still waits.
LEMMA RecordOnExitSafe ==
  Inv /\ (\E i \in DOMAIN tabs, ended, noted \in BOOLEAN : RecordOnExit(i, ended, noted)) => Inv'
<1> SUFFICES ASSUME Inv, NEW i \in DOMAIN tabs, NEW ended \in BOOLEAN, NEW noted \in BOOLEAN,
                    RecordOnExit(i, ended, noted)
             PROVE  Inv'
  OBVIOUS
<1> DEFINE tab == [tabs[i] EXCEPT !.recorded = TRUE]
<1>b. Booked /\ history \in Seq(Record) /\ tasks \in SUBSET Job
  BY DEF Inv, TypeOK, PastOK
<1>s. PICK n : n = tabs[i].session
  OBVIOUS
<1>u. /\ running = "exiting" /\ running' = running /\ ~tabs[i].recorded
      /\ tabs' = [tabs EXCEPT ![i] = tab]
      /\ history' = IF history[n].row
                    THEN Noted(Ended(n, ended), n, Outcome(tabs[i]), noted) ELSE history
      /\ UNCHANGED <<files, panel, store, active, overlay, secrets, mapping, imported, first, tasks>>
      /\ changes' \in Nat
  BY <1>s DEF RecordOnExit, Waiting, Change, Inv, TypeOK, FilesOK
<1>t. tabs[i] \in Tab
  BY ElementOfSeq DEF Inv, TypeOK, ScreenOK
<1>a. /\ tab \in Tab /\ tab.entry = tabs[i].entry /\ tab.profile = tabs[i].profile
      /\ tab.viewer = tabs[i].viewer /\ tab.session = tabs[i].session /\ tab.recorded
  BY <1>t DEF Tab
<1> HIDE DEF tab
<1>m. /\ ScreenOK' /\ SecretsOK' /\ KeyStored' /\ MappingOK' /\ Closed' /\ Layers' /\ Saved'
      /\ DefaultFollows' /\ disk' \in SUBSET Entry
      /\ Single(temp', [content : SUBSET Entry, whole : BOOLEAN]) /\ unsaved' \in BOOLEAN
      /\ DOMAIN tabs' = DOMAIN tabs
      /\ \A j \in DOMAIN tabs : tabs'[j] = IF j = i THEN tab ELSE tabs[j]
  BY <1>u, <1>a, TabMarked
<1>n. /\ n \in DOMAIN history /\ history[n].ended = 0 /\ history[n].outcomes = <<>>
      /\ \A t \in tasks : t.session # n
      /\ \A k \in DOMAIN tabs : k # i => tabs[k].session # n
  BY <1>b, <1>s, <1>u DEF Booked
<1>h. /\ history' \in Seq(Record) /\ DOMAIN history' = DOMAIN history
      /\ \A k \in DOMAIN history : k # n => history'[k] = history[k]
      /\ history'[n].ended <= 1 /\ Len(history'[n].outcomes) <= 1
      /\ history'[n].row /\ history'[n].outcomes # <<>> => history'[n].ended = 1 \/ history'[n].failed
  <2>1. CASE ~history[n].row
    BY <2>1, <1>b, <1>n, <1>u
  <2>2. CASE history[n].row
    <3> DEFINE h == Ended(n, ended)
    <3>1. /\ h \in Seq(Record) /\ DOMAIN h = DOMAIN history
          /\ \A k \in DOMAIN history : k # n => h[k] = history[k]
          /\ h[n].outcomes = <<>>
          /\ h[n].failed <=> (history[n].failed \/ ~ended)
          /\ h[n].ended = IF ended THEN 1 ELSE 0
      BY <1>b, <1>n, EndedIs
    <3>2. Outcome(tabs[i]) \in Outcomes
      BY DEF Outcome, Outcomes
    <3>3. history' = Noted(h, n, Outcome(tabs[i]), noted)
      BY <2>2, <1>u
    <3> HIDE DEF h
    <3>n. n \in DOMAIN h
      BY <1>n, <3>1
    <3>4. /\ history' \in Seq(Record) /\ DOMAIN history' = DOMAIN h
          /\ \A k \in DOMAIN h : k # n => history'[k] = h[k]
          /\ history'[n].failed <=> (h[n].failed \/ ~noted)
          /\ history'[n].ended = h[n].ended
          /\ Len(history'[n].outcomes) <= Len(h[n].outcomes) + 1
      BY <3>n, <3>1, <3>2, <3>3, WrittenIs
    <3>5. Len(history'[n].outcomes) <= 1
      <4>1. Len(h[n].outcomes) = 0
        BY <3>1
      <4> QED BY <3>1, <3>4, <4>1
    <3>6. h[n].ended <= 1 /\ (h[n].ended = 1 \/ h[n].failed)
      BY <3>1
    <3> QED BY <3>1, <3>4, <3>5, <3>6
  <2> QED BY <2>1, <2>2
<1>1. FilesOK' /\ PastOK'
  BY <1>m, <1>h, <1>u DEF Inv, TypeOK, FilesOK, PastOK
<1>2. Booked'
  <2>1. ASSUME NEW k \in DOMAIN tabs'
        PROVE  /\ tabs'[k].session \in DOMAIN history'
               /\ \A j \in DOMAIN tabs' : tabs'[k].session = tabs'[j].session => k = j
               /\ running' = "up" /\ tabs'[k].status = "connected" => ~tabs'[k].recorded
               /\ ~tabs'[k].recorded =>
                    /\ history'[tabs'[k].session].ended = 0
                    /\ history'[tabs'[k].session].outcomes = <<>>
                    /\ \A t \in tasks' : t.session # tabs'[k].session
    <3>1. \A j \in DOMAIN tabs : tabs'[j].session = tabs[j].session
      BY <1>m, <1>a
    <3>2. CASE k = i
      BY <3>1, <3>2, <1>b, <1>m, <1>a, <1>u, <1>h DEF Booked
    <3>3. CASE k # i
      <4>1. tabs'[k] = tabs[k] /\ tabs[k].session # n
        BY <3>3, <1>m, <1>n
      <4> QED BY <4>1, <3>1, <1>b, <1>m, <1>u, <1>h DEF Booked
    <3> QED BY <3>2, <3>3
  <2>2. ASSUME NEW t \in tasks'
        PROVE  /\ t.session \in DOMAIN history'
               /\ history'[t.session].outcomes = <<>>
               /\ IF t.todo = "end" THEN history'[t.session].ended = 0
                  ELSE history'[t.session].ended = 1 \/ history'[t.session].failed
               /\ \A u \in tasks' : u.session = t.session => u = t
    <3>1. t \in tasks /\ t.session # n
      BY <1>u, <1>n
    <3> QED BY <3>1, <1>b, <1>u, <1>h DEF Booked
  <2>3. \A k \in DOMAIN history' :
          /\ history'[k].ended <= 1 /\ Len(history'[k].outcomes) <= 1
          /\ history'[k].row /\ history'[k].outcomes # <<>> => history'[k].ended = 1 \/ history'[k].failed
    BY <1>b, <1>h DEF Booked
  <2> QED BY <2>1, <2>2, <2>3 DEF Booked
<1> QED BY <1>1, <1>m, <1>2 DEF Inv, TypeOK

-----------------------------------------------------------------------------
(***************************************************************************)
(* Connecting from the directory panel.                                    *)
(***************************************************************************)

\* A sequence with one more member.
LEMMA AppendedIs ==
  ASSUME NEW S, NEW q \in Seq(S), NEW x \in S
  PROVE  /\ Append(q, x) \in Seq(S) /\ Append(q, x) # <<>>
         /\ DOMAIN Append(q, x) = DOMAIN q \cup {Len(q) + 1} /\ Len(q) + 1 \notin DOMAIN q
         /\ Append(q, x)[Len(q) + 1] = x
         /\ \A i \in DOMAIN q : Append(q, x)[i] = q[i]
<1>1. Append(q, x) \in Seq(S) /\ Append(q, x) # <<>> /\ Len(Append(q, x)) = Len(q) + 1
  BY AppendProperties
<1>2. Append(q, x)[Len(q) + 1] = x /\ \A i \in 1..Len(q) : Append(q, x)[i] = q[i]
  BY AppendProperties
<1>3. DOMAIN q = 1..Len(q) /\ Len(q) \in Nat /\ DOMAIN Append(q, x) = 1..(Len(q) + 1)
  BY <1>1, LenProperties
<1> QED BY <1>1, <1>2, <1>3

\* A new connection in the history, none of whose earlier ones change.
LEMMA MoreHistory ==
  ASSUME Inv, NEW x \in Record, history' = Append(history, x),
         x.ended = 0, Len(x.outcomes) <= 1, x.row => x.outcomes = <<>>
  PROVE  /\ history' \in Seq(Record)
         /\ DOMAIN history' = DOMAIN history \cup {Len(history) + 1}
         /\ Len(history) + 1 \notin DOMAIN history
         /\ history'[Len(history) + 1] = x
         /\ \A k \in DOMAIN history : history'[k] = history[k]
         /\ \A k \in DOMAIN history' :
              /\ history'[k].ended <= 1 /\ Len(history'[k].outcomes) <= 1
              /\ history'[k].row /\ history'[k].outcomes # <<>>
                   => history'[k].ended = 1 \/ history'[k].failed
<1>1. /\ history' \in Seq(Record)
      /\ DOMAIN history' = DOMAIN history \cup {Len(history) + 1}
      /\ Len(history) + 1 \notin DOMAIN history
      /\ history'[Len(history) + 1] = x
      /\ \A k \in DOMAIN history : history'[k] = history[k]
  BY AppendedIs DEF Inv, TypeOK, PastOK
<1> QED BY <1>1 DEF Inv, Booked

LEMMA ConnectFailsSafe ==
  Inv /\ (\E id \in Ids, ok \in BOOLEAN : ConnectFails(id, ok)) => Inv'
<1> SUFFICES ASSUME Inv, NEW id \in Ids, NEW ok \in BOOLEAN, ConnectFails(id, ok) PROVE Inv'
  OBVIOUS
<1> DEFINE p == [panel[1] EXCEPT !.at = "status", !.id = None, !.form = NewForm]
           x == Connection(id, FALSE, IF ok THEN <<"error">> ELSE <<>>)
<1>u. /\ Up /\ ~prompt /\ keymap = <<>> /\ ~scripts /\ ~Viewing /\ creds = <<>> /\ panel # <<>>
      /\ UNCHANGED <<running, files, store, tabbar, overlay, secrets, mapping, imported, first, tasks>>
      /\ changes' \in Nat /\ panel' = <<p>> /\ history' = Append(history, x)
  BY Turn DEF ConnectFails, In, Change, Goes, Inv, TypeOK, FilesOK
<1>v. UNCHANGED <<tabs, active, keymap, scripts, prompt, creds, picking, vault, temp, unsaved, disk>>
  BY <1>u DEF tabbar, overlay, secrets, files
<1>a. p \in Panel /\ p.dir = panel[1].dir
  BY <1>u DEF Inv, TypeOK, ScreenOK, Single, Panel, NewForm, Form
<1>x. x \in Record /\ x.ended = 0 /\ Len(x.outcomes) <= 1 /\ ~x.row
  <2>1. (IF ok THEN <<"error">> ELSE <<>>) \in Seq(Outcomes) /\ Len(IF ok THEN <<"error">> ELSE <<>>) <= 1
    <3>1. <<"error">> \in Seq(Outcomes) /\ Len(<<"error">>) = 1
      BY DEF Outcomes
    <3>2. <<>> \in Seq(Outcomes) /\ Len(<<>>) = 0
      OBVIOUS
    <3> QED BY <3>1, <3>2
  <2> QED BY <2>1 DEF Connection, Record
<1> HIDE DEF p, x
<1>p. Single(panel', Panel) /\ panel' # <<>> /\ panel'[1] = p
  BY <1>a, <1>u, OneIs
<1>h. /\ history' \in Seq(Record)
      /\ DOMAIN history' = DOMAIN history \cup {Len(history) + 1}
      /\ \A k \in DOMAIN history : history'[k] = history[k]
      /\ \A k \in DOMAIN history' :
           /\ history'[k].ended <= 1 /\ Len(history'[k].outcomes) <= 1
           /\ history'[k].row /\ history'[k].outcomes # <<>>
                => history'[k].ended = 1 \/ history'[k].failed
  BY <1>x, <1>u, MoreHistory
<1>1. FilesOK' /\ PastOK'
  BY <1>u, <1>v, <1>h DEF Inv, TypeOK, FilesOK, PastOK, Single
<1>2. ScreenOK'
  BY <1>u, <1>v, <1>p DEF Inv, TypeOK, ScreenOK, Single
<1>3. SecretsOK' /\ KeyStored' /\ MappingOK'
  BY <1>u, SteadySecrets, SteadyTypes DEF Inv, TypeOK
<1>5. Closed' /\ running' = "up"
  BY <1>u DEF Up, Closed
<1>6. Layers'
  <2>1. ~Viewing' /\ tabs' = tabs /\ active' = active
    BY <1>u, <1>v DEF Viewing
  <2>2. ~picking /\ store = <<>> /\ (tabs # <<>> => active \in DOMAIN tabs)
    BY <1>u DEF Inv, Layers, Up
  <2> QED BY <1>u, <1>v, <1>p, <2>1, <2>2 DEF Layers
<1>7. Saved'
  BY <1>a, <1>u, <1>v, <1>p DEF Inv, Saved, Up, Directory
<1>8. Booked'
  BY <1>u, <1>v, <1>h DEF Inv, Booked
<1>9. DefaultFollows'
  BY <1>u, <1>v, SteadyMapping DEF Inv
<1> QED BY <1>1, <1>2, <1>3, <1>5, <1>6, <1>7, <1>8, <1>9 DEF Inv, TypeOK

\* The bindings a tab gets, of its own profile or of the default one.
LEMMA ProfileIs ==
  ASSUME MappingOK, NEW entry \in Entry
  PROVE  ProfileOf(entry) \in Profile
<1>1. \A name \in Profiles : LoadOrDefault(name) \in Profile
  <2> TAKE name \in Profiles
  <2>1. profiles[name] \in Seq(Profile)
    BY DEF MappingOK
  <2>2. profiles[name] # <<>> => Head(profiles[name]) \in Profile
    BY <2>1, HeadTailProperties
  <2>3. DefaultProfile \in Profile
    BY DEF DefaultProfile, Profile, Profiles
  <2> QED BY <2>2, <2>3 DEF LoadOrDefault
<1>2. (IF entry.keys = None THEN "Default" ELSE entry.keys) \in Profiles
  BY DEF Entry, Profiles
<1> QED BY <1>1, <1>2 DEF ProfileOf

LEMMA ConnectsSafe == Inv /\ (\E id \in Ids, ok \in BOOLEAN : Connects(id, ok)) => Inv'
<1> SUFFICES ASSUME Inv, NEW id \in Ids, NEW ok \in BOOLEAN, Connects(id, ok) PROVE Inv'
  OBVIOUS
<1> DEFINE entry == Get(Directory, id)
           dir == MarkConnected(Directory, id)
           x == Connection(id, ok, <<>>)
           tab == [entry |-> entry, status |-> "connected", session |-> Len(history) + 1,
                   recorded |-> FALSE, profile |-> ProfileOf(entry), viewer |-> FALSE]
<1>u. /\ Up /\ ~prompt /\ keymap = <<>> /\ ~scripts /\ creds = <<>> /\ panel # <<>>
      /\ Has(Directory, id)
      /\ UNCHANGED <<running, overlay, secrets, mapping, imported, first, tasks>>
      /\ changes' \in Nat
      /\ temp' = <<[content |-> dir, whole |-> FALSE]>> /\ UNCHANGED <<disk, unsaved>>
      /\ panel' = <<>> /\ store' = <<dir>>
      /\ history' = Append(history, x) /\ tabs' = Append(tabs, tab) /\ active' = Len(tabs) + 1
  BY Turn DEF Connects, In, Save, Change, Inv, TypeOK, FilesOK
<1>v. UNCHANGED <<keymap, scripts, prompt, creds, picking, vault>>
  BY <1>u DEF overlay, secrets
<1>d. Directory \in SUBSET Entry
  BY <1>u DEF Inv, TypeOK, ScreenOK, Single, Directory, Panel
<1>e. entry \in Entry /\ dir \in SUBSET Entry
  BY <1>d, <1>u, GetIs, ReplacedIs
<1>b. /\ Booked /\ history \in Seq(Record) /\ tabs \in Seq(Tab) /\ tasks \in SUBSET Job
  BY DEF Inv, TypeOK, PastOK, ScreenOK
<1>a. /\ tab \in Tab /\ tab.status = "connected" /\ tab.session = Len(history) + 1
      /\ ~tab.recorded /\ ~tab.viewer /\ tab.entry = entry /\ tab.profile = ProfileOf(entry)
  <2>1. ProfileOf(entry) \in Profile
    BY <1>e, ProfileIs DEF Inv, TypeOK
  <2>2. Len(history) + 1 \in Nat
    BY <1>b
  <2> HIDE DEF entry
  <2> QED BY <1>e, <2>1, <2>2 DEF Tab
<1>x. x \in Record /\ x.ended = 0 /\ x.outcomes = <<>>
  BY DEF Connection, Record
<1> HIDE DEF entry, dir, x, tab
<1>h. /\ history' \in Seq(Record)
      /\ DOMAIN history' = DOMAIN history \cup {Len(history) + 1}
      /\ Len(history) + 1 \notin DOMAIN history
      /\ history'[Len(history) + 1] = x
      /\ \A k \in DOMAIN history : history'[k] = history[k]
      /\ \A k \in DOMAIN history' :
           /\ history'[k].ended <= 1 /\ Len(history'[k].outcomes) <= 1
           /\ history'[k].row /\ history'[k].outcomes # <<>>
                => history'[k].ended = 1 \/ history'[k].failed
  <2>1. Len(x.outcomes) <= 1
    BY <1>x
  <2> QED BY <2>1, <1>x, <1>u, MoreHistory
<1>t. /\ tabs' \in Seq(Tab) /\ tabs' # <<>>
      /\ DOMAIN tabs' = DOMAIN tabs \cup {Len(tabs) + 1} /\ Len(tabs) + 1 \notin DOMAIN tabs
      /\ tabs'[Len(tabs) + 1] = tab
      /\ \A i \in DOMAIN tabs : tabs'[i] = tabs[i]
  BY <1>a, <1>b, <1>u, AppendedIs
<1>q. /\ Single(temp', [content : SUBSET Entry, whole : BOOLEAN])
      /\ temp' # <<>> /\ temp'[1].content = dir
  <2>1. [content |-> dir, whole |-> FALSE] \in [content : SUBSET Entry, whole : BOOLEAN]
    BY <1>e
  <2> QED BY <2>1, <1>u, OneIs
<1>p. Single(store', SUBSET Entry) /\ store' # <<>> /\ store'[1] = dir /\ Single(panel', Panel)
  <2>1. Single(panel', Panel)
    BY <1>u DEF Single
  <2> QED BY <1>e, <1>u, <2>1, OneIs
<1>1. FilesOK' /\ PastOK'
  BY <1>u, <1>q, <1>h DEF Inv, TypeOK, FilesOK, PastOK
<1>2. ScreenOK'
  BY <1>u, <1>v, <1>p, <1>t, <1>b DEF Inv, TypeOK, ScreenOK, Single
<1>3. SecretsOK' /\ KeyStored' /\ MappingOK'
  BY <1>u, SteadySecrets, SteadyTypes DEF Inv, TypeOK
<1>5. Closed' /\ running' = "up"
  BY <1>u DEF Up, Closed
<1>6. Layers'
  <2>1. ~Viewing' /\ active' \in DOMAIN tabs'
    BY <1>u, <1>t, <1>a DEF Viewing
  <2>2. ~picking
    BY <1>u DEF Inv, Layers, Up
  <2> QED BY <1>u, <1>v, <1>p, <1>t, <2>1, <2>2 DEF Layers
<1>7. Saved'
  BY <1>u, <1>p, <1>q, <1>5 DEF Saved, Up, Directory
<1>8. Booked'
  <2>1. ASSUME NEW i \in DOMAIN tabs'
        PROVE  /\ tabs'[i].session \in DOMAIN history'
               /\ \A j \in DOMAIN tabs' : tabs'[i].session = tabs'[j].session => i = j
               /\ running' = "up" /\ tabs'[i].status = "connected" => ~tabs'[i].recorded
               /\ ~tabs'[i].recorded =>
                    /\ history'[tabs'[i].session].ended = 0
                    /\ history'[tabs'[i].session].outcomes = <<>>
                    /\ \A t \in tasks' : t.session # tabs'[i].session
    <3>1. CASE i \in DOMAIN tabs
      BY <3>1, <1>b, <1>t, <1>h, <1>a, <1>u DEF Booked
    <3>2. CASE i = Len(tabs) + 1
      <4>1. tabs'[i] = tab /\ tabs'[i].session = Len(history) + 1
        BY <3>2, <1>t, <1>a
      <4>2. \A j \in DOMAIN tabs' : tabs'[i].session = tabs'[j].session => i = j
        BY <4>1, <3>2, <1>b, <1>t, <1>h DEF Booked
      <4>3. \A t \in tasks' : t.session # Len(history) + 1
        BY <1>b, <1>h, <1>u DEF Booked
      <4> QED BY <4>1, <4>2, <4>3, <1>h, <1>x, <1>a
    <3> QED BY <3>1, <3>2, <1>t
  <2>2. ASSUME NEW t \in tasks'
        PROVE  /\ t.session \in DOMAIN history'
               /\ history'[t.session].outcomes = <<>>
               /\ IF t.todo = "end" THEN history'[t.session].ended = 0
                  ELSE history'[t.session].ended = 1 \/ history'[t.session].failed
               /\ \A w \in tasks' : w.session = t.session => w = t
    BY <1>b, <1>u, <1>h DEF Booked
  <2> QED BY <2>1, <2>2, <1>h DEF Booked
<1>9. DefaultFollows'
  <2>1. ASSUME ~strayed', NEW i \in DOMAIN tabs', tabs'[i].entry.keys = None
        PROVE  tabs'[i].profile = global'
    <3>1. CASE i \in DOMAIN tabs
      BY <3>1, <2>1, <1>t, <1>u DEF Inv, DefaultFollows, Up, mapping
    <3>2. CASE i = Len(tabs) + 1
      BY <3>2, <2>1, <1>t, <1>a, <1>u DEF Inv, DefaultFollows, Up, mapping, ProfileOf
    <3> QED BY <3>1, <3>2, <1>t
  <2>2. ~strayed' => LoadOrDefault("Default")' = global'
    BY <1>u DEF Inv, DefaultFollows, Up, mapping, LoadOrDefault
  <2> QED BY <2>1, <2>2 DEF DefaultFollows
<1> QED BY <1>1, <1>2, <1>3, <1>5, <1>6, <1>7, <1>8, <1>9 DEF Inv, TypeOK

-----------------------------------------------------------------------------
(***************************************************************************)
(* The credential panel.                                                   *)
(***************************************************************************)

\* What the keys of the credential panel have in common: the form of the
\* directory panel below it at most, and no public key without its store.
LEMMA CredentialsKeep ==
  ASSUME Inv, Up, NEW under,
         UNCHANGED <<running, files, store, tabbar, overlay, mapping, past>>,
         changes' \in Nat, SecretsOK', KeyStored', Layers',
         \/ panel' = panel
         \/ panel # <<>> /\ panel' = <<under>> /\ under \in Panel /\ under.dir = panel[1].dir
  PROVE  Inv'
<1>v. UNCHANGED <<tabs, active, keymap, scripts, prompt, history, tasks, temp, unsaved, disk>>
  BY DEF tabbar, overlay, past, files
<1>p. Single(panel', Panel) /\ Directory' = Directory
  <2>1. CASE panel' = panel
    BY <2>1 DEF Inv, TypeOK, ScreenOK, Single, Directory
  <2>2. CASE panel # <<>> /\ panel' = <<under>> /\ under \in Panel /\ under.dir = panel[1].dir
    <3>1. Single(panel', Panel) /\ panel' # <<>> /\ panel'[1] = under
      BY <2>2, OneIs
    <3> QED BY <2>2, <3>1 DEF Directory
  <2> QED BY <2>1, <2>2
<1>1. FilesOK'
  BY <1>v DEF Inv, TypeOK, FilesOK, Single
<1>2. ScreenOK'
  BY <1>v, <1>p DEF Inv, TypeOK, ScreenOK, Single
<1>3. MappingOK' /\ PastOK'
  BY SteadyTypes DEF Inv, TypeOK
<1>4. Closed' /\ Saved'
  BY <1>v, <1>p DEF Inv, Closed, Saved, Up
<1>5. Booked' /\ DefaultFollows'
  BY <1>v, SteadyBooks, SteadyMapping DEF Inv
<1> QED BY <1>1, <1>2, <1>3, <1>4, <1>5 DEF Inv, TypeOK

\* The layers while the picker takes the keys, whatever it does to the form.
LEMMA CredentialLayers ==
  ASSUME Inv, At("credentials"),
         UNCHANGED <<running, store, tabbar, overlay>>,
         picking' => creds' # <<>> /\ panel' # <<>> /\ panel'[1].at = "form",
         panel' = <<>> <=> panel = <<>>
  PROVE  Layers'
<1>v. UNCHANGED <<tabs, active, keymap, scripts, prompt>>
  BY DEF tabbar, overlay
<1>c. Up /\ ~prompt /\ keymap = <<>> /\ ~scripts /\ ~Viewing /\ creds # <<>>
  BY Turn
<1>1. ~Viewing'
  BY <1>v, <1>c DEF Viewing
<1>2. /\ (panel = <<>>) # (store = <<>>)
      /\ tabs = <<>> => panel # <<>>
      /\ tabs # <<>> => active \in DOMAIN tabs
  BY <1>c DEF Inv, Layers, Up
<1> QED BY <1>v, <1>c, <1>1, <1>2 DEF Layers

LEMMA OpenCredentialsSafe == Inv /\ (\E listed \in BOOLEAN : OpenCredentials(listed)) => Inv'
<1> SUFFICES ASSUME Inv, NEW listed \in BOOLEAN, OpenCredentials(listed) PROVE Inv'
  OBVIOUS
<1> DEFINE c == [items |-> IF listed THEN vault ELSE {}, at |-> "browse", id |-> None]
<1>u. /\ Up /\ ~prompt /\ keymap = <<>> /\ ~scripts /\ ~Viewing
      /\ UNCHANGED <<running, changes, files, panel, store, tabbar, overlay, vault, mapping, past>>
      /\ creds' = <<c>> /\ picking' = (panel # <<>> /\ panel[1].at = "form")
  BY Turn DEF OpenCredentials, Command, In
<1>v. UNCHANGED <<tabs, active, keymap, scripts, prompt>>
  BY <1>u DEF tabbar, overlay
<1>c. c \in Picker /\ c.at = "browse"
  BY DEF Picker, Inv, TypeOK, SecretsOK
<1> HIDE DEF c
<1>p. Single(creds', Picker) /\ creds' # <<>> /\ creds'[1] = c
  BY <1>c, <1>u, OneIs
<1>1. SecretsOK' /\ KeyStored'
  BY <1>u, <1>c, <1>p DEF Inv, TypeOK, SecretsOK, KeyStored
<1>2. Layers'
  <2>1. ~Viewing'
    BY <1>u, <1>v DEF Viewing
  <2> QED BY <1>u, <1>v, <1>p, <2>1 DEF Inv, Layers, Up
<1>3. changes' \in Nat
  BY <1>u DEF Inv, TypeOK, FilesOK
<1> QED BY <1>u, <1>1, <1>2, <1>3, CredentialsKeep

\* The picker shows a credential: a public key only of one that is stored.
LEMMA ShowsIs ==
  ASSUME Inv, At("credentials"), NEW at \in {"browse", "kind", "secret", "pubkey", "shown"},
         NEW id \in Credentials \cup {None}, Shows(at, id), UNCHANGED vault,
         at = "pubkey" => \E v \in vault : v.id = id
  PROVE  Single(creds', Picker) /\ creds' # <<>> /\ KeyStored'
<1> DEFINE c == [creds[1] EXCEPT !.at = at, !.id = id]
<1>1. creds[1] \in Picker
  BY Turn DEF Inv, TypeOK, SecretsOK, Single
<1>2. c \in Picker /\ c.at = at /\ c.id = id
  BY <1>1 DEF Picker
<1>3. creds' = <<c>>
  BY DEF Shows
<1> HIDE DEF c
<1>4. Single(creds', Picker) /\ creds' # <<>> /\ creds'[1] = c
  BY <1>2, <1>3, OneIs
<1> QED BY <1>2, <1>4 DEF KeyStored

\* The form below the picker gets its credential.
LEMMA FormGets ==
  ASSUME Inv, picking, Up, NEW c \in Credentials, SetFormCredential(c)
  PROVE  LET under == [panel[1] EXCEPT !.form.credential = c] IN
         /\ panel # <<>> /\ panel' = <<under>> /\ under \in Panel /\ under.dir = panel[1].dir
         /\ panel' # <<>> /\ panel'[1].at = "form"
<1> DEFINE under == [panel[1] EXCEPT !.form.credential = c]
<1>1. panel # <<>> /\ panel[1].at = "form" /\ panel[1] \in Panel
  BY DEF Inv, Layers, Up, TypeOK, ScreenOK, Single
<1>2. [panel[1].form EXCEPT !.credential = c] \in Form
  BY <1>1 DEF Panel, Form
<1>3. under \in Panel /\ under.dir = panel[1].dir /\ under.at = "form"
  BY <1>1, <1>2 DEF Panel
<1>4. panel' = <<under>>
  BY DEF SetFormCredential
<1> HIDE DEF under
<1>5. panel' # <<>> /\ panel'[1] = under
  BY <1>4
<1>6. /\ panel # <<>> /\ panel' = <<under>> /\ under \in Panel /\ under.dir = panel[1].dir
      /\ panel' # <<>> /\ panel'[1].at = "form"
  BY <1>1, <1>3, <1>4, <1>5
<1> QED BY <1>6 DEF under

LEMMA CredentialKeySafe == Inv /\ CredentialKey => Inv'
<1> SUFFICES ASSUME Inv, CredentialKey PROVE Inv'
  OBVIOUS
<1>t. SecretsOK /\ changes \in Nat
  BY DEF Inv, TypeOK, FilesOK
<1>c. At("credentials") => Up /\ creds # <<>> /\ creds[1] \in Picker /\ creds[1].items \in SUBSET Item
  BY <1>t, Turn DEF SecretsOK, Single, Picker
<1>l. At("credentials") /\ picking => panel # <<>> /\ panel[1].at = "form"
  BY Turn DEF Inv, Layers, Up
\* The picker shows something else and the rest stays.
<1>s. ASSUME At("credentials"), NEW at \in {"browse", "kind", "secret", "pubkey", "shown"},
             NEW id \in Credentials \cup {None}, Shows(at, id), UNCHANGED <<vault, picking, panel>>,
             at = "pubkey" => \E v \in vault : v.id = id,
             UNCHANGED <<running, files, store, tabbar, overlay, mapping, past>>, changes' \in Nat
      PROVE  Inv'
  <2>1. Single(creds', Picker) /\ creds' # <<>> /\ KeyStored'
    BY <1>s, ShowsIs
  <2>2. Layers'
    BY <1>s, <1>l, <2>1, CredentialLayers
  <2>3. SecretsOK'
    BY <1>s, <1>t, <2>1 DEF SecretsOK
  <2> QED BY <1>s, <1>c, <2>1, <2>2, <2>3, CredentialsKeep
\* Looking at an item of the list.
<1>w. ASSUME At("credentials"), NEW item \in creds[1].items, NEW read \in BOOLEAN,
             IF item.kind # "key" THEN Shows("shown", item.id)
             ELSE IF read /\ item \in vault THEN Shows("pubkey", item.id)
             ELSE Shows("browse", None),
             UNCHANGED <<vault, picking, panel>>,
             UNCHANGED <<running, changes, files, store, tabbar, overlay, mapping, past>>
      PROVE  Inv'
  <2>1. item.id \in Credentials
    BY <1>w, <1>c DEF Item
  <2>2. changes' \in Nat
    BY <1>w, <1>t
  <2>3. CASE item.kind # "key"
    BY <2>1, <2>2, <2>3, <1>w, <1>s
  <2>4. CASE item.kind = "key" /\ read /\ item \in vault
    BY <2>1, <2>2, <2>4, <1>w, <1>s
  <2>5. CASE item.kind = "key" /\ ~(read /\ item \in vault)
    BY <2>2, <2>5, <1>w, <1>s
  <2> QED BY <2>3, <2>4, <2>5
<1>1. CASE CredentialTyping
  <2>1. PICK step \in {<<"browse", "kind">>, <<"kind", "secret">>, <<"kind", "browse">>,
                       <<"secret", "browse">>, <<"pubkey", "browse">>, <<"shown", "browse">>} :
          CredsIn(step[1]) /\ Shows(step[2], None)
    BY <1>1 DEF CredentialTyping
  <2>2. step[2] \in {"browse", "kind", "secret"}
    BY <2>1
  <2>3. /\ At("credentials") /\ UNCHANGED <<vault, picking, panel>>
        /\ UNCHANGED <<running, changes, files, store, tabbar, overlay, mapping, past>>
    BY <1>1, <2>1 DEF CredentialTyping, OnlyCreds, CredsIn
  <2> QED BY <2>1, <2>2, <2>3, <1>s, <1>t
<1>2. CASE CloseCredentials
  <2>1. /\ At("credentials") /\ creds' = <<>> /\ picking' = FALSE /\ UNCHANGED <<vault, panel>>
        /\ UNCHANGED <<running, changes, files, store, tabbar, overlay, mapping, past>>
    BY <1>2 DEF CloseCredentials, CredsIn, OnlyCreds
  <2>2. SecretsOK' /\ KeyStored'
    BY <2>1, <1>t DEF SecretsOK, Single, KeyStored
  <2>3. Layers'
    BY <2>1, CredentialLayers
  <2> QED BY <2>1, <2>2, <2>3, <1>c, <1>t, CredentialsKeep
<1>3. CASE \E stored, listed \in BOOLEAN, c \in Credentials, kind \in {"password", "key"} :
             StoreCredential(c, kind, stored, listed)
  <2>1. PICK stored \in BOOLEAN, listed \in BOOLEAN, c \in Credentials, kind \in {"password", "key"} :
          StoreCredential(c, kind, stored, listed)
    BY <1>3
  <2> DEFINE after == [items |-> Listed(listed, creds[1].items),
                       at    |-> IF ~listed THEN "browse" ELSE IF kind = "key" THEN "pubkey" ELSE "browse",
                       id    |-> IF listed /\ kind = "key" THEN c ELSE None]
             shown == [after EXCEPT !.at = "shown", !.id = c]
             under == [panel[1] EXCEPT !.form.credential = c]
  <2>2. /\ At("credentials")
        /\ UNCHANGED <<running, files, store, tabbar, overlay, mapping, past>>
        /\ changes' \in Nat
        /\ IF ~stored
           THEN Shows("browse", None) /\ UNCHANGED <<panel, picking, vault>>
           ELSE /\ vault' = Stored(c, kind)
                /\ IF picking THEN SetFormCredential(c) ELSE UNCHANGED panel
                /\ picking' = (picking /\ kind = "key")
                /\ creds' = IF picking /\ kind # "key" THEN <<>>
                            ELSE IF kind = "key" THEN <<after>> ELSE <<shown>>
    BY <2>1, <1>t DEF StoreCredential, CredsIn, Change
  <2>3. CASE ~stored
    BY <2>2, <2>3, <1>s
  <2>4. CASE stored
    <3>1. vault' \in SUBSET Item /\ \E v \in vault' : v.id = c
      <4>1. [id |-> c, kind |-> kind] \in Item /\ [id |-> c, kind |-> kind].id = c
        BY DEF Item
      <4> QED BY <4>1, <2>2, <2>4, <1>t DEF Stored, SecretsOK
    <3>2. /\ after \in Picker /\ shown \in Picker /\ shown.at = "shown"
          /\ after.at = "pubkey" => after.id = c
      BY <3>1, <2>2, <1>c DEF Picker, Listed
    <3>3. \/ panel' = panel /\ ~picking
          \/ /\ picking /\ panel # <<>> /\ panel' = <<under>> /\ under \in Panel
             /\ under.dir = panel[1].dir /\ panel' # <<>> /\ panel'[1].at = "form"
      <4>1. CASE picking
        BY <4>1, <2>2, <2>4, <1>c, FormGets
      <4>2. CASE ~picking
        BY <4>2, <2>2, <2>4
      <4> QED BY <4>1, <4>2
    <3> HIDE DEF after, shown, under
    <3>4. \/ creds' = <<>> /\ ~picking'
          \/ creds' = <<after>>
          \/ creds' = <<shown>>
      BY <2>2, <2>4
    <3>5. /\ Single(creds', Picker) /\ KeyStored'
          /\ picking' => creds' # <<>>
      <4>1. CASE creds' = <<>> /\ ~picking'
        BY <4>1 DEF Single, KeyStored
      <4>2. CASE creds' = <<after>>
        <5>1. Single(creds', Picker) /\ creds' # <<>> /\ creds'[1] = after
          BY <4>2, <3>2, OneIs
        <5> QED BY <5>1, <3>1, <3>2 DEF KeyStored
      <4>3. CASE creds' = <<shown>>
        <5>1. Single(creds', Picker) /\ creds' # <<>> /\ creds'[1] = shown
          BY <4>3, <3>2, OneIs
        <5> QED BY <5>1, <3>2 DEF KeyStored
      <4> QED BY <3>4, <4>1, <4>2, <4>3
    <3>6. SecretsOK'
      <4>1. picking' \in BOOLEAN
        BY <2>2, <2>4
      <4> QED BY <4>1, <3>1, <3>5 DEF SecretsOK
    <3>7. /\ picking' => creds' # <<>> /\ panel' # <<>> /\ panel'[1].at = "form"
          /\ panel' = <<>> <=> panel = <<>>
      BY <2>2, <2>4, <3>3, <3>5
    <3>8. Layers'
      BY <2>2, <3>7, CredentialLayers
    <3> QED BY <2>2, <3>3, <3>5, <3>6, <3>8, <1>c, CredentialsKeep
  <2> QED BY <2>3, <2>4
<1>4. CASE creds # <<>> /\ \E deleted, listed \in BOOLEAN, item \in creds[1].items :
             DeleteCredential(item, deleted, listed)
  <2>1. PICK deleted \in BOOLEAN, listed \in BOOLEAN, item \in creds[1].items :
          DeleteCredential(item, deleted, listed)
    BY <1>4
  <2> DEFINE c == [creds[1] EXCEPT !.items = Listed(listed, @)]
  <2>2. /\ At("credentials") /\ creds[1].at = "browse" /\ UNCHANGED <<picking, panel>>
        /\ UNCHANGED <<running, files, store, tabbar, overlay, mapping, past>>
        /\ changes' \in Nat
        /\ IF ~deleted
           THEN Shows("browse", None) /\ UNCHANGED vault
           ELSE vault' = Deleted(item.id) /\ creds' = <<c>>
    BY <2>1, <1>t DEF DeleteCredential, CredsIn, Change
  <2>3. CASE ~deleted
    BY <2>2, <2>3, <1>s
  <2>4. CASE deleted
    <3>1. vault' \in SUBSET Item
      BY <2>2, <2>4, <1>t DEF Deleted, SecretsOK
    <3>2. c \in Picker /\ c.at = "browse"
      BY <3>1, <2>2, <1>c DEF Picker, Listed
    <3> HIDE DEF c
    <3>3. Single(creds', Picker) /\ creds' # <<>> /\ creds'[1] = c
      BY <2>2, <2>4, <3>2, OneIs
    <3>4. SecretsOK' /\ KeyStored'
      BY <2>2, <3>1, <3>2, <3>3, <1>t DEF SecretsOK, KeyStored
    <3>5. Layers'
      BY <2>2, <3>3, <1>l, CredentialLayers
    <3> QED BY <2>2, <3>4, <3>5, <1>c, CredentialsKeep
  <2> QED BY <2>3, <2>4
<1>5. CASE creds # <<>> /\ \E item \in creds[1].items, read \in BOOLEAN : EnterCredential(item, read)
  <2>1. PICK item \in creds[1].items, read \in BOOLEAN : EnterCredential(item, read)
    BY <1>5
  <2>2. /\ At("credentials") /\ UNCHANGED vault
        /\ UNCHANGED <<running, changes, files, store, tabbar, overlay, mapping, past>>
    BY <2>1 DEF EnterCredential, CredsIn
  <2>3. CASE picking
    <3> DEFINE under == [panel[1] EXCEPT !.form.credential = item.id]
    <3>1. SetFormCredential(item.id) /\ creds' = <<>> /\ picking' = FALSE
      BY <2>1, <2>3 DEF EnterCredential
    <3>2. item.id \in Credentials
      BY <2>2, <1>c DEF Item
    <3>3. /\ panel # <<>> /\ panel' = <<under>> /\ under \in Panel
          /\ under.dir = panel[1].dir /\ panel' # <<>>
      BY <3>1, <3>2, <2>2, <2>3, <1>c, FormGets
    <3> HIDE DEF under
    <3>4. SecretsOK' /\ KeyStored'
      BY <3>1, <2>2, <1>t DEF SecretsOK, Single, KeyStored
    <3>5. Layers'
      BY <2>2, <3>1, <3>3, CredentialLayers
    <3> QED BY <2>2, <3>3, <3>4, <3>5, <1>c, <1>t, CredentialsKeep
  <2>4. CASE ~picking
    BY <2>1, <2>2, <2>4, <1>w DEF EnterCredential
  <2> QED BY <2>3, <2>4
<1>6. CASE creds # <<>> /\ \E item \in creds[1].items, read \in BOOLEAN : ViewCredential(item, read)
  <2>1. PICK item \in creds[1].items, read \in BOOLEAN : ViewCredential(item, read)
    BY <1>6
  <2>2. /\ At("credentials") /\ UNCHANGED <<vault, picking, panel>>
        /\ UNCHANGED <<running, changes, files, store, tabbar, overlay, mapping, past>>
    BY <2>1 DEF ViewCredential, CredsIn, OnlyCreds
  <2> QED BY <2>1, <2>2, <1>w DEF ViewCredential
<1> QED BY <1>1, <1>2, <1>3, <1>4, <1>5, <1>6 DEF CredentialKey

-----------------------------------------------------------------------------
(***************************************************************************)
(* The key mapping panel closes: its profile is saved, becomes the one of  *)
(* the program and of every tab that has none of its own.                  *)
(***************************************************************************)

LEMMA CloseKeyMappingSafe == Inv /\ (\E ok \in BOOLEAN : CloseKeyMapping(ok)) => Inv'
<1> SUFFICES ASSUME Inv, NEW ok \in BOOLEAN, CloseKeyMapping(ok) PROVE Inv'
  OBVIOUS
<1>t. /\ ScreenOK /\ MappingOK /\ Booked /\ tabs \in Seq(Tab)
      /\ DOMAIN tabs = 1..Len(tabs) /\ Len(tabs) \in Nat
  BY LenProperties DEF Inv, TypeOK, ScreenOK
<1>s. PICK updated : updated = keymap[1]
  OBVIOUS
<1> DEFINE moved(i) == IF tabs[i].entry.keys = None THEN [tabs[i] EXCEPT !.profile = updated] ELSE tabs[i]
<1>u. /\ Up /\ keymap # <<>> /\ keymap' = <<>> /\ changes' \in Nat
      /\ UNCHANGED <<running, files, panel, store, active, scripts, prompt, secrets, past>>
      /\ profiles' = IF ok THEN [profiles EXCEPT ![updated.name] = <<updated>>] ELSE profiles
      /\ tabs' = [i \in DOMAIN tabs |-> moved(i)]
      /\ global' = updated /\ strayed' = (~ok \/ updated.name # "Default")
  BY <1>s, Turn DEF CloseKeyMapping, Change, Inv, TypeOK, FilesOK
<1>v. UNCHANGED <<creds, picking, history, tasks, temp, unsaved, disk>>
  BY <1>u DEF secrets, past, files
<1>p. updated \in Profile /\ updated.name \in Profiles
  BY <1>s, <1>t, <1>u DEF ScreenOK, Single, Profile
<1>m. ASSUME NEW i \in DOMAIN tabs
      PROVE  /\ moved(i) \in Tab /\ moved(i).entry = tabs[i].entry /\ moved(i).status = tabs[i].status
             /\ moved(i).session = tabs[i].session /\ moved(i).recorded = tabs[i].recorded
             /\ moved(i).viewer = tabs[i].viewer
             /\ tabs[i].entry.keys = None => moved(i).profile = updated
  <2>1. tabs[i] \in Tab
    BY <1>t, ElementOfSeq
  <2> QED BY <2>1, <1>p DEF Tab
<1> HIDE DEF moved
<1>d. /\ tabs' \in Seq(Tab) /\ DOMAIN tabs' = DOMAIN tabs
      /\ \A i \in DOMAIN tabs : tabs'[i] = moved(i)
  <2>1. tabs' \in [1..Len(tabs) -> Tab]
    BY <1>u, <1>m, <1>t
  <2> QED BY <2>1, <1>u, <1>t, SeqDef
<1>1. FilesOK'
  BY <1>u, <1>v DEF Inv, TypeOK, FilesOK, Single
<1>2. ScreenOK'
  BY <1>u, <1>d DEF Inv, TypeOK, ScreenOK, Single
<1>3. SecretsOK' /\ KeyStored' /\ PastOK'
  BY <1>u, SteadySecrets, SteadyTypes DEF Inv, TypeOK
<1>4. MappingOK'
  <2>1. <<updated>> \in Seq(Profile)
    BY <1>p
  <2>2. profiles' \in [Profiles -> Seq(Profile)]
    BY <2>1, <1>u, <1>p, <1>t DEF MappingOK
  <2>3. strayed' \in BOOLEAN
    BY <1>u
  <2> QED BY <2>2, <2>3, <1>u, <1>p DEF MappingOK
<1>5. Closed'
  BY <1>u DEF Closed, Up
<1>6. Layers'
  <2>1. (tabs' = <<>> <=> tabs = <<>>) /\ (Viewing' <=> Viewing)
    <3>1. tabs' = <<>> <=> tabs = <<>>
      BY <1>d, <1>t
    <3>2. tabs # <<>> => active \in DOMAIN tabs
      BY <1>u DEF Inv, Layers, Up
    <3> QED BY <3>1, <3>2, <1>d, <1>m, <1>u DEF Viewing
  <2> QED BY <2>1, <1>u, <1>v, <1>d DEF Inv, Layers
<1>7. Saved'
  BY <1>u, <1>v DEF Inv, Saved, Up, Directory
<1>8. Booked'
  <2>1. \A i \in DOMAIN tabs : /\ tabs'[i].session = tabs[i].session
                               /\ tabs'[i].status = tabs[i].status
                               /\ tabs'[i].recorded = tabs[i].recorded
    BY <1>d, <1>m
  <2> QED BY <2>1, <1>d, <1>u, <1>v, <1>t DEF Booked
<1>9. DefaultFollows'
  <2>1. ASSUME ~strayed'
        PROVE  LoadOrDefault("Default")' = global'
    <3>1. ok /\ updated.name = "Default"
      BY <2>1, <1>u
    <3>2. profiles'["Default"] = <<updated>>
      BY <3>1, <1>u, <1>p, <1>t DEF MappingOK
    <3>3. Head(<<updated>>) = updated /\ <<updated>> # <<>>
      OBVIOUS
    <3> QED BY <3>2, <3>3, <1>u DEF LoadOrDefault
  <2>2. \A i \in DOMAIN tabs' : tabs'[i].entry.keys = None => tabs'[i].profile = global'
    BY <1>d, <1>m, <1>u
  <2> QED BY <2>1, <2>2 DEF DefaultFollows
<1> QED BY <1>1, <1>2, <1>3, <1>4, <1>5, <1>6, <1>7, <1>8, <1>9 DEF Inv, TypeOK

-----------------------------------------------------------------------------
(***************************************************************************)
(* The steps of a save.                                                    *)
(***************************************************************************)

LEMMA SaveSafe == Inv /\ (WriteTempFile \/ Rename \/ WriteFails) => Inv'
<1> SUFFICES ASSUME Inv, WriteTempFile \/ Rename \/ WriteFails PROVE Inv'
  OBVIOUS
<1> DEFINE t == [temp[1] EXCEPT !.whole = TRUE]
<1>u. /\ UNCHANGED <<running, changes, panel, store, tabbar, overlay, secrets, mapping, past>>
      /\ running = "up" /\ temp # <<>>
  BY DEF WriteTempFile, Rename, WriteFails
<1>v. UNCHANGED <<tabs, active, keymap, scripts, prompt, creds, picking, vault, history, tasks>>
  BY <1>u DEF tabbar, overlay, secrets, past
<1>t. /\ temp[1] \in [content : SUBSET Entry, whole : BOOLEAN] /\ temp[1].content = Directory
      /\ disk \in SUBSET Entry /\ unsaved \in BOOLEAN /\ Directory' = Directory
  BY <1>u DEF Inv, TypeOK, FilesOK, Single, Saved, Directory
<1>1. FilesOK' /\ Saved'
  <2>1. CASE WriteTempFile
    <3>1. t \in [content : SUBSET Entry, whole : BOOLEAN] /\ t.content = temp[1].content
      BY <1>t
    <3>2. temp' = <<t>> /\ UNCHANGED <<disk, unsaved>>
      BY <2>1 DEF WriteTempFile
    <3> HIDE DEF t
    <3>3. /\ Single(temp', [content : SUBSET Entry, whole : BOOLEAN]) /\ temp' # <<>>
          /\ temp'[1] = t
      BY <3>1, <3>2, OneIs
    <3> QED BY <1>u, <1>t, <3>1, <3>2, <3>3 DEF FilesOK, Saved, Up, Inv, TypeOK
  <2>2. CASE Rename
    <3>1. disk' = Directory /\ temp' = <<>> /\ unsaved' = FALSE
      BY <2>2, <1>t DEF Rename
    <3>2. disk' \in SUBSET Entry
      BY <2>2, <1>t DEF Rename
    <3> QED BY <1>u, <1>t, <3>1, <3>2 DEF FilesOK, Saved, Up, Inv, TypeOK, Single
  <2>3. CASE WriteFails
    <3>1. disk' = disk /\ temp' = <<>> /\ unsaved' = TRUE
      BY <2>3 DEF WriteFails
    <3> QED BY <1>u, <1>t, <3>1 DEF FilesOK, Saved, Up, Inv, TypeOK, Single
  <2> QED BY <2>1, <2>2, <2>3
<1>2. ScreenOK' /\ Layers'
  BY <1>u, <1>v, SteadyScreen DEF Inv, TypeOK
<1>3. SecretsOK' /\ KeyStored' /\ MappingOK' /\ PastOK'
  BY <1>u, SteadySecrets, SteadyTypes DEF Inv, TypeOK
<1>4. Closed'
  BY <1>u DEF Closed
<1>5. Booked' /\ DefaultFollows'
  BY <1>u, <1>v, SteadyBooks, SteadyMapping DEF Inv
<1> QED BY <1>1, <1>2, <1>3, <1>4, <1>5 DEF Inv, TypeOK

-----------------------------------------------------------------------------
(***************************************************************************)
(* Start, exit and crash.                                                  *)
(***************************************************************************)

LEMMA StartSafe == Inv /\ (\E later, ok \in BOOLEAN : Start(later, ok)) => Inv'
<1> SUFFICES ASSUME Inv, NEW later \in BOOLEAN, NEW ok \in BOOLEAN, Start(later, ok) PROVE Inv'
  OBVIOUS
<1>s. PICK filled : filled = Backfilled(disk)
  OBVIOUS
<1>u. /\ running = "down" /\ running' = "up" /\ changes' \in Nat
      /\ imported' = Imported(disk)
      /\ temp' = IF later THEN <<[content |-> filled, whole |-> FALSE]>> ELSE <<>>
      /\ panel' = Fresh(filled)
      /\ global' = LoadOrDefault("Default")
      /\ profiles' = IF ok THEN [profiles EXCEPT !["Default"] = <<global'>>] ELSE profiles
      /\ first' = Len(history) /\ strayed' = FALSE /\ unsaved' = FALSE
      /\ UNCHANGED <<disk, store, tabbar, overlay, secrets, history, tasks>>
  BY <1>s DEF Start, Change, Inv, TypeOK, FilesOK
<1>d. ~later => filled = disk
  <2>1. later \in (IF filled # disk THEN {TRUE} ELSE IF Missed(disk) # {} THEN BOOLEAN ELSE {FALSE})
    BY <1>s DEF Start
  <2> QED BY <2>1
<1>v. UNCHANGED <<tabs, active, keymap, scripts, prompt, creds, picking, vault>>
  BY <1>u DEF tabbar, overlay, secrets
<1>c. /\ store = <<>> /\ tabs = <<>> /\ keymap = <<>> /\ ~scripts /\ ~prompt
      /\ creds = <<>> /\ ~picking /\ tasks = {}
  BY <1>u DEF Inv, Closed
<1>f. filled \in SUBSET Entry
  <2>1. \A e \in Entry : [e EXCEPT !.connected = TRUE] \in Entry
    BY DEF Entry
  <2>2. disk \in SUBSET Entry
    BY DEF Inv, TypeOK, FilesOK
  <2> QED BY <1>s, <2>1, <2>2 DEF Backfilled
<1> DEFINE p == [dir |-> filled, at |-> "browse", id |-> None, form |-> NewForm]
<1>p. Single(panel', Panel) /\ panel' # <<>> /\ panel'[1].dir = filled
  <2>1. p \in Panel /\ p.dir = filled
    BY <1>f DEF Panel, NewForm, Form
  <2>2. panel' = <<p>>
    BY <1>u DEF Fresh
  <2> HIDE DEF p
  <2> QED BY <2>1, <2>2, OneIs
<1>q. /\ Single(temp', [content : SUBSET Entry, whole : BOOLEAN])
      /\ temp' # <<>> => temp'[1].content = filled
      /\ temp' = <<>> => filled = disk
  <2>1. [content |-> filled, whole |-> FALSE] \in [content : SUBSET Entry, whole : BOOLEAN]
    BY <1>f
  <2>2. CASE later
    BY <2>1, <2>2, <1>u, OneIs
  <2>3. CASE ~later
    BY <2>3, <1>d, <1>u DEF Single
  <2> QED BY <2>2, <2>3
<1>g. global' \in Profile /\ profiles' \in [Profiles -> Seq(Profile)] /\ LoadOrDefault("Default")' = global'
  <2>1. "Default" \in Profiles /\ profiles \in [Profiles -> Seq(Profile)]
    BY DEF Profiles, Inv, TypeOK, MappingOK
  <2>2. profiles["Default"] # <<>> => Head(profiles["Default"]) \in Profile
    BY <2>1, HeadTailProperties
  <2>3. DefaultProfile \in Profile
    BY DEF DefaultProfile, Profile, Profiles
  <2>4. global' \in Profile
    BY <2>2, <2>3, <1>u DEF LoadOrDefault
  <2>5. <<global'>> \in Seq(Profile) /\ Head(<<global'>>) = global' /\ <<global'>> # <<>>
    BY <2>4
  <2>6. CASE ok
    <3>1. profiles' = [profiles EXCEPT !["Default"] = <<global'>>]
      BY <2>6, <1>u
    <3>2. profiles'["Default"] = <<global'>> /\ profiles' \in [Profiles -> Seq(Profile)]
      BY <3>1, <2>1, <2>5
    <3> QED BY <3>2, <2>4, <2>5 DEF LoadOrDefault
  <2>7. CASE ~ok
    BY <2>7, <2>1, <2>4, <1>u DEF LoadOrDefault
  <2> QED BY <2>6, <2>7
<1>1. FilesOK'
  BY <1>u, <1>q DEF Inv, TypeOK, FilesOK
<1>2. ScreenOK'
  BY <1>u, <1>v, <1>p DEF Inv, TypeOK, ScreenOK, Single
<1>3. SecretsOK' /\ KeyStored'
  BY <1>u, SteadySecrets DEF Inv, TypeOK
<1>4. MappingOK'
  BY <1>g, <1>u DEF MappingOK
<1>5. PastOK'
  <2>1. Imported(disk) \in [Ids -> {0, 1}]
    <3>1. ASSUME NEW id \in Ids
          PROVE  (IF (\E e \in disk : e.id = id /\ e.connected) /\ ~Known(id)
                  THEN imported[id] + 1 ELSE imported[id]) \in {0, 1}
      <4>1. imported[id] \in {0, 1}
        BY DEF Inv, TypeOK, PastOK
      <4>2. ~Known(id) => imported[id] = 0
        BY <4>1 DEF Known
      <4> QED BY <4>1, <4>2
    <3> QED BY <3>1 DEF Imported
  <2>2. Len(history) \in Nat
    BY LenProperties DEF Inv, TypeOK, PastOK
  <2> QED BY <2>1, <2>2, <1>u DEF Inv, TypeOK, PastOK
<1>6. Closed' /\ Layers'
  BY <1>u, <1>v, <1>c, <1>p DEF Closed, Layers, Viewing
<1>7. Saved'
  BY <1>u, <1>p, <1>q DEF Saved, Up, Directory
<1>8. Booked'
  <2>1. DOMAIN tabs' = {}
    BY <1>c, <1>v
  <2> QED BY <2>1, <1>c, <1>u DEF Inv, Booked
<1>9. DefaultFollows'
  <2>1. DOMAIN tabs' = {}
    BY <1>c, <1>v
  <2> QED BY <2>1, <1>g DEF DefaultFollows
<1> QED BY <1>1, <1>2, <1>3, <1>4, <1>5, <1>6, <1>7, <1>8, <1>9 DEF Inv, TypeOK

LEMMA GoneSafe == Inv /\ Gone => Inv'
<1> SUFFICES ASSUME Inv, Gone PROVE Inv'
  OBVIOUS
<1>u. /\ running' = "down"
      /\ temp' = <<>> /\ panel' = <<>> /\ store' = <<>> /\ tabs' = <<>> /\ active' = 1
      /\ keymap' = <<>> /\ scripts' = FALSE /\ prompt' = FALSE
      /\ creds' = <<>> /\ picking' = FALSE /\ tasks' = {}
      /\ UNCHANGED <<changes, disk, unsaved, vault, mapping, history, imported, first>>
  BY DEF Gone
<1>1. FilesOK' /\ SecretsOK' /\ KeyStored' /\ MappingOK' /\ PastOK'
  BY <1>u, SteadyTypes DEF Inv, TypeOK, FilesOK, SecretsOK, KeyStored, PastOK, Single
<1>2. ScreenOK'
  <2>1. tabs' \in Seq(Tab)
    BY <1>u
  <2>2. Single(panel', Panel) /\ Single(store', SUBSET Entry) /\ Single(keymap', Profile)
    BY <1>u DEF Single
  <2>3. active' \in Nat \ {0}
    BY <1>u
  <2>4. scripts' \in BOOLEAN /\ prompt' \in BOOLEAN
    BY <1>u
  <2> QED BY <2>1, <2>2, <2>3, <2>4 DEF ScreenOK
<1>3. Closed' /\ Layers' /\ Saved' /\ DefaultFollows'
  BY <1>u DEF Closed, Layers, Saved, Up, DefaultFollows
<1>4. Booked'
  <2>1. DOMAIN tabs' = {}
    BY <1>u
  <2> QED BY <2>1, <1>u DEF Inv, Booked
<1> QED BY <1>1, <1>2, <1>3, <1>4 DEF Inv, TypeOK

LEMMA InitSafe == Init => Inv
<1> SUFFICES ASSUME Init PROVE Inv
  OBVIOUS
<1>u. /\ running = "down" /\ changes = 0
      /\ disk \in SUBSET Entry /\ temp = <<>> /\ unsaved = FALSE
      /\ panel = <<>> /\ store = <<>> /\ tabs = <<>> /\ active = 1
      /\ keymap = <<>> /\ scripts = FALSE /\ prompt = FALSE
      /\ creds = <<>> /\ picking = FALSE /\ vault = {}
      /\ global = DefaultProfile /\ strayed = FALSE
      /\ history = <<>> /\ imported = [id \in Ids |-> 0] /\ first = 0 /\ tasks = {}
  BY DeskAssumption DEF Init
<1>p. profiles \in [Profiles -> Seq(Profile)]
  <2>1. ASSUME NEW n \in Profiles PROVE MaybeStored(n) \subseteq Seq(Profile)
    <3>1. [DefaultProfile EXCEPT !.name = n] \in Profile
      BY DEF DefaultProfile, Profile, Profiles
    <3>2. <<[DefaultProfile EXCEPT !.name = n]>> \in Seq(Profile)
      BY <3>1
    <3> QED BY <3>2 DEF MaybeStored
  <2>2. /\ profiles \in [Profiles -> UNION {MaybeStored(n) : n \in Profiles}]
        /\ \A n \in Profiles : profiles[n] \in MaybeStored(n)
    BY DEF Init
  <2> QED BY <2>1, <2>2
<1>1. TypeOK
  <2>1. DefaultProfile \in Profile
    BY DEF DefaultProfile, Profile, Profiles
  <2>2. FilesOK
    BY <1>u DEF FilesOK, Single
  <2>3. ScreenOK
    <3>1. tabs \in Seq(Tab)
      BY <1>u
    <3>2. Single(panel, Panel) /\ Single(store, SUBSET Entry) /\ Single(keymap, Profile)
      BY <1>u DEF Single
    <3>3. active \in Nat \ {0}
      BY <1>u
    <3>4. scripts \in BOOLEAN /\ prompt \in BOOLEAN
      BY <1>u
    <3> QED BY <3>1, <3>2, <3>3, <3>4 DEF ScreenOK
  <2>4. SecretsOK
    BY <1>u DEF SecretsOK, Single
  <2>5. MappingOK
    BY <1>u, <1>p, <2>1 DEF MappingOK
  <2>6. PastOK
    <3>1. history \in Seq(Record)
      BY <1>u
    <3> QED BY <1>u, <3>1 DEF PastOK
  <2> QED BY <2>2, <2>3, <2>4, <2>5, <2>6 DEF TypeOK
<1>2. Closed /\ Layers /\ Saved /\ DefaultFollows /\ KeyStored
  BY <1>u DEF Closed, Layers, Saved, Up, DefaultFollows, KeyStored
<1>3. Booked
  <2>1. DOMAIN tabs = {} /\ DOMAIN history = {}
    BY <1>u
  <2> QED BY <2>1, <1>u DEF Booked
<1> QED BY <1>1, <1>2, <1>3 DEF Inv

LEMMA StaySafe == Inv /\ UNCHANGED vars => Inv'
<1> SUFFICES ASSUME Inv, UNCHANGED vars PROVE Inv'
  OBVIOUS
<1>u. /\ UNCHANGED <<running, changes, files, panel, store, tabbar, overlay, secrets, mapping, past>>
      /\ UNCHANGED <<tabs, active, keymap, scripts, prompt, creds, picking, history, tasks>>
  BY DEF vars, tabbar, overlay, secrets, past
<1>1. FilesOK' /\ Saved' /\ ScreenOK' /\ Layers'
  BY <1>u, SteadyFiles, SteadyScreen DEF Inv, TypeOK
<1>2. SecretsOK' /\ KeyStored' /\ MappingOK' /\ PastOK'
  BY <1>u, SteadySecrets, SteadyTypes DEF Inv, TypeOK
<1>3. Closed'
  BY <1>u DEF Inv, Closed, files
<1>4. Booked' /\ DefaultFollows'
  BY <1>u, SteadyBooks, SteadyMapping DEF Inv
<1> QED BY <1>1, <1>2, <1>3, <1>4 DEF Inv, TypeOK

-----------------------------------------------------------------------------
(***************************************************************************)
(* The theorems.                                                           *)
(***************************************************************************)

\* Every step of the program keeps the invariant.
LEMMA StepSafe == Inv /\ [Next]_vars => Inv'
<1> SUFFICES ASSUME Inv, [Next]_vars PROVE Inv'
  OBVIOUS
<1>1. CASE Key
  <2>1. CASE SessionKey
    BY <2>1, OpenDirectorySafe, CloseTabSafe, TabKeySafe, OverlayKeySafe, QuitSafe, OpenCredentialsSafe
    DEF SessionKey
  <2> QED BY <1>1, <2>1, DirectoryKeySafe, PanelQuitsSafe, CredentialKeySafe, OverlayKeySafe,
             ConnectsSafe, ConnectFailsSafe, CloseKeyMappingSafe
          DEF Key
<1>2. CASE Exits \/ Crash
  BY <1>2, GoneSafe DEF Exits, Crash
<1> QED BY <1>1, <1>2, TaskSafe, LinkEndsSafe, SaveSafe, RecordOnExitSafe, StartSafe, StaySafe
        DEF Next

\* The state is well formed, no two layers of the screen contend for the
\* keys, a save in progress is of the directory held, and no session is
\* recorded by two of those that may record it (run_multi_session).
THEOREM Desks == Spec => []Inv
BY InitSafe, StepSafe, PTL DEF Spec

\* The keys go to the panel that is drawn last, there always is one, and a
\* picker stands over its form (run_multi_session, execute_app_command).
THEOREM KeysGoToTheTop == Spec => []OneOnTop
<1>1. Inv => OneOnTop
  BY DEF Inv, Layers, OneOnTop, TakesKeys, OnTop
<1> QED BY <1>1, Desks, PTL

\* The directory on disk is whole over failing saves and crashes between any
\* two steps, and it is the one on the screen unless the user was told
\* otherwise (Directory::save, atomic_write).
THEOREM SavesAreDurable == Spec => []DirectoryDurable
<1>1. Inv => DirectoryDurable
  BY NotTorn DEF Inv, TypeOK, FilesOK, Saved, DirectoryDurable
<1> QED BY <1>1, Desks, PTL

\* However the end of a link, the closing of its tab, the exit, the spawned
\* tasks and crashes interleave, a session gets one end and one outcome in
\* the history, and not while it lives (record_session_end,
\* record_open_sessions_on_exit).
THEOREM RecordsOnce == Spec => []RecordedOnce
<1>1. Inv => RecordedOnce
  <2> SUFFICES ASSUME Inv PROVE RecordedOnce
    OBVIOUS
  <2>1. ASSUME NEW n \in DOMAIN history, history[n].ended = 1 PROVE ~Live(n)
    BY <2>1 DEF Inv, Booked, Live
  <2>2. \A id \in Ids : imported[id] <= 1
    BY DEF Inv, TypeOK, PastOK
  <2> QED BY <2>1, <2>2 DEF Inv, Booked, RecordedOnce
<1> QED BY <1>1, Desks, PTL

\* Tabs without a profile of their own have the bindings of the program
\* (KeymappingPanelAction::Close, load_or_default).
THEOREM TabsFollow == Spec => []DefaultFollows
<1>1. Inv => DefaultFollows
  BY DEF Inv
<1> QED BY <1>1, Desks, PTL

\* A public key is shown only if its private key is in the store
\* (CredentialPanelAction::Store, ViewPublicKey).
THEOREM KeysAreStored == Spec => []KeyStored
<1>1. Inv => KeyStored
  BY DEF Inv
<1> QED BY <1>1, Desks, PTL
=============================================================================
