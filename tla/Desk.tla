-------------------------------- MODULE Desk --------------------------------
(* The user's side of the program, run_multi_session (app.rs): tabs, the    *)
(* directory panel and the overlays that take the keys in turn, and what    *)
(* they keep on disk: the directory, key profiles, credentials and the      *)
(* history of sessions. One thread handles one key at a time; links of tabs *)
(* end, spawned history tasks run and crashes happen between its steps.     *)
(*                                                                          *)
(* A selection in a list is the choice of any of its items; what is typed   *)
(* into a form is the choice of any value of a field.                       *)
EXTENDS Integers, Sequences, FiniteSets, SequencesExt

CONSTANTS Ids,          \* of directory entries
          Credentials,  \* identifiers of credentials
          Named,        \* key profiles other than "Default"
          Groups,
          Editable,     \* commands whose bindings the user edits
          Directories,  \* what directory.toml may hold at first
          MaxChanges    \* bound: starts, connections, changes and SQL errors

VARIABLES
    running,     \* "up", "exiting" or "down"
    changes,     \* how many of what MaxChanges bounds there were
    disk,        \* directory.toml
    temp,        \* the temporary file of a save of it in progress
    unsaved,     \* the user was told that the last save failed
    panel,       \* dir_panel
    store,       \* directory_store
    tabs, active,
    keymap,      \* keymapping_panel
    scripts,     \* script_panel is open
    prompt,      \* file_prompt
    creds,       \* credential_panel
    picking,     \* credential_selects_directory_form
    vault,       \* credentials.db
    profiles,    \* key profile files; empty when missing or unreadable
    global,      \* global_key_profile
    strayed,     \* history: the last profile closed was a named one or not saved
    history,     \* history.db: what it tells of each connection
    imported,    \* history.db: rows imported for an entry
    first,       \* history: connections made before this run
    tasks        \* spawned tasks that write to history.db

files   == <<disk, temp, unsaved>>
tabbar  == <<tabs, active>>
overlay == <<keymap, scripts, prompt>>
secrets == <<creds, picking, vault>>
mapping == <<profiles, global, strayed>>
past    == <<history, imported, first, tasks>>
vars == <<running, changes, files, panel, store, tabbar, overlay, secrets, mapping, past>>

----------------------------------------------------------------------------
(* Directory entries and the form that edits them; valid: build_entry takes *)
(* its fields, of which only the credential has an effect here.             *)

None == "none"

NewForm == [editing |-> None, credential |-> None, valid |-> FALSE]
FromEntry(e) == [editing |-> e.id, credential |-> e.credential, valid |-> TRUE]

Get(dir, id) == CHOOSE e \in dir : e.id = id
Has(dir, id) == \E e \in dir : e.id = id
Replaced(dir, e) == {x \in dir : x.id # e.id} \cup {e}

Blank(id) == [id |-> id, credential |-> None, group |-> None, keys |-> None, connected |-> FALSE]
BuildEntry(form, existing) == [existing EXCEPT !.credential = form.credential]
MarkConnected(dir, id) == Replaced(dir, [Get(dir, id) EXCEPT !.connected = TRUE])

(* Key profiles: the commands bound to some key.                            *)
Commands == {"Quit", "OpenDirectory", "OpenScripts", "OpenKeyMapping", "NewTab", "CloseTab",
             "SwitchTab", "ToggleLog", "OpenCredentials"}
DefaultProfile == [name |-> "Default", bound |-> Commands]
Profiles == Named \cup {"Default"}
MaybeStored(name) == {<<>>, <<[DefaultProfile EXCEPT !.name = name]>>}

(* An entry of the directory, as build_entry and Directory::load make them. *)
Entry == [id : Ids, credential : Credentials \cup {None}, group : Groups \cup {None},
          keys : Profiles \cup {None}, connected : BOOLEAN]

ASSUME DeskAssumption ==
    /\ Directories \subseteq SUBSET Entry
    /\ None \notin Ids
    /\ Editable \subseteq Commands
    /\ MaxChanges \in Nat

LoadOrDefault(name) ==
    IF profiles[name] = <<>> THEN DefaultProfile ELSE Head(profiles[name])
ProfileOf(entry) == LoadOrDefault(IF entry.keys = None THEN "Default" ELSE entry.keys)

----------------------------------------------------------------------------
(* The screen                                                               *)

Up == running = "up" /\ temp = <<>>      \* the thread is at its loop
Viewing == tabs # <<>> /\ tabs[active].viewer

(* The panel that gets a key, and the one drawn last.                       *)
TakesKeys ==
    CASE prompt              -> "prompt"
      [] ~prompt /\ keymap # <<>> -> "keymap"
      [] ~prompt /\ keymap = <<>> /\ scripts -> "scripts"
      [] ~prompt /\ keymap = <<>> /\ ~scripts /\ Viewing -> "log"
      [] OTHER               -> IF creds # <<>> THEN "credentials"
                                ELSE IF panel # <<>> THEN "directory" ELSE "session"
OnTop ==
    CASE keymap # <<>>                          -> "keymap"
      [] keymap = <<>> /\ scripts    -> "scripts"
      [] OTHER -> IF creds # <<>> THEN "credentials"
                  ELSE IF Viewing THEN "log"
                  ELSE IF panel # <<>> THEN "directory"
                  ELSE IF prompt THEN "prompt" ELSE "session"

At(who) == Up /\ TakesKeys = who
Fresh(dir) == <<[dir |-> dir, at |-> "browse", id |-> None, form |-> NewForm]>>
Directory == IF panel # <<>> THEN panel[1].dir ELSE store[1]

----------------------------------------------------------------------------
(* Saving the directory: atomic_write, during which the thread does nothing *)
(* else. A crash may come between its steps.                                *)

Torn == {[torn |-> TRUE]}
Change == changes < MaxChanges /\ changes' = changes + 1

Save(dir) ==
    /\ temp' = <<[content |-> dir, whole |-> FALSE]>>
    /\ UNCHANGED <<disk, unsaved>>

WriteTempFile ==
    /\ running = "up" /\ temp # <<>> /\ ~temp[1].whole
    /\ temp' = <<[temp[1] EXCEPT !.whole = TRUE]>>
    /\ UNCHANGED <<running, changes, disk, unsaved, panel, store, tabbar, overlay, secrets, mapping, past>>

\* MUTANT: the file is moved into place before it is written and synced.
Rename_unsynced ==
    /\ running = "up" /\ temp # <<>>
    /\ disk' = (IF temp[1].whole THEN temp[1].content ELSE Torn)
    /\ temp' = <<>> /\ unsaved' = FALSE
    /\ UNCHANGED <<running, changes, panel, store, tabbar, overlay, secrets, mapping, past>>

Rename ==
    /\ running = "up" /\ temp # <<>> /\ temp[1].whole
    /\ disk' = temp[1].content /\ temp' = <<>> /\ unsaved' = FALSE
    /\ UNCHANGED <<running, changes, panel, store, tabbar, overlay, secrets, mapping, past>>

WriteFails ==
    /\ running = "up" /\ temp # <<>>
    /\ temp' = <<>> /\ unsaved' = TRUE
    /\ UNCHANGED <<running, changes, disk, panel, store, tabbar, overlay, secrets, mapping, past>>

----------------------------------------------------------------------------
(* The directory panel                                                      *)

In(mode) == At("directory") /\ panel[1].at = mode
Goes(mode) == panel' = <<[panel[1] EXCEPT !.at = mode, !.id = None, !.form = NewForm]>>
OnlyPanel == UNCHANGED <<running, changes, files, store, tabbar, overlay, secrets, mapping, past>>

PanelLeaves ==
    /\ \E mode \in {"status", "searching", "confirm", "form", "group"} : In(mode)
    /\ Goes("browse") /\ OnlyPanel

PanelSearches == In("browse") /\ Goes("searching") /\ OnlyPanel

PanelAsks(id, mode) ==
    /\ In("browse") /\ Has(Directory, id)
    /\ panel' = <<[panel[1] EXCEPT !.at = mode, !.id = id]>>
    /\ OnlyPanel

PanelOpensForm(form) ==
    /\ In("browse")
    /\ panel' = <<[panel[1] EXCEPT !.at = "form", !.form = form]>>
    /\ OnlyPanel

PanelTypes(form) ==
    /\ In("form") /\ panel' = <<[panel[1] EXCEPT !.form = form]>>
    /\ OnlyPanel

PanelSaves(dir) ==
    /\ Change
    /\ Save(dir)
    /\ panel' = <<[Fresh(dir)[1] EXCEPT !.at = "status"]>>
    /\ UNCHANGED <<running, store, tabbar, overlay, secrets, mapping, past>>

ConfirmDelete ==
    In("confirm") /\ PanelSaves({e \in Directory : e.id # panel[1].id})

SetGroup(g) ==
    /\ In("group") /\ Has(Directory, panel[1].id)
    /\ PanelSaves(Replaced(Directory, [Get(Directory, panel[1].id) EXCEPT !.group = g]))

(* A new entry gets an identifier no other ever had.                        *)
Unused(id) == ~Has(Directory, id) /\ imported[id] = 0 /\ \A n \in DOMAIN history : history[n].entry # id

SubmitForm(id) ==
    LET form == panel[1].form IN
    /\ In("form") /\ form.valid
    /\ IF form.editing = None THEN Unused(id) ELSE id = form.editing
    /\ PanelSaves(Replaced(Directory,
           BuildEntry(form, IF Has(Directory, id) THEN Get(Directory, id) ELSE Blank(id))))

SetFormCredential(c) == panel' = <<[panel[1] EXCEPT !.form.credential = c]>>

TypedForms(form) == {[form EXCEPT !.valid = ~@], [form EXCEPT !.credential = None]}

DirectoryKey ==
    \/ PanelLeaves \/ PanelSearches \/ ConfirmDelete
    \/ \E id \in Ids, mode \in {"confirm", "group"} : PanelAsks(id, mode)
    \/ PanelOpensForm(NewForm)
    \/ panel # <<>> /\ \E e \in Directory : PanelOpensForm(FromEntry(e))
    \/ panel # <<>> /\ \E f \in TypedForms(panel[1].form) : PanelTypes(f)
    \/ \E id \in Ids : panel # <<>> /\ SubmitForm(id)
    \/ \E g \in Groups \cup {None} : SetGroup(g)

(* Back to the tabs; without tabs the program ends.                         *)
PanelQuits ==
    /\ In("browse")
    /\ IF tabs = <<>>
       THEN running' = "exiting" /\ UNCHANGED <<panel, store>>
       ELSE panel' = <<>> /\ store' = <<Directory>> /\ UNCHANGED running
    /\ UNCHANGED <<changes, files, tabbar, overlay, secrets, mapping, past>>

----------------------------------------------------------------------------
(* Sessions and their history                                               *)

Connection(id, row, outcomes) ==
    [entry |-> id, row |-> row, ended |-> 0, outcomes |-> outcomes, failed |-> FALSE]

(* begun: begin_session found the database willing.                         *)
Connects(id, begun) ==
    /\ In("browse") /\ Has(Directory, id)
    /\ Change
    /\ history' = Append(history, Connection(id, begun, <<>>))
    /\ tabs' = Append(tabs, [entry |-> Get(Directory, id), status |-> "connected",
                             session |-> Len(history) + 1, recorded |-> FALSE,
                             profile |-> ProfileOf(Get(Directory, id)), viewer |-> FALSE])
    /\ active' = Len(tabs) + 1
    /\ panel' = <<>> /\ store' = <<MarkConnected(Directory, id)>>
    /\ Save(MarkConnected(Directory, id))
    /\ UNCHANGED <<running, overlay, secrets, mapping, imported, first, tasks>>

ConnectFails(id, noted) ==
    /\ In("browse") /\ Has(Directory, id)
    /\ Change
    /\ history' = Append(history, Connection(id, FALSE, IF noted THEN <<"error">> ELSE <<>>))
    /\ Goes("status")
    /\ UNCHANGED <<running, files, store, tabbar, overlay, secrets, mapping, imported, first, tasks>>

Outcome(tab) == IF tab.status = "error" THEN "error" ELSE "connected"

\* MUTANT: closing the tab of a session that has ended records it again.
RecordSessionEnd_again(tab) ==
    tasks' = IF ~history[tab.session].row THEN tasks
             ELSE tasks \cup {[session |-> tab.session, outcome |-> Outcome(tab), todo |-> "end"]}

(* record_session_end spawns a task for a session with a row, once.         *)
RecordSessionEnd(tab) ==
    tasks' = IF tab.recorded \/ ~history[tab.session].row THEN tasks
             ELSE tasks \cup {[session |-> tab.session, outcome |-> Outcome(tab), todo |-> "end"]}

\* MUTANT: the end of the link is not recorded, only the closing of its tab.
LinkEnds_silent(i, status) ==
    /\ Up /\ tabs[i].status = "connected"
    /\ tabs' = [tabs EXCEPT ![i].status = status, ![i].recorded = TRUE]
    /\ UNCHANGED <<running, changes, files, panel, store, active, overlay, secrets, mapping, past>>

(* The I/O task reports the end and the same turn of the loop records it.   *)
LinkEnds(i, status) ==
    LET tab == [tabs[i] EXCEPT !.status = status] IN
    /\ Up /\ tabs[i].status = "connected"
    /\ RecordSessionEnd(tab)
    /\ tabs' = [tabs EXCEPT ![i] = [tab EXCEPT !.recorded = TRUE]]
    /\ UNCHANGED <<running, changes, files, panel, store, active, overlay, secrets, mapping, history, imported, first>>

(* SQL errors are printed; the task goes on.                                *)
Ended(n, ok) ==
    [history EXCEPT ![n].ended = IF ok THEN @ + 1 ELSE @, ![n].failed = @ \/ ~ok]
Noted(h, n, outcome, ok) ==
    [h EXCEPT ![n].outcomes = IF ok THEN Append(@, outcome) ELSE @, ![n].failed = @ \/ ~ok]

TaskStep(t, ok) ==
    /\ running # "down"
    /\ IF ok THEN UNCHANGED changes ELSE Change
    /\ IF t.todo = "end"
       THEN /\ history' = Ended(t.session, ok)
            /\ tasks' = (tasks \ {t}) \cup {[t EXCEPT !.todo = "record"]}
       ELSE /\ history' = Noted(history, t.session, t.outcome, ok)
            /\ tasks' = tasks \ {t}
    /\ UNCHANGED <<running, files, panel, store, tabbar, overlay, secrets, mapping, imported, first>>

----------------------------------------------------------------------------
(* Keys of a session, through the profile of its tab                        *)

Command(c) == At("session") /\ tabs # <<>> /\ c \in tabs[active].profile.bound
ToDirectory == panel' = Fresh(store[1]) /\ store' = <<>>

OpenDirectory ==
    /\ Command("OpenDirectory") \/ Command("NewTab")
    /\ ToDirectory
    /\ UNCHANGED <<running, changes, files, tabbar, overlay, secrets, mapping, past>>

\* MUTANT: after the last tab nothing is shown.
CloseTab_bare ==
    /\ Command("CloseTab")
    /\ RecordSessionEnd(tabs[active])
    /\ tabs' = RemoveAt(tabs, active)
    /\ active' = (IF active > Len(tabs') /\ tabs' # <<>> THEN Len(tabs') ELSE active)
    /\ UNCHANGED <<running, changes, files, panel, store, overlay, secrets, mapping, history, imported, first>>

CloseTab ==
    LET left == RemoveAt(tabs, active) IN
    /\ Command("CloseTab")
    /\ RecordSessionEnd(tabs[active])
    /\ tabs' = left
    /\ IF left = <<>>
       THEN ToDirectory /\ UNCHANGED active
       ELSE active' = (IF active > Len(left) THEN Len(left) ELSE active) /\ UNCHANGED <<panel, store>>
    /\ UNCHANGED <<running, changes, files, overlay, secrets, mapping, history, imported, first>>

SwitchTab(n) ==
    /\ Command("SwitchTab") /\ n # active
    /\ active' = n
    /\ UNCHANGED <<running, changes, files, panel, store, tabs, overlay, secrets, mapping, past>>

ToggleLog ==
    /\ Command("ToggleLog") \/ At("log")
    /\ tabs' = [tabs EXCEPT ![active].viewer = ~@]
    /\ UNCHANGED <<running, changes, files, panel, store, active, overlay, secrets, mapping, past>>

(* F6 needs no binding; Enter and Esc end the prompt.                       *)
FilePrompt ==
    /\ At("session") \/ At("prompt")
    /\ prompt' = ~prompt
    /\ UNCHANGED <<running, changes, files, panel, store, tabbar, keymap, scripts, secrets, mapping, past>>

OpenScripts ==
    /\ Command("OpenScripts") \/ In("browse")
    /\ scripts' = TRUE
    /\ UNCHANGED <<running, changes, files, panel, store, tabbar, keymap, prompt, secrets, mapping, past>>
CloseScripts ==
    /\ At("scripts") /\ scripts' = FALSE
    /\ UNCHANGED <<running, changes, files, panel, store, tabbar, keymap, prompt, secrets, mapping, past>>

(* Ctrl+C always works.                                                     *)
Quit ==
    /\ At("session")
    /\ running' = "exiting"
    /\ UNCHANGED <<changes, files, panel, store, tabbar, overlay, secrets, mapping, past>>

----------------------------------------------------------------------------
(* The key mapping panel                                                    *)

OpenKeyMapping ==
    /\ Command("OpenKeyMapping")
    /\ keymap' = <<tabs[active].profile>>
    /\ UNCHANGED <<running, changes, files, panel, store, tabbar, scripts, prompt, secrets, mapping, past>>

EditBinding(c) ==
    /\ At("keymap")
    /\ keymap' = <<[keymap[1] EXCEPT !.bound = IF c \in @ THEN @ \ {c} ELSE @ \cup {c}]>>
    /\ UNCHANGED <<running, changes, files, panel, store, tabbar, scripts, prompt, secrets, mapping, past>>

\* MUTANT: open tabs keep the bindings they have.
CloseKeyMapping_later(ok) ==
    LET updated == keymap[1] IN
    /\ At("keymap") /\ Change
    /\ profiles' = IF ok THEN [profiles EXCEPT ![updated.name] = <<updated>>] ELSE profiles
    /\ global' = updated /\ keymap' = <<>>
    /\ strayed' = (~ok \/ updated.name # "Default")
    /\ UNCHANGED <<running, files, panel, store, tabbar, scripts, prompt, secrets, past>>

CloseKeyMapping(ok) ==
    LET updated == keymap[1] IN
    /\ At("keymap") /\ Change
    /\ profiles' = IF ok THEN [profiles EXCEPT ![updated.name] = <<updated>>] ELSE profiles
    /\ tabs' = [i \in DOMAIN tabs |->
                   IF tabs[i].entry.keys = None THEN [tabs[i] EXCEPT !.profile = updated] ELSE tabs[i]]
    /\ global' = updated /\ keymap' = <<>>
    /\ strayed' = (~ok \/ updated.name # "Default")
    /\ UNCHANGED <<running, files, panel, store, active, scripts, prompt, secrets, past>>

----------------------------------------------------------------------------
(* The credential panel                                                     *)

OpenCredentials(listed) ==
    /\ Command("OpenCredentials") \/ In("browse") \/ In("form")
    /\ creds' = <<[items |-> IF listed THEN vault ELSE {}, at |-> "browse", id |-> None]>>
    /\ picking' = (panel # <<>> /\ panel[1].at = "form")
    /\ UNCHANGED <<running, changes, files, panel, store, tabbar, overlay, vault, mapping, past>>

OnlyCreds == UNCHANGED <<running, changes, files, panel, store, tabbar, overlay, vault, mapping, past>>
Shows(state, id) == creds' = <<[creds[1] EXCEPT !.at = state, !.id = id]>>
CredsIn(state) == At("credentials") /\ creds[1].at = state

(* Name and kind, then user name and secret; Esc gives up.                  *)
CredentialTyping ==
    /\ \E step \in {<<"browse", "kind">>, <<"kind", "secret">>, <<"kind", "browse">>,
                    <<"secret", "browse">>, <<"pubkey", "browse">>, <<"shown", "browse">>} :
           CredsIn(step[1]) /\ Shows(step[2], None)
    /\ UNCHANGED picking /\ OnlyCreds

CloseCredentials ==
    /\ CredsIn("browse") /\ creds' = <<>> /\ picking' = FALSE
    /\ OnlyCreds

Stored(c, kind) == vault \cup {[id |-> c, kind |-> kind]}
Deleted(id) == {v \in vault : v.id # id}
Listed(ok, before) == IF ok THEN vault' ELSE before

\* MUTANT: an error of the store leaves the generated public key on the screen.
StoreCredential_hopeful(c, kind, stored, listed) ==
    /\ CredsIn(IF kind = "key" THEN "kind" ELSE "secret")
    /\ c \notin {v.id : v \in vault} /\ Change
    /\ Shows(IF kind = "key" THEN "pubkey" ELSE "browse", c)
    /\ vault' = IF stored THEN Stored(c, kind) ELSE vault
    /\ UNCHANGED <<running, files, panel, store, tabbar, overlay, picking, mapping, past>>

(* A password from the secret, a key from the choice of its kind. The panel *)
(* shows the public key before the caller has stored the private one.       *)
StoreCredential(c, kind, stored, listed) ==
    LET after == [items |-> Listed(listed, creds[1].items),
                  at    |-> IF ~listed THEN "browse" ELSE IF kind = "key" THEN "pubkey" ELSE "browse",
                  id    |-> IF listed /\ kind = "key" THEN c ELSE None] IN
    /\ CredsIn(IF kind = "key" THEN "kind" ELSE "secret")
    /\ c \notin {v.id : v \in vault} /\ Change
    /\ IF ~stored
       THEN Shows("browse", None) /\ UNCHANGED <<panel, picking, vault>>
       ELSE /\ vault' = Stored(c, kind)
            /\ IF picking THEN SetFormCredential(c) ELSE UNCHANGED panel
            /\ picking' = (picking /\ kind = "key")
            /\ creds' = IF picking /\ kind # "key" THEN <<>>
                        ELSE IF kind = "key" THEN <<after>>
                        ELSE <<[after EXCEPT !.at = "shown", !.id = c]>>
    /\ UNCHANGED <<running, files, store, tabbar, overlay, mapping, past>>

DeleteCredential(item, deleted, listed) ==
    /\ CredsIn("browse") /\ Change
    /\ IF ~deleted
       THEN Shows("browse", None) /\ UNCHANGED vault
       ELSE /\ vault' = Deleted(item.id)
            /\ creds' = <<[creds[1] EXCEPT !.items = Listed(listed, @)]>>
    /\ UNCHANGED <<running, files, panel, store, tabbar, overlay, picking, mapping, past>>

(* Enter uses the credential in the picker; elsewhere it shows it.          *)
EnterCredential(item, read) ==
    /\ CredsIn("browse")
    /\ IF picking
       THEN SetFormCredential(item.id) /\ creds' = <<>> /\ picking' = FALSE
       ELSE /\ UNCHANGED <<panel, picking>>
            /\ IF item.kind # "key" THEN Shows("shown", item.id)
               ELSE IF read /\ item \in vault THEN Shows("pubkey", item.id)
               ELSE Shows("browse", None)
    /\ UNCHANGED <<running, changes, files, store, tabbar, overlay, vault, mapping, past>>
ViewCredential(item, read) ==
    /\ CredsIn("browse") /\ picking
    /\ IF item.kind # "key" THEN Shows("shown", item.id)
       ELSE IF read /\ item \in vault THEN Shows("pubkey", item.id)
       ELSE Shows("browse", None)
    /\ UNCHANGED picking /\ OnlyCreds

----------------------------------------------------------------------------
(* Start, exit and crash                                                    *)

Init ==
    /\ running = "down" /\ changes = 0
    /\ disk \in Directories /\ temp = <<>> /\ unsaved = FALSE
    /\ panel = <<>> /\ store = <<>> /\ tabs = <<>> /\ active = 1
    /\ keymap = <<>> /\ scripts = FALSE /\ prompt = FALSE
    /\ creds = <<>> /\ picking = FALSE /\ vault = {}
    /\ profiles \in {p \in [Profiles -> UNION {MaybeStored(n) : n \in Profiles}] :
                        \A n \in Profiles : p[n] \in MaybeStored(n)}
    /\ global = DefaultProfile /\ strayed = FALSE
    /\ history = <<>> /\ imported = [id \in Ids |-> 0] /\ first = 0 /\ tasks = {}

Rows(id, outcome) == {n \in DOMAIN history : history[n].entry = id /\ outcome \in Range(history[n].outcomes)}
Known(id) == imported[id] > 0 \/ \E o \in {"connected", "error"} : Rows(id, o) # {}

Imported(dir) ==
    [id \in Ids |-> IF (\E e \in dir : e.id = id /\ e.connected) /\ ~Known(id)
                    THEN imported[id] + 1 ELSE imported[id]]
Missed(dir) == {e \in dir : Rows(e.id, "connected") # {}}
Backfilled(dir) == {IF e \in Missed(dir) THEN [e EXCEPT !.connected = TRUE] ELSE e : e \in dir}

(* The directory is saved if a session ended after the time it has for it.  *)
Start(later, ok) ==
    LET filled == Backfilled(disk) IN
    /\ running = "down" /\ disk # Torn
    /\ Change
    /\ running' = "up"
    /\ imported' = Imported(disk)
    /\ later \in (IF filled # disk THEN {TRUE} ELSE IF Missed(disk) # {} THEN BOOLEAN ELSE {FALSE})
    /\ temp' = IF later THEN <<[content |-> filled, whole |-> FALSE]>> ELSE <<>>
    /\ panel' = Fresh(filled)
    /\ global' = LoadOrDefault("Default")
    /\ profiles' = IF ok THEN [profiles EXCEPT !["Default"] = <<global'>>] ELSE profiles
    /\ first' = Len(history)
    /\ strayed' = FALSE /\ unsaved' = FALSE
    /\ UNCHANGED <<disk, store, tabbar, overlay, secrets, history, tasks>>

(* The sessions still open are recorded one by one; spawned tasks are not   *)
(* waited for.                                                              *)
Waiting == {i \in DOMAIN tabs : ~tabs[i].recorded}
RecordOnExit(i, ended, noted) ==
    LET n == tabs[i].session IN
    /\ running = "exiting" /\ i \in Waiting /\ \A j \in Waiting : i <= j
    /\ tabs' = [tabs EXCEPT ![i].recorded = TRUE]
    /\ IF ended /\ noted THEN UNCHANGED changes ELSE Change
    /\ history' = IF history[n].row THEN Noted(Ended(n, ended), n, Outcome(tabs[i]), noted) ELSE history
    /\ UNCHANGED <<running, files, panel, store, active, overlay, secrets, mapping, imported, first, tasks>>

Gone ==
    /\ running' = "down"
    /\ temp' = <<>> /\ panel' = <<>> /\ store' = <<>> /\ tabs' = <<>> /\ active' = 1
    /\ keymap' = <<>> /\ scripts' = FALSE /\ prompt' = FALSE
    /\ creds' = <<>> /\ picking' = FALSE /\ tasks' = {}
    /\ UNCHANGED <<changes, disk, unsaved, vault, mapping, history, imported, first>>
Exits == running = "exiting" /\ Waiting = {} /\ Gone
Crash == running # "down" /\ Gone

----------------------------------------------------------------------------

CredentialKey ==
    \/ CredentialTyping \/ CloseCredentials
    \/ \E stored, listed \in BOOLEAN :
         \/ \E c \in Credentials, kind \in {"password", "key"} : StoreCredential(c, kind, stored, listed)
         \/ creds # <<>> /\ \E item \in creds[1].items : DeleteCredential(item, stored, listed)
    \/ creds # <<>> /\ \E item \in creds[1].items, read \in BOOLEAN :
         EnterCredential(item, read) \/ ViewCredential(item, read)

SessionKey ==
    \/ OpenDirectory \/ CloseTab \/ ToggleLog \/ FilePrompt \/ OpenScripts \/ OpenKeyMapping \/ Quit
    \/ \E n \in DOMAIN tabs : SwitchTab(n)
    \/ \E listed \in BOOLEAN : OpenCredentials(listed)

Key ==
    \/ DirectoryKey \/ PanelQuits \/ SessionKey \/ CredentialKey \/ CloseScripts
    \/ \E id \in Ids, ok \in BOOLEAN : Connects(id, ok) \/ ConnectFails(id, ok)
    \/ \E c \in Editable : EditBinding(c)
    \/ \E ok \in BOOLEAN : CloseKeyMapping(ok)

Task == \E t \in tasks, ok \in BOOLEAN : TaskStep(t, ok)

Next ==
    \/ Key \/ Task
    \/ \E i \in DOMAIN tabs, status \in {"disconnected", "error"} : LinkEnds(i, status)
    \/ WriteTempFile \/ Rename \/ WriteFails
    \/ \E i \in DOMAIN tabs, ended, noted \in BOOLEAN : RecordOnExit(i, ended, noted)
    \/ \E later, ok \in BOOLEAN : Start(later, ok)
    \/ Exits \/ Crash

(* Spawned tasks run; the user need not do anything.                        *)
Spec == Init /\ [][Next]_vars /\ WF_vars(Task)

----------------------------------------------------------------------------

(* The keys go to the panel on top of the screen, and there is always one:  *)
(* the directory is held once, by the panel or for it, the panel shows when *)
(* no tab is left, and a picker stands over the form it fills               *)
(* (run_multi_session, execute_app_command).                                *)
OneOnTop ==
    running = "up" =>
    /\ TakesKeys = OnTop
    /\ (panel = <<>>) # (store = <<>>)
    /\ tabs = <<>> => panel # <<>>
    /\ tabs # <<>> => active \in DOMAIN tabs
    /\ picking => creds # <<>> /\ panel # <<>> /\ panel[1].at = "form"

(* Over failing saves, crashes between any two steps and restarts the       *)
(* directory on disk is whole, and it is the one on the screen unless the   *)
(* user was told otherwise (Directory::save, atomic_write).                 *)
DirectoryDurable ==
    /\ disk # Torn
    /\ Up /\ ~unsaved => disk = Directory

(* The history has one end and one outcome of a session at most, and the    *)
(* end only of one that has ended, whoever writes it: the tick that sees    *)
(* the link end, the closing of its tab, or the exit. Entries are imported  *)
(* once (record_session_end, record_open_sessions_on_exit,                  *)
(* import_from_directory).                                                  *)
Live(n) == running = "up" /\ \E i \in DOMAIN tabs : tabs[i].session = n /\ tabs[i].status = "connected"
RecordedOnce ==
    /\ \A n \in DOMAIN history :
         LET h == history[n] IN
         /\ h.ended <= 1 /\ Len(h.outcomes) <= 1
         /\ h.ended = 1 => ~Live(n)
         /\ h.row /\ h.outcomes # <<>> => h.ended = 1 \/ h.failed
    /\ \A id \in Ids : imported[id] <= 1

(* While the program runs the end of every session that has a row gets into *)
(* the history, or an error is printed: the spawned tasks catch up with the *)
(* user (record_session_end).                                               *)
Over(n) == n > first /\ history[n].row /\ ~Live(n)
Filed(n) == history[n].failed \/ (history[n].ended = 1 /\ history[n].outcomes # <<>>)
EndsRecorded ==
    []<>(running = "up" => \A n \in DOMAIN history : Over(n) => Filed(n))

(* Tabs without a profile of their own use the bindings of the program and  *)
(* of the tabs to come, unless the last profile edited was a named one or   *)
(* was not saved (KeymappingPanelAction::Close, load_or_default).           *)
DefaultFollows ==
    running = "up" /\ ~strayed =>
    /\ LoadOrDefault("Default") = global
    /\ \A i \in DOMAIN tabs : tabs[i].entry.keys = None => tabs[i].profile = global

(* A public key is on the screen, to be copied to a server, only if its     *)
(* private key is stored (CredentialPanelAction::Store, ViewPublicKey).     *)
KeyStored ==
    creds # <<>> /\ creds[1].at = "pubkey" => \E v \in vault : v.id = creds[1].id
=============================================================================
