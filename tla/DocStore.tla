-------------------------------- MODULE DocStore --------------------------------
(***************************************************************************)
(* The documents of a platform on disk: a library and one directory per    *)
(* session (celld/json_doc_store.hpp, gateway/workspace.hpp), what the     *)
(* request threads do with them (platform.hpp, cell_server/main.cpp), and  *)
(* the algorithms kept there, which a restart installs again.              *)
(*                                                                         *)
(* One kind of document stands for all: the modules, the only kind that    *)
(* the platform itself writes and reads back.  A document is its body; of  *)
(* the text, only whether it was written to its end and whether it would   *)
(* compile.  A cell is the queue of the definitions it accepted and what   *)
(* its worker has installed; the bus itself is CommandBus.                 *)
(***************************************************************************)
EXTENDS Naturals, Sequences, FiniteSets

CONSTANTS
  Clients,        \* request threads
  Sessions,
  Files,          \* file names; a module is named for its file
  Texts,         \* texts that validate
  Shipped,        \* what the library holds when the platform is installed
  Library, Absent, Partial,
  Capacity,       \* of the queue of commands
  PublicMode,     \* ROBONODE_PUBLIC
  MaxWrites,      \* bound: writes of a process
  MaxCrashes      \* bound: how often the process dies

Directories == Sessions \cup {Library}

ASSUME StoreAssumption ==
  /\ Library \notin Sessions
  /\ {Absent, Partial} \cap Texts = {}
  /\ Absent # Partial
  /\ Shipped \in [Files -> Texts \cup {Absent}]
  /\ Files # {} /\ IsFiniteSet(Files)
  /\ Capacity \in Nat

VARIABLES
  docs,       \* what is under each name
  staging,    \* the .part files: [place, file, seq, body]
  opened,     \* open_, the sessions with a workspace
  seq,        \* next_write()
  up,         \* the process runs
  crashes,
  pc, call,   \* request threads, and their arguments
  backlog,    \* definitions accepted and not yet installed
  installed,  \* the registry of the main cell
  dropped,    \* definitions an e-stop discarded
  reloading,  \* modules a starting process has still to offer to the cell
  overlooked, \* modules it offered in vain
  kept        \* names whose last save was acknowledged and not undone

disk_vars == <<docs, staging>>
cell_vars == <<backlog, installed, dropped, reloading, overlooked>>
store_vars == <<disk_vars, opened, seq, up, crashes, pc, call, cell_vars, kept>>

NoCall == [op |-> "none", place |-> Library, file |-> CHOOSE f \in Files : TRUE,
           body |-> Absent, seq |-> 0]

Readable(place) == {f \in Files : docs[place][f] \in Texts}

(* The library store is opened with the platform, a session's when it is   *)
(* first named: opening clears what dead writes left behind.               *)
Sweep(place) == staging' = {s \in staging : s.place # place}

StoreInit ==
  /\ docs = [p \in Directories |-> IF p = Library THEN Shipped ELSE [f \in Files |-> Absent]]
  /\ staging = {}
  /\ opened = {}
  /\ seq = 0
  /\ up = FALSE
  /\ crashes = 0
  /\ pc = [c \in Clients |-> "free"]
  /\ call = [c \in Clients |-> NoCall]
  /\ backlog = <<>>
  /\ installed = [f \in Files |-> Absent]
  /\ dropped = {}
  /\ reloading = {}
  /\ overlooked = {}
  /\ kept = {}

Goes(c, where) == pc' = [pc EXCEPT ![c] = where]

Answer(c) == Goes(c, "free") /\ call' = [call EXCEPT ![c] = NoCall]

-------------------------------------------------------------------------------
(* The process                                                             *)

(* What a process does before it serves requests: the documents are there, *)
(* and the modules among them are to be offered to its cell again.         *)
Boot ==
  /\ ~up
  /\ up' = TRUE
  /\ Sweep(Library)
  /\ reloading' = Readable(Library)
  /\ UNCHANGED <<docs, opened, seq, crashes, pc, call, backlog, installed, dropped, overlooked, kept>>

(* reload_modules(): one after the other, while the worker installs.  The  *)
(* order, that of the names, is not told apart.  A module the full queue   *)
(* refuses is passed over, and nothing offers it again.                    *)
Offer ==
  /\ \E f \in reloading :
       /\ reloading' = reloading \ {f}
       /\ IF Len(backlog) < Capacity
          THEN /\ backlog' = Append(backlog, [file |-> f, body |-> docs[Library][f]])
               /\ UNCHANGED overlooked
          ELSE overlooked' = overlooked \cup {f} /\ UNCHANGED backlog
  /\ UNCHANGED <<disk_vars, opened, seq, up, crashes, pc, call, installed, dropped, kept>>

(* Killed: what was in memory is gone.                                     *)
Crash ==
  /\ up /\ crashes < MaxCrashes
  /\ crashes' = crashes + 1
  /\ up' = FALSE
  /\ opened' = {}
  /\ seq' = 0
  /\ pc' = [c \in Clients |-> "free"]
  /\ call' = [c \in Clients |-> NoCall]
  /\ backlog' = <<>>
  /\ installed' = [f \in Files |-> Absent]
  /\ dropped' = {}
  /\ reloading' = {}
  /\ overlooked' = {}
  /\ UNCHANGED <<disk_vars, kept>>

(* The worker of the main cell installs the oldest definition.             *)
Install ==
  /\ backlog # <<>>
  /\ installed' = [installed EXCEPT ![Head(backlog).file] = Head(backlog).body]
  /\ backlog' = Tail(backlog)
  /\ dropped' = dropped \ {Head(backlog).file}
  /\ UNCHANGED <<disk_vars, opened, seq, up, crashes, pc, call, reloading, overlooked, kept>>

(* A process serves requests once it has offered all of them.              *)
Serving == up /\ reloading = {}

(* An e-stop discards what has not started.                                *)
Discard ==
  /\ Serving /\ backlog # <<>>
  /\ dropped' = dropped \cup {backlog[k].file : k \in DOMAIN backlog}
  /\ backlog' = <<>>
  /\ UNCHANGED <<disk_vars, opened, seq, up, crashes, pc, call, installed, reloading, overlooked, kept>>

-------------------------------------------------------------------------------
(* Requests                                                                *)

(* save_doc(): what does not validate is refused before anything happens.  *)
Begin(c, op, place, file, body) ==
  /\ Serving /\ pc[c] = "free"
  /\ call' = [call EXCEPT ![c] = [op |-> op, place |-> place, file |-> file, body |-> body, seq |-> 0]]
  /\ Goes(c, IF op = "define" THEN "compile" ELSE IF op = "close" THEN "wipe" ELSE "mine")
  /\ UNCHANGED <<disk_vars, opened, seq, up, crashes, cell_vars, kept>>

SaveDoc(c)   == \E s \in Sessions, f \in Files, b \in Texts : Begin(c, "save", s, f, b)
ForkDoc(c)   == \E s \in Sessions, f \in Files : Begin(c, "fork", s, f, Absent)
DeleteDoc(c) == \E s \in Sessions, f \in Files : Begin(c, "delete", s, f, Absent)

(* define_and_persist(): the module is saved into the library.             *)
DefineModule(c) == \E f \in Files, b \in Texts : Begin(c, "define", Library, f, b)

DeleteSession(c) ==
  /\ ~PublicMode
  /\ \E s \in Sessions, f \in Files : Begin(c, "close", s, f, Absent)

(* mine(): the workspace of the session, constructed on first use, under   *)
(* the lock of the map.                                                    *)
Mine(c) ==
  /\ pc[c] = "mine"
  /\ opened' = opened \cup {call[c].place}
  /\ IF call[c].place \in opened THEN UNCHANGED staging ELSE Sweep(call[c].place)
  /\ Goes(c, CASE call[c].op = "save" -> "stage"
               [] call[c].op = "fork" -> "look"
               [] call[c].op = "delete" -> "remove")
  /\ UNCHANGED <<docs, seq, up, crashes, call, cell_vars, kept>>

(* doc(): the session's own document, and else the shipped one.  A fork    *)
(* saves the body under another name, as a save of its own.                *)
Fork(c, body) ==
  IF body \notin Texts THEN Answer(c)
  ELSE \E to \in Files :
         /\ call' = [call EXCEPT ![c].op = "save", ![c].body = body, ![c].file = to]
         /\ Goes(c, "mine")

ReadOwn(c) ==
  /\ pc[c] = "look"
  /\ IF docs[call[c].place][call[c].file] # Absent
     THEN Fork(c, docs[call[c].place][call[c].file])
     ELSE Goes(c, "shipped") /\ UNCHANGED call
  /\ UNCHANGED <<disk_vars, opened, seq, up, crashes, cell_vars, kept>>

ReadShipped(c) ==
  /\ pc[c] = "shipped"
  /\ Fork(c, docs[Library][call[c].file])
  /\ UNCHANGED <<disk_vars, opened, seq, up, crashes, cell_vars, kept>>

(* Mutated form of Compile: a definition the queue refused is still saved. *)
Compile_AlwaysSaves(c) ==
  /\ pc[c] = "compile"
  /\ Goes(c, "stage")
  /\ IF Len(backlog) < Capacity
     THEN backlog' = Append(backlog, [file |-> call[c].file, body |-> call[c].body])
     ELSE UNCHANGED backlog
  /\ UNCHANGED <<disk_vars, opened, seq, up, crashes, call, installed, dropped, reloading, overlooked, kept>>

(* CellGateway::define_module: accepted, and only then saved.              *)
Compile(c) ==
  /\ pc[c] = "compile"
  /\ IF Len(backlog) < Capacity
     THEN /\ backlog' = Append(backlog, [file |-> call[c].file, body |-> call[c].body])
          /\ Goes(c, "stage") /\ UNCHANGED call
     ELSE Answer(c) /\ UNCHANGED backlog
  /\ UNCHANGED <<disk_vars, opened, seq, up, crashes, installed, dropped, reloading, overlooked, kept>>

-------------------------------------------------------------------------------
(* JsonDocStore::save                                                      *)

Part(c, body) == [place |-> call[c].place, file |-> call[c].file, seq |-> call[c].seq, body |-> body]

(* Mutated form of Stage: writers of a process share one staging name.     *)
Stage_SharedName(c) ==
  /\ pc[c] = "stage"
  /\ seq < MaxWrites
  /\ seq' = seq + 1
  /\ staging' = {s \in staging : s # Part(c, s.body)} \cup {Part(c, Partial)}
  /\ Goes(c, "write")
  /\ UNCHANGED <<docs, opened, up, crashes, call, cell_vars, kept>>

(* A staging file of its own, truncated.                                   *)
Stage(c) ==
  /\ pc[c] = "stage"
  /\ seq < MaxWrites
  /\ seq' = seq + 1
  /\ LET part == [Part(c, Partial) EXCEPT !.seq = seq + 1]
     IN  /\ staging' = {s \in staging : s # [part EXCEPT !.body = s.body]} \cup {part}
         /\ call' = [call EXCEPT ![c].seq = part.seq]
  /\ Goes(c, "write")
  /\ UNCHANGED <<docs, opened, up, crashes, cell_vars, kept>>

(* The body, flushed at the end of the block; the disk has room for it.    *)
Write(c) ==
  /\ pc[c] = "write"
  /\ staging' = {IF s = Part(c, s.body) THEN Part(c, call[c].body) ELSE s : s \in staging}
  /\ Goes(c, "replace")
  /\ UNCHANGED <<docs, opened, seq, up, crashes, call, cell_vars, kept>>

(* Mutated form of Replace: a rename that fails takes the target away.     *)
Replace_DropsTarget(c) ==
  LET mine == {s \in staging : s = Part(c, s.body)}
  IN  /\ pc[c] = "replace"
      /\ staging' = staging \ mine
      /\ docs' = [docs EXCEPT ![call[c].place][call[c].file] =
                    IF mine = {} THEN Absent ELSE (CHOOSE s \in mine : TRUE).body]
      /\ kept' = IF mine = {} THEN kept ELSE kept \cup {<<call[c].place, call[c].file>>}
      /\ Answer(c)
      /\ UNCHANGED <<opened, seq, up, crashes, cell_vars>>

(* The staging file becomes the document; if it is gone the save fails.    *)
Replace(c) ==
  LET mine == {s \in staging : s = Part(c, s.body)}
  IN  /\ pc[c] = "replace"
      /\ staging' = staging \ mine
      /\ IF mine = {} THEN UNCHANGED <<docs, kept>>
         ELSE /\ docs' = [docs EXCEPT ![call[c].place][call[c].file] = (CHOOSE s \in mine : TRUE).body]
              /\ kept' = kept \cup {<<call[c].place, call[c].file>>}
      /\ Answer(c)
      /\ UNCHANGED <<opened, seq, up, crashes, cell_vars>>

RemoveDoc(c) ==
  /\ pc[c] = "remove"
  /\ docs' = [docs EXCEPT ![call[c].place][call[c].file] = Absent]
  /\ kept' = kept \ {<<call[c].place, call[c].file>>}
  /\ Answer(c)
  /\ UNCHANGED <<staging, opened, seq, up, crashes, cell_vars>>

(* Sessions::remove: the directory first, then the workspace.  A request   *)
(* that still holds the workspace reads freed memory: it carries on with   *)
(* what was there, or dies with the process, which is Crash.               *)
Wipe(c) ==
  /\ pc[c] = "wipe"
  /\ docs' = [docs EXCEPT ![call[c].place] = [f \in Files |-> Absent]]
  /\ Sweep(call[c].place)
  /\ kept' = {n \in kept : n[1] # call[c].place}
  /\ Goes(c, "forget")
  /\ UNCHANGED <<opened, seq, up, crashes, call, cell_vars>>

Forget(c) ==
  /\ pc[c] = "forget"
  /\ opened' = opened \ {call[c].place}
  /\ Answer(c)
  /\ UNCHANGED <<disk_vars, seq, up, crashes, cell_vars, kept>>

ClientStep(c) ==
  \/ Mine(c) \/ ReadOwn(c) \/ ReadShipped(c) \/ Compile(c) \/ Stage(c) \/ Write(c)
  \/ Replace(c) \/ RemoveDoc(c) \/ Wipe(c) \/ Forget(c)

StoreNext ==
  \/ Boot \/ Offer \/ Crash \/ Install \/ Discard
  \/ \E c \in Clients :
       SaveDoc(c) \/ ForkDoc(c) \/ DeleteDoc(c) \/ DefineModule(c) \/ DeleteSession(c) \/ ClientStep(c)

StoreSpec == StoreInit /\ [][StoreNext]_store_vars

-------------------------------------------------------------------------------
(* Properties                                                              *)

(* What is under a name is the whole of a body somebody saved, whatever    *)
(* other clients save at the time and wherever the process dies.           *)
NoTornDocument == \A p \in Directories, f \in Files : docs[p][f] # Partial

(* A save that was acknowledged stays until its document is deleted: it is *)
(* there while another client replaces it, when a replacement fails, and   *)
(* after any number of restarts.                                           *)
SavedIsThere == \A n \in kept : docs[n[1]][n[2]] # Absent

(* Every algorithm on disk has been offered to the cell that is running:   *)
(* it is installed, waits for the worker, fell to an e-stop, or is still   *)
(* to be offered by a process that starts.  A restart loses one only when  *)
(* there are more of them than the queue takes at a time.                  *)
PersistedIsOffered ==
  up => \A f \in Readable(Library) :
          \/ f \in reloading
          \/ installed[f] # Absent
          \/ f \in dropped
          \/ \E k \in DOMAIN backlog : backlog[k].file = f
          \/ f \in overlooked /\ Cardinality(Readable(Library)) > Capacity

===============================================================================
