----------------------------- MODULE DocStoreProofs -----------------------------
(***************************************************************************)
(* The document store for any number of request threads, sessions, files   *)
(* and crashes.  What makes it work is that a staging file belongs to one  *)
(* writer: its number is nobody else's, so what the writer renames is what *)
(* it wrote, and never what another thread is still writing.               *)
(*                                                                         *)
(* Then the programs users keep in it, for any text and any limits.  A     *)
(* code is understood by the stacks it goes through (Trace), and what it   *)
(* makes of the top of any stack (Turns): both engines go through those    *)
(* stacks, as long as their limits let them, and what the parser emits for *)
(* a part of a text turns nothing into a reading of it.                    *)
(***************************************************************************)
EXTENDS DocStore, Sandbox, FunctionTheorems, FiniteSetTheorems, SequenceTheorems, TLAPS

Ops    == {"none", "save", "fork", "delete", "define", "close"}
Wheres == {"free", "mine", "look", "shipped", "compile", "stage", "write", "replace", "remove",
           "wipe", "forget"}

Parts == [place : Directories, file : Files, seq : Nat, body : Texts \cup {Partial}]
Calls == [op : Ops, place : Directories, file : Files, body : Texts \cup {Absent}, seq : Nat]

DiskOK ==
  /\ docs \in [Directories -> [Files -> Texts \cup {Absent}]]
  /\ staging \subseteq Parts
  /\ seq \in Nat
  /\ kept \subseteq Directories \X Files

CallsOK ==
  /\ pc \in [Clients -> Wheres]
  /\ call \in [Clients -> Calls]

Writes(c)  == pc[c] \in {"compile", "stage", "write", "replace"}
Writing(c) == pc[c] \in {"write", "replace"}

(* Where a request is tells what it is about, and a save has its body.     *)
PlaceOfCall ==
  \A c \in Clients :
    /\ Writes(c) => call[c].op \in {"save", "define"}
    /\ call[c].op \in {"save", "define"} => call[c].body \in Texts
    /\ pc[c] = "mine" => call[c].op \in {"save", "fork", "delete"}

(* The number of a write is its writer's alone,                            *)
NumbersDiffer ==
  \A c \in Clients :
    Writing(c) =>
      /\ call[c].seq \in 1..seq
      /\ \A d \in Clients \ {c} : Writing(d) => call[d].seq # call[c].seq

(* so what it is about to rename has been written to its end.              *)
PartIsWhole ==
  \A c \in Clients : pc[c] = "replace" =>
    \A s \in staging : s = Part(c, s.body) => s.body \in Texts

StoreInv == DiskOK /\ CallsOK /\ PlaceOfCall /\ NumbersDiffer /\ PartIsWhole /\ SavedIsThere

LEMMA NoCallIsACall == NoCall \in Calls /\ NoCall.op = "none"
<1>1. (CHOOSE f \in Files : TRUE) \in Files
  BY StoreAssumption
<1> QED BY <1>1 DEF NoCall, Calls, Directories, Ops

LEMMA InitStoreInv == StoreInit => StoreInv
<1> SUFFICES ASSUME StoreInit PROVE StoreInv
  OBVIOUS
<1>1. DiskOK
  BY StoreAssumption DEF StoreInit, DiskOK, Directories
<1>2. CallsOK
  BY NoCallIsACall DEF StoreInit, CallsOK, Wheres
<1>3. PlaceOfCall /\ NumbersDiffer /\ PartIsWhole /\ SavedIsThere
  BY NoCallIsACall DEF StoreInit, PlaceOfCall, NumbersDiffer, PartIsWhole, SavedIsThere, Writes, Writing
<1> QED BY <1>1, <1>2, <1>3 DEF StoreInv

(* A request that does not write moves on, or is answered.                 *)
LEMMA MovesKeepStoreInv ==
  ASSUME StoreInv, NEW c \in Clients, NEW where \in Wheres, NEW request \in Calls,
         ~Writing(c), where \notin {"write", "replace"},
         pc' = [pc EXCEPT ![c] = where], call' = [call EXCEPT ![c] = request],
         where \in {"compile", "stage"} => request.op \in {"save", "define"},
         request.op \in {"save", "define"} => request.body \in Texts,
         where = "mine" => request.op \in {"save", "fork", "delete"},
         staging' \subseteq staging, UNCHANGED <<docs, seq, kept>>
  PROVE  StoreInv'
<1> USE DEF StoreInv, CallsOK
<1>1. DiskOK'
  BY DEF DiskOK
<1>2. CallsOK'
  OBVIOUS
<1>3. /\ \A d \in Clients \ {c} : pc'[d] = pc[d] /\ call'[d] = call[d]
      /\ pc'[c] = where /\ call'[c] = request
  OBVIOUS
<1>4. PlaceOfCall'
  BY <1>3 DEF PlaceOfCall, Writes
<1>5. NumbersDiffer'
  BY <1>3 DEF NumbersDiffer, Writing
<1>6. PartIsWhole'
  BY <1>3 DEF PartIsWhole, Part
<1>7. SavedIsThere'
  BY DEF SavedIsThere
<1> QED BY <1>1, <1>2, <1>4, <1>5, <1>6, <1>7

LEMMA BeginKeepsStoreInv ==
  ASSUME StoreInv, NEW c \in Clients, NEW op \in Ops \ {"none"},
         NEW place \in Directories, NEW file \in Files, NEW body \in Texts \cup {Absent},
         op \in {"save", "define"} => body \in Texts, Begin(c, op, place, file, body)
  PROVE  StoreInv'
<1> DEFINE request == [op |-> op, place |-> place, file |-> file, body |-> body, seq |-> 0]
           where   == IF op = "define" THEN "compile" ELSE IF op = "close" THEN "wipe" ELSE "mine"
<1>1. request \in Calls /\ request.op = op /\ request.body = body
  BY DEF Calls
<1>2. where \in Wheres /\ where \notin {"write", "replace", "stage"}
  BY DEF Wheres
<1>3. where = "compile" => op = "define"
  OBVIOUS
<1>4. where = "mine" => op \in {"save", "fork", "delete"}
  BY DEF Ops
<1>5. ~Writing(c) /\ pc' = [pc EXCEPT ![c] = where] /\ call' = [call EXCEPT ![c] = request]
  BY DEF Begin, Goes, Writing
<1>6. staging' \subseteq staging /\ UNCHANGED <<docs, seq, kept>>
  BY DEF Begin, disk_vars
<1> HIDE DEF request, where
<1> QED BY <1>1, <1>2, <1>3, <1>4, <1>5, <1>6, MovesKeepStoreInv

(* What leaves the requests alone and adds no staging file.                *)
LEMMA QuietKeepsStoreInv ==
  ASSUME StoreInv, UNCHANGED <<docs, seq, kept, pc, call>>, staging' \subseteq staging
  PROVE  StoreInv'
<1> USE DEF StoreInv
<1>1. DiskOK' /\ CallsOK'
  BY DEF DiskOK, CallsOK
<1>2. PlaceOfCall' /\ NumbersDiffer'
  BY DEF PlaceOfCall, NumbersDiffer, Writes, Writing
<1>3. PartIsWhole'
  BY DEF PartIsWhole, Part
<1>4. SavedIsThere'
  BY DEF SavedIsThere
<1> QED BY <1>1, <1>2, <1>3, <1>4

LEMMA CrashKeepsStoreInv == StoreInv /\ Crash => StoreInv'
<1> SUFFICES ASSUME StoreInv, Crash PROVE StoreInv'
  OBVIOUS
<1> USE DEF StoreInv
<1>1. DiskOK' /\ SavedIsThere'
  BY DEF Crash, DiskOK, SavedIsThere, disk_vars
<1>2. CallsOK'
  BY NoCallIsACall DEF Crash, CallsOK, Wheres
<1>3. \A c \in Clients : pc'[c] = "free" /\ call'[c].op = "none"
  BY NoCallIsACall DEF Crash
<1>4. PlaceOfCall' /\ NumbersDiffer' /\ PartIsWhole'
  BY <1>3 DEF PlaceOfCall, NumbersDiffer, PartIsWhole, Writes, Writing
<1> QED BY <1>1, <1>2, <1>4

(* A fork saves only what it could read.                                   *)
LEMMA ForkKeepsStoreInv ==
  ASSUME StoreInv, NEW c \in Clients, NEW body, pc[c] \in {"look", "shipped"}, Fork(c, body),
         UNCHANGED <<disk_vars, seq, kept>>
  PROVE  StoreInv'
<1>1. ~Writing(c) /\ staging' \subseteq staging /\ UNCHANGED <<docs, seq, kept>>
  BY DEF Writing, disk_vars
<1>2. CASE body \notin Texts
  <2>1. pc' = [pc EXCEPT ![c] = "free"] /\ call' = [call EXCEPT ![c] = NoCall]
    BY <1>2 DEF Fork, Answer, Goes
  <2>2. "free" \in Wheres
    BY DEF Wheres
  <2> QED BY <1>1, <2>1, <2>2, NoCallIsACall, MovesKeepStoreInv
<1>3. CASE body \in Texts
  <2>1. PICK to \in Files :
          /\ call' = [call EXCEPT ![c].op = "save", ![c].body = body, ![c].file = to]
          /\ pc' = [pc EXCEPT ![c] = "mine"]
    BY <1>3 DEF Fork, Goes
  <2> DEFINE request == [call[c] EXCEPT !.op = "save", !.body = body, !.file = to]
  <2>2. request \in Calls /\ request.op = "save" /\ request.body = body
    BY <1>3 DEF StoreInv, CallsOK, Calls, Ops
  <2>3. call' = [call EXCEPT ![c] = request]
    BY <2>1
  <2>4. "mine" \in Wheres
    BY DEF Wheres
  <2> HIDE DEF request
  <2> QED BY <1>1, <1>3, <2>1, <2>2, <2>3, <2>4, MovesKeepStoreInv
<1> QED BY <1>2, <1>3

(* A write takes a number nobody has, and empties a file of its own.       *)
LEMMA StageKeepsStoreInv ==
  ASSUME StoreInv, NEW c \in Clients, Stage(c)
  PROVE  StoreInv'
<1> DEFINE part == [Part(c, Partial) EXCEPT !.seq = seq + 1]
<1> USE DEF StoreInv
<1>0. call[c] \in Calls /\ seq \in Nat /\ seq' = seq + 1
  BY DEF Stage, DiskOK, CallsOK
<1>1. part \in Parts /\ part.seq = seq + 1
  BY <1>0 DEF Part, Parts, Calls
<1>9. \A s \in staging' : s \in staging \/ s = part
  BY DEF Stage
<1> HIDE DEF part
<1>2. /\ \A d \in Clients \ {c} : pc'[d] = pc[d] /\ call'[d] = call[d]
      /\ pc'[c] = "write" /\ call'[c] = [call[c] EXCEPT !.seq = seq + 1]
      /\ call'[c].op = call[c].op /\ call'[c].body = call[c].body /\ call'[c].seq = seq + 1
  <2>1. call' = [call EXCEPT ![c].seq = seq + 1]
    BY DEF Stage, Part
  <2>2. pc' = [pc EXCEPT ![c] = "write"]
    BY DEF Stage, Goes
  <2> QED BY <1>0, <2>1, <2>2 DEF CallsOK, Calls
<1>3. DiskOK'
  <2>1. staging' \subseteq Parts
    BY <1>1, <1>9 DEF DiskOK
  <2>2. UNCHANGED <<docs, kept>>
    BY DEF Stage
  <2> QED BY <1>0, <2>1, <2>2 DEF DiskOK
<1>4. CallsOK'
  <2>1. call'[c] \in Calls
    BY <1>0, <1>2 DEF Calls
  <2>2. call' = [call EXCEPT ![c].seq = seq + 1]
    BY DEF Stage, Part
  <2>3. pc' = [pc EXCEPT ![c] = "write"]
    BY DEF Stage, Goes
  <2> QED BY <1>2, <2>1, <2>2, <2>3 DEF CallsOK, Wheres
<1>5. PlaceOfCall'
  BY <1>2 DEF PlaceOfCall, Writes, Stage
<1>6. NumbersDiffer'
  <2> SUFFICES ASSUME NEW d \in Clients, Writing(d)'
               PROVE  /\ call'[d].seq \in 1..seq'
                      /\ \A e \in Clients \ {d} : Writing(e)' => call'[e].seq # call'[d].seq
    BY DEF NumbersDiffer
  <2>1. \A e \in Clients \ {c} : Writing(e)' => Writing(e) /\ call'[e].seq \in 1..seq
    BY <1>2 DEF NumbersDiffer, Writing
  <2>2. CASE d = c
    <3>1. call'[d].seq = seq + 1
      BY <1>2, <2>2
    <3>3. seq + 1 \in 1..seq'
      BY <1>0
    <3>2. ASSUME NEW e \in Clients \ {d}, Writing(e)' PROVE call'[e].seq # seq + 1
      <4>1. call'[e].seq \in 1..seq
        BY <2>1, <2>2, <3>2
      <4> QED BY <1>0, <4>1
    <3> QED BY <3>1, <3>2, <3>3
  <2>3. CASE d # c
    <3>1. \A e \in Clients \ {c, d} : Writing(e)' => call'[e].seq # call'[d].seq
      BY <1>2, <2>1, <2>3 DEF NumbersDiffer
    <3>2. call'[c].seq # call'[d].seq
      BY <1>0, <1>2, <2>1, <2>3
    <3> QED BY <1>0, <2>1, <2>3, <3>1, <3>2
  <2> QED BY <2>2, <2>3
<1>7. PartIsWhole'
  <2> SUFFICES ASSUME NEW d \in Clients, pc'[d] = "replace",
                      NEW s \in staging', s = Part(d, s.body)'
               PROVE  s.body \in Texts
    BY DEF PartIsWhole
  <2>1. d # c /\ call'[d] = call[d] /\ pc[d] = "replace"
    BY <1>2
  <2>2. s.seq = call[d].seq /\ call[d].seq \in 1..seq
    BY <2>1 DEF Part, NumbersDiffer, Writing
  <2>3. s \in staging
    BY <1>0, <1>1, <1>9, <2>2
  <2> QED BY <2>1, <2>3 DEF PartIsWhole, Part
<1>8. SavedIsThere'
  BY DEF SavedIsThere, Stage
<1> QED BY <1>3, <1>4, <1>5, <1>6, <1>7, <1>8

(* It fills that file and no other.                                        *)
LEMMA WriteKeepsStoreInv ==
  ASSUME StoreInv, NEW c \in Clients, Write(c)
  PROVE  StoreInv'
<1> USE DEF StoreInv
<1>1. call[c].body \in Texts /\ Part(c, call[c].body) \in Parts
  BY DEF Write, PlaceOfCall, Writes, Part, Parts, CallsOK, Calls
<1>2. /\ \A d \in Clients \ {c} : pc'[d] = pc[d]
      /\ pc'[c] = "replace" /\ call' = call
  BY DEF Write, Goes, CallsOK
<1>3. DiskOK'
  BY <1>1 DEF Write, DiskOK
<1>4. CallsOK'
  BY DEF Write, Goes, CallsOK, Wheres
<1>5. PlaceOfCall' /\ NumbersDiffer'
  BY <1>2 DEF Write, PlaceOfCall, NumbersDiffer, Writes, Writing
<1>6. PartIsWhole'
  <2> SUFFICES ASSUME NEW d \in Clients, pc'[d] = "replace",
                      NEW s \in staging', s = Part(d, s.body)'
               PROVE  s.body \in Texts
    BY DEF PartIsWhole
  <2>1. s = Part(d, s.body)
    BY <1>2 DEF Part
  <2>2. PICK old \in staging : s = IF old = Part(c, old.body) THEN Part(c, call[c].body) ELSE old
    BY DEF Write
  <2>3. CASE old = Part(c, old.body)
    BY <1>1, <2>2, <2>3 DEF Part
  <2>4. CASE old # Part(c, old.body)
    <3>1. s = old /\ d # c
      BY <2>1, <2>2, <2>4
    <3> QED BY <1>2, <2>1, <3>1 DEF PartIsWhole
  <2> QED BY <2>3, <2>4
<1>7. SavedIsThere'
  BY DEF Write, SavedIsThere
<1> QED BY <1>3, <1>4, <1>5, <1>6, <1>7

(* The rename puts a whole body under the name, or nothing happens.        *)
LEMMA ReplaceKeepsStoreInv ==
  ASSUME StoreInv, NEW c \in Clients, Replace(c)
  PROVE  StoreInv'
<1> DEFINE mine == {s \in staging : s = Part(c, s.body)}
           here == call[c].place
           name == call[c].file
<1> USE DEF StoreInv
<1>1. /\ call[c] \in Calls /\ here \in Directories /\ name \in Files /\ pc[c] = "replace"
  BY DEF Replace, CallsOK, Calls
<1>2. staging' \subseteq staging /\ seq' = seq
  BY DEF Replace
<1>3. /\ \A d \in Clients \ {c} : pc'[d] = pc[d] /\ call'[d] = call[d]
      /\ pc'[c] = "free" /\ call'[c].op = "none"
      /\ pc' \in [Clients -> Wheres] /\ call' \in [Clients -> Calls]
  BY NoCallIsACall DEF Replace, Answer, Goes, CallsOK, Wheres
<1>4. PICK b \in Texts :
        \/ UNCHANGED <<docs, kept>>
        \/ docs' = [docs EXCEPT ![here][name] = b] /\ kept' = kept \cup {<<here, name>>}
  <2>1. CASE mine = {}
    <3>1. Texts # {}
      BY <1>1 DEF PlaceOfCall, Writes
    <3> QED BY <2>1, <3>1 DEF Replace
  <2>2. CASE mine # {}
    <3>1. (CHOOSE s \in mine : TRUE) \in mine
      BY <2>2
    <3>2. (CHOOSE s \in mine : TRUE).body \in Texts
      BY <1>1, <3>1 DEF PartIsWhole
    <3> QED BY <2>2, <3>2 DEF Replace
  <2> QED BY <2>1, <2>2
<1>5. DiskOK'
  BY <1>1, <1>2, <1>4 DEF DiskOK
<1>6. PlaceOfCall' /\ NumbersDiffer'
  BY <1>2, <1>3 DEF PlaceOfCall, NumbersDiffer, Writes, Writing
<1>7. PartIsWhole'
  BY <1>2, <1>3 DEF PartIsWhole, Part
<1>8. SavedIsThere'
  <2>1. CASE UNCHANGED <<docs, kept>>
    BY <2>1 DEF SavedIsThere
  <2>2. CASE docs' = [docs EXCEPT ![here][name] = b] /\ kept' = kept \cup {<<here, name>>}
    <3>1. b # Absent
      BY StoreAssumption
    <3>2. docs'[here][name] = b
      BY <1>1, <2>2 DEF DiskOK
    <3>3. \A n \in kept : docs'[n[1]][n[2]] \in {docs[n[1]][n[2]], b}
      BY <1>1, <2>2 DEF DiskOK
    <3> QED BY <2>2, <3>1, <3>2, <3>3 DEF SavedIsThere
  <2> QED BY <1>4, <2>1, <2>2
<1> QED BY <1>3, <1>5, <1>6, <1>7, <1>8 DEF CallsOK

LEMMA RemoveKeepsStoreInv ==
  ASSUME StoreInv, NEW c \in Clients, RemoveDoc(c)
  PROVE  StoreInv'
<1> USE DEF StoreInv
<1>1. call[c].place \in Directories /\ call[c].file \in Files
  BY DEF CallsOK, Calls
<1>2. /\ \A d \in Clients \ {c} : pc'[d] = pc[d] /\ call'[d] = call[d]
      /\ pc'[c] = "free" /\ call'[c].op = "none"
      /\ pc' \in [Clients -> Wheres] /\ call' \in [Clients -> Calls]
  BY NoCallIsACall DEF RemoveDoc, Answer, Goes, CallsOK, Wheres
<1>3. DiskOK'
  BY <1>1 DEF RemoveDoc, DiskOK
<1>4. PlaceOfCall' /\ NumbersDiffer'
  BY <1>2 DEF RemoveDoc, PlaceOfCall, NumbersDiffer, Writes, Writing
<1>5. PartIsWhole'
  BY <1>2 DEF RemoveDoc, PartIsWhole, Part
<1>6. SavedIsThere'
  BY <1>1 DEF RemoveDoc, SavedIsThere, DiskOK
<1> QED BY <1>2, <1>3, <1>4, <1>5, <1>6 DEF CallsOK

LEMMA WipeKeepsStoreInv ==
  ASSUME StoreInv, NEW c \in Clients, Wipe(c)
  PROVE  StoreInv'
<1> USE DEF StoreInv
<1>1. call[c].place \in Directories
  BY DEF CallsOK, Calls
<1>2. /\ \A d \in Clients \ {c} : pc'[d] = pc[d]
      /\ pc'[c] = "forget" /\ call' = call /\ staging' \subseteq staging
      /\ pc' \in [Clients -> Wheres]
  BY DEF Wipe, Sweep, Goes, CallsOK, Wheres
<1>3. DiskOK'
  BY <1>1, <1>2 DEF Wipe, DiskOK
<1>4. PlaceOfCall' /\ NumbersDiffer'
  BY <1>2 DEF Wipe, PlaceOfCall, NumbersDiffer, Writes, Writing
<1>5. PartIsWhole'
  BY <1>2 DEF PartIsWhole, Part
<1>6. SavedIsThere'
  BY <1>1 DEF Wipe, SavedIsThere, DiskOK
<1> QED BY <1>2, <1>3, <1>4, <1>5, <1>6 DEF CallsOK

LEMMA ClientKeepsStoreInv ==
  ASSUME StoreInv, NEW c \in Clients, ClientStep(c)
  PROVE  StoreInv'
<1> USE DEF StoreInv
<1>1. call[c] \in Calls /\ call = [call EXCEPT ![c] = call[c]]
  BY DEF CallsOK
<1>2. CASE Mine(c)
  <2> DEFINE where == CASE call[c].op = "save" -> "stage"
                        [] call[c].op = "fork" -> "look"
                        [] call[c].op = "delete" -> "remove"
  <2>1. /\ call[c].op \in {"save", "fork", "delete"} /\ ~Writing(c)
        /\ call[c].op = "save" => call[c].body \in Texts
    BY <1>2 DEF Mine, PlaceOfCall, Writing
  <2>2. /\ where \in Wheres /\ where \notin {"write", "replace", "compile", "mine"}
        /\ where = "stage" => call[c].op = "save"
    BY <2>1 DEF Wheres
  <2>3. /\ pc' = [pc EXCEPT ![c] = where] /\ staging' \subseteq staging
        /\ UNCHANGED <<docs, seq, kept, call>>
    BY <1>2 DEF Mine, Goes, Sweep
  <2>4. call' = [call EXCEPT ![c] = call[c]]
    BY <1>1, <2>3
  <2>5. call[c].op \in {"save", "define"} => call[c].body \in Texts
    BY DEF PlaceOfCall
  <2> HIDE DEF where
  <2> QED BY <1>1, <2>1, <2>2, <2>3, <2>4, <2>5, MovesKeepStoreInv
<1>3. CASE ReadOwn(c)
  <2>1. CASE docs[call[c].place][call[c].file] # Absent
    BY <1>3, <2>1, ForkKeepsStoreInv DEF ReadOwn
  <2>2. CASE docs[call[c].place][call[c].file] = Absent
    <3>1. pc' = [pc EXCEPT ![c] = "shipped"] /\ call' = [call EXCEPT ![c] = call[c]]
      BY <1>1, <1>3, <2>2 DEF ReadOwn, Goes
    <3>2. ~Writing(c) /\ staging' \subseteq staging /\ UNCHANGED <<docs, seq, kept>>
      BY <1>3 DEF ReadOwn, Writing, disk_vars
    <3>3. "shipped" \in Wheres
      BY DEF Wheres
    <3>4. call[c].op \in {"save", "define"} => call[c].body \in Texts
      BY DEF PlaceOfCall
    <3> QED BY <1>1, <3>1, <3>2, <3>3, <3>4, MovesKeepStoreInv
  <2> QED BY <2>1, <2>2
<1>4. CASE ReadShipped(c)
  BY <1>4, ForkKeepsStoreInv DEF ReadShipped
<1>5. CASE Compile(c)
  <2>1. ~Writing(c) /\ staging' \subseteq staging /\ UNCHANGED <<docs, seq, kept>>
    BY <1>5 DEF Compile, Writing, disk_vars
  <2>2. "stage" \in Wheres /\ "free" \in Wheres
    BY DEF Wheres
  <2>3. call[c].op \in {"save", "define"} /\ call[c].body \in Texts
    BY <1>5 DEF Compile, PlaceOfCall, Writes
  <2>4. CASE pc' = [pc EXCEPT ![c] = "stage"] /\ call' = [call EXCEPT ![c] = call[c]]
    BY <1>1, <2>1, <2>2, <2>3, <2>4, MovesKeepStoreInv
  <2>5. CASE pc' = [pc EXCEPT ![c] = "free"] /\ call' = [call EXCEPT ![c] = NoCall]
    BY <2>1, <2>2, <2>5, NoCallIsACall, MovesKeepStoreInv
  <2> QED BY <1>1, <1>5, <2>4, <2>5 DEF Compile, Goes, Answer
<1>6. CASE Stage(c) \/ Write(c) \/ Replace(c) \/ RemoveDoc(c) \/ Wipe(c)
  BY <1>6, StageKeepsStoreInv, WriteKeepsStoreInv, ReplaceKeepsStoreInv, RemoveKeepsStoreInv,
     WipeKeepsStoreInv
<1>7. CASE Forget(c)
  <2>1. /\ ~Writing(c) /\ staging' \subseteq staging /\ UNCHANGED <<docs, seq, kept>>
        /\ pc' = [pc EXCEPT ![c] = "free"] /\ call' = [call EXCEPT ![c] = NoCall]
    BY <1>7 DEF Forget, Writing, Answer, Goes, disk_vars
  <2>2. "free" \in Wheres
    BY DEF Wheres
  <2> QED BY <2>1, <2>2, NoCallIsACall, MovesKeepStoreInv
<1> QED BY <1>2, <1>3, <1>4, <1>5, <1>6, <1>7 DEF ClientStep

LEMMA NextKeepsStoreInv == StoreInv /\ [StoreNext]_store_vars => StoreInv'
<1> SUFFICES ASSUME StoreInv, [StoreNext]_store_vars PROVE StoreInv'
  OBVIOUS
<1>1. CASE Boot \/ Offer \/ Install \/ Discard \/ UNCHANGED store_vars
  BY <1>1, QuietKeepsStoreInv DEF Boot, Offer, Install, Discard, Sweep, store_vars, disk_vars
<1>2. CASE Crash
  BY <1>2, CrashKeepsStoreInv
<1>3. ASSUME NEW c \in Clients,
             SaveDoc(c) \/ ForkDoc(c) \/ DeleteDoc(c) \/ DefineModule(c) \/ DeleteSession(c)
      PROVE  StoreInv'
  <2>1. PICK op \in Ops \ {"none"}, place \in Directories, file \in Files, body \in Texts \cup {Absent} :
          (op \in {"save", "define"} => body \in Texts) /\ Begin(c, op, place, file, body)
    BY <1>3 DEF SaveDoc, ForkDoc, DeleteDoc, DefineModule, DeleteSession, Ops, Directories
  <2> QED BY <2>1, BeginKeepsStoreInv
<1> QED BY <1>1, <1>2, <1>3, ClientKeepsStoreInv DEF StoreNext

THEOREM StoreInvariant == StoreSpec => []StoreInv
  BY InitStoreInv, NextKeepsStoreInv, PTL DEF StoreSpec

(* No interleaving of saves, deletions, sweeps and crashes leaves half of  *)
(* a document under a name (JsonDocStore::save),                           *)
THEOREM DocumentsAreWhole == StoreSpec => []NoTornDocument
<1>1. StoreInv => NoTornDocument
  BY StoreAssumption DEF StoreInv, DiskOK, NoTornDocument
<1> QED BY <1>1, StoreInvariant, PTL

(* and what was saved is there until somebody deletes it.                  *)
THEOREM SavesLast == StoreSpec => []SavedIsThere
<1>1. StoreInv => SavedIsThere
  BY DEF StoreInv
<1> QED BY <1>1, StoreInvariant, PTL

-------------------------------------------------------------------------------
(* What is on disk has been offered to the cell, or is about to be.        *)
Offered(f) ==
  \/ f \in reloading
  \/ installed[f] # Absent
  \/ f \in dropped
  \/ \E k \in DOMAIN backlog : backlog[k].file = f
  \/ f \in overlooked

AllOffered == up => \A f \in Readable(Library) : Offered(f)

Definitions == [file : Files, body : Texts]

CellOK ==
  /\ backlog \in Seq(Definitions)
  /\ installed \in [Files -> Texts \cup {Absent}]

(* A process that starts has nobody to serve, and its queue holds modules  *)
(* of the library, none twice and none that is still to be offered.        *)
Starting ==
  /\ ~up => backlog = <<>> /\ reloading = {}
  /\ reloading \subseteq Readable(Library)
  /\ reloading # {} =>
       /\ \A c \in Clients : pc[c] = "free"
       /\ \A k \in DOMAIN backlog : backlog[k].file \in Readable(Library) \ reloading
       /\ \A j, k \in DOMAIN backlog : backlog[j].file = backlog[k].file => j = k

(* So a queue that refuses one of them is full of others.                  *)
Crowded == overlooked # {} => Cardinality(Readable(Library)) > Capacity

(* A dead process serves nobody; a write of the library is a definition    *)
(* the cell accepted before it was staged.                                 *)
AcceptedFirst ==
  \A c \in Clients :
    /\ pc[c] # "free" => up
    /\ pc[c] \in {"stage", "write", "replace"} /\ call[c].place = Library => Offered(call[c].file)
    /\ pc[c] = "compile" => call[c].op = "define"
    /\ pc[c] \in {"mine", "look", "shipped", "remove", "wipe"} => call[c].place # Library
    /\ pc[c] \in {"look", "shipped"} => call[c].op = "fork"

OfferInv == StoreInv /\ CellOK /\ Starting /\ Crowded /\ AcceptedFirst /\ AllOffered

LEMMA InitOfferInv == StoreInit => OfferInv
<1> SUFFICES ASSUME StoreInit PROVE OfferInv
  OBVIOUS
<1>1. CellOK /\ Starting /\ Crowded
  BY DEF StoreInit, CellOK, Starting, Crowded
<1>2. AcceptedFirst
  BY NoCallIsACall DEF StoreInit, AcceptedFirst
<1>3. AllOffered
  BY DEF StoreInit, AllOffered
<1> QED BY <1>1, <1>2, <1>3, InitStoreInv DEF OfferInv

LEMMA LibraryIsFinite == IsFiniteSet(Readable(Library)) /\ Cardinality(Readable(Library)) \in Nat
  BY StoreAssumption, FS_Subset, FS_CardinalityType DEF Readable

(* A library that grows stays crowded.                                     *)
LEMMA GrowthKeepsCrowded ==
  ASSUME Crowded, overlooked' = overlooked, \A f \in Readable(Library) : f \in Readable(Library)'
  PROVE  Crowded'
<1> DEFINE R == Readable(Library)
           S == Readable(Library)'
<1>1. IsFiniteSet(S) /\ Cardinality(S) \in Nat
  BY StoreAssumption, FS_Subset, FS_CardinalityType DEF Readable
<1>2. R \in SUBSET S
  OBVIOUS
<1>3. Cardinality(R) \in Nat
  BY LibraryIsFinite
<1>4. Cardinality(R) <= Cardinality(S)
  BY <1>1, <1>2, FS_Subset
<1>5. overlooked # {} => Cardinality(R) > Capacity
  BY DEF Crowded
<1>6. overlooked # {} => Cardinality(S) > Capacity
  <2> HIDE DEF R, S
  <2> QED BY <1>1, <1>3, <1>4, <1>5, StoreAssumption
<1> QED BY <1>6 DEF Crowded

(* A queue of modules of the library, and one more of them that is not in  *)
(* it: the library is larger than the queue.                               *)
LEMMA FullOfOthers ==
  ASSUME CellOK, Starting, NEW f \in reloading
  PROVE  Cardinality(Readable(Library)) > Len(backlog)
<1> DEFINE R == Readable(Library)
           n == Len(backlog)
           g == [k \in 1..(n + 1) |-> IF k = n + 1 THEN f ELSE backlog[k].file]
<1>1. n \in Nat /\ DOMAIN backlog = 1..n
  BY DEF CellOK
<1>2. f \in R /\ \A k \in 1..n : backlog[k].file \in R /\ backlog[k].file # f
  BY <1>1 DEF Starting
<1>3. \A j, k \in 1..n : backlog[j].file = backlog[k].file => j = k
  BY <1>1 DEF Starting
<1>4. IsFiniteSet(R) /\ Cardinality(R) \in Nat
  BY LibraryIsFinite
<1> HIDE DEF R, n
<1>5. g \in [1..(n + 1) -> R]
  BY <1>1, <1>2
<1>6. \A j, k \in 1..(n + 1) : g[j] = g[k] => j = k
  BY <1>1, <1>2, <1>3
<1>7. g \in Injection(1..(n + 1), R)
  BY <1>5, <1>6 DEF Injection, IsInjective
<1>8. Cardinality(1..(n + 1)) = n + 1
  BY <1>1, FS_Interval
<1>9. Cardinality(1..(n + 1)) <= Cardinality(R)
  <2> HIDE DEF g
  <2> QED BY <1>4, <1>7, FS_Injection
<1> QED BY <1>1, <1>4, <1>8, <1>9 DEF R, n

(* A definition at the end of the queue.                                   *)
LEMMA Queued ==
  ASSUME CellOK, NEW last \in Definitions, backlog' = Append(backlog, last)
  PROVE  /\ backlog' \in Seq(Definitions)
         /\ DOMAIN backlog = 1..Len(backlog) /\ Len(backlog) \in Nat
         /\ DOMAIN backlog' = 1..(Len(backlog) + 1)
         /\ \A k \in DOMAIN backlog : k \in DOMAIN backlog' /\ backlog'[k] = backlog[k]
         /\ Len(backlog) + 1 \in DOMAIN backlog' /\ backlog'[Len(backlog) + 1] = last
  BY DEF CellOK

LEMMA OfferKeepsOfferInv == OfferInv /\ Offer => OfferInv'
<1> SUFFICES ASSUME OfferInv, Offer PROVE OfferInv'
  OBVIOUS
<1> USE DEF OfferInv
<1>0. StoreInv'
  BY NextKeepsStoreInv DEF StoreNext
<1>1. PICK f \in reloading :
        /\ reloading' = reloading \ {f}
        /\ IF Len(backlog) < Capacity
           THEN /\ backlog' = Append(backlog, [file |-> f, body |-> docs[Library][f]])
                /\ UNCHANGED overlooked
           ELSE overlooked' = overlooked \cup {f} /\ UNCHANGED backlog
  BY DEF Offer
<1>2. /\ UNCHANGED <<docs, up, pc, call, installed, dropped>>
      /\ Readable(Library)' = Readable(Library)
  BY DEF Offer, disk_vars, Readable
<1>3. f \in Readable(Library) /\ up /\ \A c \in Clients : pc[c] = "free"
  BY DEF Starting
<1>4. /\ \A g : Offered(g) => Offered(g)'
      /\ CellOK' /\ Starting' /\ Crowded'
  <2>1. CASE Len(backlog) < Capacity
    <3> DEFINE last == [file |-> f, body |-> docs[Library][f]]
    <3>1. last \in Definitions /\ last.file = f
      BY <1>3 DEF Definitions, Readable
    <3>2. backlog' = Append(backlog, last) /\ overlooked' = overlooked
      BY <1>1, <2>1
    <3> HIDE DEF last
    <3>3. /\ backlog' \in Seq(Definitions)
          /\ DOMAIN backlog = 1..Len(backlog) /\ Len(backlog) \in Nat
          /\ DOMAIN backlog' = 1..(Len(backlog) + 1)
          /\ \A k \in DOMAIN backlog : k \in DOMAIN backlog' /\ backlog'[k] = backlog[k]
          /\ Len(backlog) + 1 \in DOMAIN backlog' /\ backlog'[Len(backlog) + 1] = last
      BY <3>1, <3>2, Queued
    <3>4. CellOK'
      BY <1>2, <3>3 DEF CellOK
    <3>5. ASSUME NEW g, Offered(g) PROVE Offered(g)'
      <4>1. CASE g = f
        BY <3>1, <3>3, <4>1 DEF Offered
      <4>2. CASE g # f /\ \E k \in DOMAIN backlog : backlog[k].file = g
        BY <3>3, <4>2 DEF Offered
      <4>3. CASE g # f /\ ~\E k \in DOMAIN backlog : backlog[k].file = g
        BY <1>1, <1>2, <3>2, <3>5, <4>3 DEF Offered
      <4> QED BY <4>1, <4>2, <4>3
    <3>6. \A k \in DOMAIN backlog' : k \in DOMAIN backlog \/ (k = Len(backlog) + 1 /\ backlog'[k].file = f)
      BY <3>1, <3>3
    <3>7. \A k \in DOMAIN backlog : backlog[k].file \in Readable(Library) \ reloading
      BY DEF Starting
    <3>8. \A k \in DOMAIN backlog' : backlog'[k].file \in Readable(Library) \ (reloading \ {f})
      BY <1>3, <3>3, <3>6, <3>7
    <3>9. \A j, k \in DOMAIN backlog' : backlog'[j].file = backlog'[k].file => j = k
      <4>1. \A j, k \in DOMAIN backlog : backlog[j].file = backlog[k].file => j = k
        BY DEF Starting
      <4>2. \A k \in DOMAIN backlog : backlog'[k].file # f
        BY <3>3, <3>7
      <4> QED BY <3>3, <3>6, <4>1, <4>2
    <3>10. Starting'
      BY <1>1, <1>2, <1>3, <3>8, <3>9 DEF Starting
    <3>11. Crowded'
      BY <1>2, <3>2 DEF Crowded
    <3> QED BY <3>4, <3>5, <3>10, <3>11
  <2>2. CASE ~(Len(backlog) < Capacity)
    <3>1. overlooked' = overlooked \cup {f} /\ backlog' = backlog
      BY <1>1, <2>2
    <3>2. CellOK' /\ Starting'
      BY <1>1, <1>2, <3>1 DEF CellOK, Starting
    <3>3. Cardinality(Readable(Library)) > Len(backlog) /\ Len(backlog) \in Nat
      BY FullOfOthers DEF CellOK
    <3>4. Cardinality(Readable(Library)) > Capacity
      BY <2>2, <3>3, LibraryIsFinite, StoreAssumption
    <3>5. Crowded'
      BY <1>2, <3>4 DEF Crowded
    <3>6. \A g : Offered(g) => Offered(g)'
      BY <1>1, <1>2, <3>1 DEF Offered
    <3> QED BY <3>2, <3>5, <3>6
  <2> QED BY <2>1, <2>2
<1>5. AcceptedFirst'
  BY <1>2, <1>3 DEF AcceptedFirst
<1>6. AllOffered'
  BY <1>2, <1>4 DEF AllOffered
<1> QED BY <1>0, <1>4, <1>5, <1>6

(* What has been offered stays offered while the process lives.            *)
LEMMA InstallKeepsOffers ==
  ASSUME CellOK, Install
  PROVE  CellOK' /\ \A f \in Files : Offered(f) => Offered(f)'
<1>1. /\ Head(backlog) \in Definitions /\ Tail(backlog) \in Seq(Definitions)
      /\ \A k \in 2..Len(backlog) : k - 1 \in DOMAIN Tail(backlog) /\ Tail(backlog)[k - 1] = backlog[k]
      /\ Head(backlog) = backlog[1] /\ DOMAIN backlog = 1..Len(backlog)
  BY DEF CellOK, Install
<1>2. CellOK'
  BY <1>1 DEF CellOK, Install, Definitions
<1>3. ASSUME NEW f \in Files, Offered(f) PROVE Offered(f)'
  <2>1. CASE f = Head(backlog).file
    <3>1. installed'[f] \in Texts
      BY <1>1, <2>1 DEF CellOK, Install, Definitions
    <3> QED BY <3>1, StoreAssumption DEF Offered
  <2>2. CASE f # Head(backlog).file
    <3>1. installed'[f] = installed[f] /\ (f \in dropped => f \in dropped') /\ backlog' = Tail(backlog)
      BY <1>1, <2>2 DEF CellOK, Install, Definitions
    <3>2. CASE \E k \in DOMAIN backlog : backlog[k].file = f
      <4>1. PICK k \in 1..Len(backlog) : backlog[k].file = f
        BY <1>1, <3>2
      <4>2. k \in 2..Len(backlog)
        BY <1>1, <2>2, <4>1 DEF CellOK
      <4> QED BY <1>1, <3>1, <4>1, <4>2 DEF Offered
    <3>3. UNCHANGED <<reloading, overlooked>>
      BY DEF Install
    <3> QED BY <1>3, <3>1, <3>2, <3>3 DEF Offered
  <2> QED BY <2>1, <2>2
<1> QED BY <1>2, <1>3

LEMMA DiscardKeepsOffers ==
  ASSUME CellOK, Discard
  PROVE  CellOK' /\ \A f \in Files : Offered(f) => Offered(f)'
  BY DEF CellOK, Discard, Offered

LEMMA InstallKeepsStarting ==
  ASSUME CellOK, Starting, Install
  PROVE  Starting'
<1>1. /\ backlog # <<>> /\ backlog' = Tail(backlog) /\ UNCHANGED <<up, reloading, pc>>
      /\ Readable(Library)' = Readable(Library)
  BY DEF Install, disk_vars, Readable
<1>2. \A k \in DOMAIN backlog' : k + 1 \in DOMAIN backlog /\ backlog'[k] = backlog[k + 1] /\ k \in Nat
  BY <1>1 DEF CellOK
<1> QED BY <1>1, <1>2 DEF Starting

LEMMA CompileOffers ==
  ASSUME CellOK, NEW c \in Clients, Compile(c), call[c].file \in Files, call[c].body \in Texts
  PROVE  /\ CellOK'
         /\ \A f \in Files : Offered(f) => Offered(f)'
         /\ backlog' # backlog => \A f \in Files : f = call[c].file => Offered(f)'
<1>1. CASE UNCHANGED backlog
  BY <1>1 DEF CellOK, Compile, Offered
<1>2. CASE backlog' = Append(backlog, [file |-> call[c].file, body |-> call[c].body])
  <2> DEFINE last == [file |-> call[c].file, body |-> call[c].body]
  <2>1. last \in Definitions /\ last.file = call[c].file
    BY DEF Definitions
  <2> HIDE DEF last
  <2>2. /\ backlog' \in Seq(Definitions)
        /\ \A k \in DOMAIN backlog : k \in DOMAIN backlog' /\ backlog'[k] = backlog[k]
        /\ Len(backlog) + 1 \in DOMAIN backlog' /\ backlog'[Len(backlog) + 1] = last
    BY <1>2, <2>1 DEF CellOK, last
  <2>3. UNCHANGED <<installed, dropped, reloading, overlooked>>
    BY DEF Compile
  <2>4. CellOK'
    BY <2>2, <2>3 DEF CellOK
  <2>5. ASSUME NEW f \in Files, Offered(f) PROVE Offered(f)'
    BY <2>2, <2>3, <2>5 DEF Offered
  <2>6. ASSUME NEW f \in Files, f = call[c].file PROVE Offered(f)'
    BY <2>1, <2>2, <2>6 DEF Offered
  <2> QED BY <2>4, <2>5, <2>6
<1> QED BY <1>1, <1>2 DEF Compile

(* A request moves on; what it adds to the library has been offered.       *)
LEMMA MovesKeepOfferInv ==
  ASSUME OfferInv, StoreInv', CellOK', NEW c \in Clients, up, reloading = {},
         UNCHANGED <<up, reloading, overlooked>>,
         \A f \in Files : Offered(f) => Offered(f)',
         NEW where \in Wheres, NEW request \in Calls,
         pc' = [pc EXCEPT ![c] = where], call' = [call EXCEPT ![c] = request],
         where \in {"stage", "write", "replace"} /\ request.place = Library =>
           \A f \in Files : f = request.file => Offered(f)',
         where = "compile" => request.op = "define",
         where \in {"mine", "look", "shipped", "remove", "wipe"} => request.place # Library,
         where \in {"look", "shipped"} => request.op = "fork",
         \A f \in Readable(Library) : f \in Readable(Library)',
         \A f \in Readable(Library)' : f \in Readable(Library) \/ Offered(f)
  PROVE  OfferInv'
<1> USE DEF OfferInv
<1>1. /\ \A d \in Clients \ {c} : pc'[d] = pc[d] /\ call'[d] = call[d]
      /\ pc'[c] = where /\ call'[c] = request
  BY DEF StoreInv, CallsOK
<1>2. \A d \in Clients : call[d].file \in Files /\ call'[d].file \in Files
  BY DEF StoreInv, CallsOK, Calls
<1>3. ASSUME NEW d \in Clients,
             pc'[d] \in {"stage", "write", "replace"}, call'[d].place = Library,
             NEW f \in Files, f = call'[d].file
      PROVE  Offered(f)'
  <2>1. CASE d = c
    BY <1>1, <1>3, <2>1
  <2>2. CASE d # c
    <3>1. f = call[d].file /\ Offered(call[d].file)
      BY <1>1, <1>3, <2>2 DEF AcceptedFirst
    <3> QED BY <3>1
  <2> QED BY <2>1, <2>2
<1>4. AcceptedFirst'
  BY <1>1, <1>2, <1>3 DEF AcceptedFirst, Offered
<1>5. AllOffered'
  <2>1. \A f \in Readable(Library) : f \in Files /\ Offered(f)
    BY DEF AllOffered, Readable
  <2>2. \A f \in Readable(Library)' : f \in Files
    BY DEF Readable
  <2>3. \A f \in Readable(Library)' : Offered(f)'
    BY <2>1, <2>2
  <2> QED BY <2>3 DEF AllOffered
<1>6. Starting'
  BY DEF Starting
<1>7. Crowded'
  BY GrowthKeepsCrowded
<1> QED BY <1>4, <1>5, <1>6, <1>7

(* The cases of a step that leaves the cell and the library alone.         *)
LEMMA StepKeepsOfferInv ==
  ASSUME OfferInv, StoreInv', UNCHANGED <<cell_vars, up>>, NEW c \in Clients, up, reloading = {},
         NEW where \in Wheres, NEW request \in Calls,
         pc' = [pc EXCEPT ![c] = where], call' = [call EXCEPT ![c] = request],
         where \in {"stage", "write", "replace"} /\ request.place = Library => Offered(request.file),
         where = "compile" => request.op = "define",
         where \in {"mine", "look", "shipped", "remove", "wipe"} => request.place # Library,
         where \in {"look", "shipped"} => request.op = "fork",
         \A f \in Readable(Library) : f \in Readable(Library)',
         \A f \in Readable(Library)' : f \in Readable(Library) \/ Offered(f)
  PROVE  OfferInv'
<1>1. CellOK' /\ UNCHANGED <<up, reloading, overlooked>>
  BY DEF OfferInv, CellOK, cell_vars
<1>2. \A f : Offered(f) => Offered(f)'
  BY DEF Offered, cell_vars
<1> QED BY <1>1, <1>2, MovesKeepOfferInv

LEMMA AnswersKeepOfferInv ==
  ASSUME OfferInv, StoreInv', UNCHANGED <<cell_vars, up>>, NEW c \in Clients, up, reloading = {},
         Answer(c), \A f \in Readable(Library) : f \in Readable(Library)',
         \A f \in Readable(Library)' : f \in Readable(Library) \/ Offered(f)
  PROVE  OfferInv'
<1>1. "free" \in Wheres
  BY DEF Wheres
<1> QED BY <1>1, NoCallIsACall, StepKeepsOfferInv DEF Answer, Goes

LEMMA ForkKeepsOfferInv ==
  ASSUME OfferInv, StoreInv', UNCHANGED <<cell_vars, up>>, NEW c \in Clients, up, reloading = {}, NEW body,
         Fork(c, body), UNCHANGED docs, pc[c] \in {"look", "shipped"}
  PROVE  OfferInv'
<1>1. /\ \A f \in Readable(Library) : f \in Readable(Library)'
      /\ \A f \in Readable(Library)' : f \in Readable(Library)
  BY DEF Readable
<1>2. CASE body \notin Texts
  BY <1>1, <1>2, AnswersKeepOfferInv DEF Fork
<1>3. CASE body \in Texts
  <2>1. PICK to \in Files :
          /\ call' = [call EXCEPT ![c].op = "save", ![c].body = body, ![c].file = to]
          /\ pc' = [pc EXCEPT ![c] = "mine"]
    BY <1>3 DEF Fork, Goes
  <2> DEFINE request == [call[c] EXCEPT !.op = "save", !.body = body, !.file = to]
  <2>2. request \in Calls /\ request.op = "save" /\ request.place = call[c].place
    BY <1>3 DEF OfferInv, StoreInv, CallsOK, Calls, Ops
  <2>3. call' = [call EXCEPT ![c] = request]
    BY <2>1
  <2>4. "mine" \in Wheres
    BY DEF Wheres
  <2>5. request.place # Library
    BY <2>2 DEF OfferInv, AcceptedFirst
  <2> HIDE DEF request
  <2> QED BY <1>1, <2>1, <2>2, <2>3, <2>4, <2>5, StepKeepsOfferInv
<1> QED BY <1>2, <1>3

LEMMA BeginKeepsOfferInv ==
  ASSUME OfferInv, StoreInv', NEW c \in Clients, NEW op \in Ops \ {"none"},
         NEW place \in Directories, NEW file \in Files, NEW body \in Texts \cup {Absent},
         op # "define" => place # Library, Begin(c, op, place, file, body)
  PROVE  OfferInv'
<1> DEFINE request == [op |-> op, place |-> place, file |-> file, body |-> body, seq |-> 0]
           where   == IF op = "define" THEN "compile" ELSE IF op = "close" THEN "wipe" ELSE "mine"
<1>1. request \in Calls /\ request.op = op /\ request.place = place
  BY DEF Calls
<1>2. where \in {"compile", "wipe", "mine"} /\ where \in Wheres /\ (where = "compile" <=> op = "define")
  BY DEF Wheres
<1>3. up /\ pc' = [pc EXCEPT ![c] = where] /\ call' = [call EXCEPT ![c] = request]
  BY DEF Begin, Serving, Goes
<1>4. UNCHANGED <<cell_vars, up>> /\ reloading = {} /\ Readable(Library)' = Readable(Library)
  BY DEF Begin, Serving, disk_vars, Readable
<1> HIDE DEF request, where
<1> QED BY <1>1, <1>2, <1>3, <1>4, StepKeepsOfferInv

LEMMA CompileKeepsOfferInv ==
  ASSUME OfferInv, StoreInv', NEW c \in Clients, Compile(c)
  PROVE  OfferInv'
<1> USE DEF OfferInv
<1>1. call[c] \in Calls /\ call = [call EXCEPT ![c] = call[c]] /\ call[c].file \in Files
  BY DEF StoreInv, CallsOK, Calls
<1>2. call[c].op = "define" /\ call[c].body \in Texts /\ up /\ reloading = {}
  BY DEF Compile, AcceptedFirst, Starting, StoreInv, PlaceOfCall
<1>3. UNCHANGED <<up, reloading, overlooked>> /\ Readable(Library)' = Readable(Library)
  BY DEF Compile, disk_vars, Readable
<1>4. CASE Len(backlog) < Capacity
  <2>1. /\ backlog' = Append(backlog, [file |-> call[c].file, body |-> call[c].body])
        /\ pc' = [pc EXCEPT ![c] = "stage"] /\ call' = [call EXCEPT ![c] = call[c]]
    BY <1>1, <1>4 DEF Compile, Goes
  <2>2. backlog' # backlog
    <3>1. Len(backlog') = Len(backlog) + 1 /\ Len(backlog) \in Nat
      BY <2>1 DEF CellOK
    <3> QED BY <3>1
  <2>3. "stage" \in Wheres
    BY DEF Wheres
  <2> QED BY <1>1, <1>2, <1>3, <2>1, <2>2, <2>3, CompileOffers, MovesKeepOfferInv
<1>5. CASE ~(Len(backlog) < Capacity)
  <2>1. Answer(c) /\ UNCHANGED <<cell_vars, up>>
    BY <1>5 DEF Compile, cell_vars
  <2> QED BY <1>2, <1>3, <2>1, AnswersKeepOfferInv
<1> QED BY <1>4, <1>5

(* Only a rename adds to the library, and its module has been accepted.    *)
LEMMA ReplaceKeepsOfferInv ==
  ASSUME OfferInv, StoreInv', NEW c \in Clients, Replace(c), up
  PROVE  OfferInv'
<1>1. /\ pc[c] = "replace" /\ UNCHANGED <<cell_vars, up>> /\ Answer(c) /\ reloading = {}
      /\ call[c].place \in Directories /\ call[c].file \in Files
  BY DEF Replace, cell_vars, OfferInv, Starting, StoreInv, CallsOK, Calls
<1>2. \A f \in Files : docs'[Library][f] = docs[Library][f]
                      \/ (call[c].place = Library /\ call[c].file = f)
  BY <1>1 DEF Replace, OfferInv, StoreInv, DiskOK, Directories
<1>3. \A f \in Readable(Library)' : f \in Readable(Library) \/ Offered(f)
  BY <1>1, <1>2 DEF Readable, OfferInv, AcceptedFirst
<1>4. \A f \in Readable(Library) : f \in Readable(Library)'
  <2>1. CASE UNCHANGED docs
    BY <2>1 DEF Readable
  <2>2. CASE ~UNCHANGED docs
    <3> DEFINE mine == {s \in staging : s = Part(c, s.body)}
    <3>1. mine # {} /\ docs' = [docs EXCEPT ![call[c].place][call[c].file] = (CHOOSE s \in mine : TRUE).body]
      BY <2>2 DEF Replace
    <3>2. (CHOOSE s \in mine : TRUE) \in mine
      BY <3>1
    <3>3. (CHOOSE s \in mine : TRUE).body \in Texts
      BY <1>1, <3>2 DEF OfferInv, StoreInv, PartIsWhole
    <3>4. \A f \in Files : docs'[Library][f] \in {docs[Library][f], (CHOOSE s \in mine : TRUE).body}
      BY <1>1, <3>1 DEF OfferInv, StoreInv, DiskOK, Directories
    <3> QED BY <3>3, <3>4 DEF Readable
  <2> QED BY <2>1, <2>2
<1> QED BY <1>1, <1>3, <1>4, AnswersKeepOfferInv

LEMMA ClientKeepsOfferInv ==
  ASSUME OfferInv, StoreInv', NEW c \in Clients, ClientStep(c)
  PROVE  OfferInv'
<1> USE DEF OfferInv
<1>1. call[c] \in Calls /\ call = [call EXCEPT ![c] = call[c]]
  BY DEF StoreInv, CallsOK
<1>2. pc[c] # "free" /\ up /\ reloading = {}
  BY DEF ClientStep, Mine, ReadOwn, ReadShipped, Compile, Stage, Write, Replace, RemoveDoc, Wipe,
         Forget, AcceptedFirst, Starting
<1>3. CASE Mine(c)
  <2> DEFINE where == CASE call[c].op = "save" -> "stage"
                        [] call[c].op = "fork" -> "look"
                        [] call[c].op = "delete" -> "remove"
  <2>1. call[c].op \in {"save", "fork", "delete"} /\ call[c].place # Library
    BY <1>3 DEF Mine, StoreInv, PlaceOfCall, AcceptedFirst
  <2>2. where \in {"stage", "look", "remove"} /\ where \in Wheres /\ (where = "look" => call[c].op = "fork")
    BY <2>1 DEF Wheres
  <2>3. pc' = [pc EXCEPT ![c] = where] /\ call' = [call EXCEPT ![c] = call[c]] /\ UNCHANGED <<cell_vars, up>>
    BY <1>1, <1>3 DEF Mine, Goes
  <2>4. Readable(Library)' = Readable(Library)
    BY <1>3 DEF Mine, Readable
  <2> HIDE DEF where
  <2> QED BY <1>1, <1>2, <2>1, <2>2, <2>3, <2>4, StepKeepsOfferInv
<1>4. CASE ReadOwn(c)
  <2>1. UNCHANGED <<cell_vars, up, docs>> /\ pc[c] = "look"
    BY <1>4 DEF ReadOwn, disk_vars
  <2>2. CASE docs[call[c].place][call[c].file] # Absent
    BY <1>2, <1>4, <2>1, <2>2, ForkKeepsOfferInv DEF ReadOwn
  <2>3. CASE docs[call[c].place][call[c].file] = Absent
    <3>1. pc' = [pc EXCEPT ![c] = "shipped"] /\ call' = [call EXCEPT ![c] = call[c]] /\ "shipped" \in Wheres
      BY <1>1, <1>4, <2>3 DEF ReadOwn, Goes, Wheres
    <3>2. call[c].op = "fork" /\ call[c].place # Library
      BY <2>1 DEF AcceptedFirst
    <3>3. Readable(Library)' = Readable(Library)
      BY <2>1 DEF Readable
    <3> QED BY <1>1, <1>2, <2>1, <3>1, <3>2, <3>3, StepKeepsOfferInv
  <2> QED BY <2>2, <2>3
<1>5. CASE ReadShipped(c)
  BY <1>2, <1>5, ForkKeepsOfferInv DEF ReadShipped, disk_vars
<1>6. CASE Stage(c) \/ Write(c)
  <2>1. /\ UNCHANGED <<cell_vars, up, docs>> /\ pc[c] \in {"stage", "write"}
        /\ \E n \in Nat : call' = [call EXCEPT ![c] = [call[c] EXCEPT !.seq = n]]
    <3>1. CASE Stage(c)
      <4>1. call' = [call EXCEPT ![c].seq = seq + 1] /\ seq + 1 \in Nat
        BY <3>1 DEF Stage, Part, StoreInv, DiskOK
      <4> QED BY <3>1, <4>1 DEF Stage
    <3>2. CASE Write(c)
      <4>1. call[c].seq \in Nat /\ call[c] = [call[c] EXCEPT !.seq = call[c].seq]
        BY <1>1 DEF Calls
      <4> QED BY <1>1, <3>2, <4>1 DEF Write
    <3> QED BY <1>6, <3>1, <3>2
  <2>2. PICK n \in Nat : call' = [call EXCEPT ![c] = [call[c] EXCEPT !.seq = n]]
    BY <2>1
  <2> DEFINE request == [call[c] EXCEPT !.seq = n]
  <2>3. /\ request \in Calls /\ request.op = call[c].op /\ request.place = call[c].place
        /\ request.file = call[c].file
    BY <1>1 DEF Calls
  <2>4. PICK where \in {"write", "replace"} : pc' = [pc EXCEPT ![c] = where]
    BY <1>6 DEF Stage, Write, Goes
  <2>5. where \in Wheres
    BY DEF Wheres
  <2>6. call[c].place = Library => Offered(call[c].file)
    BY <2>1 DEF AcceptedFirst
  <2>8. Readable(Library)' = Readable(Library)
    BY <2>1 DEF Readable
  <2> HIDE DEF request
  <2>9. call' = [call EXCEPT ![c] = request]
    BY <2>2 DEF request
  <2> QED BY <1>2, <2>1, <2>3, <2>4, <2>5, <2>6, <2>8, <2>9, StepKeepsOfferInv
<1>7. CASE RemoveDoc(c) \/ Forget(c)
  <2>1. UNCHANGED <<cell_vars, up>> /\ Answer(c)
    BY <1>7 DEF RemoveDoc, Forget, cell_vars
  <2>2. Readable(Library)' = Readable(Library)
    BY <1>7, StoreAssumption DEF RemoveDoc, Forget, disk_vars, Readable, AcceptedFirst, StoreInv, DiskOK,
       Directories
  <2> QED BY <1>2, <2>1, <2>2, AnswersKeepOfferInv
<1>8. CASE Wipe(c)
  <2>1. /\ UNCHANGED <<cell_vars, up>> /\ pc' = [pc EXCEPT ![c] = "forget"]
        /\ call' = [call EXCEPT ![c] = call[c]] /\ "forget" \in Wheres
    BY <1>1, <1>8 DEF Wipe, Goes, Wheres
  <2>2. Readable(Library)' = Readable(Library)
    BY <1>8, StoreAssumption DEF Wipe, Readable, AcceptedFirst, StoreInv, DiskOK, Directories
  <2> QED BY <1>1, <1>2, <2>1, <2>2, StepKeepsOfferInv
<1> QED
  BY <1>2, <1>3, <1>4, <1>5, <1>6, <1>7, <1>8, CompileKeepsOfferInv, ReplaceKeepsOfferInv DEF ClientStep

LEMMA NextKeepsOfferInv == OfferInv /\ [StoreNext]_store_vars => OfferInv'
<1> SUFFICES ASSUME OfferInv, [StoreNext]_store_vars PROVE OfferInv'
  OBVIOUS
<1> USE DEF OfferInv
<1>0. StoreInv'
  BY NextKeepsStoreInv
<1>1. CASE Boot
  <2>1. /\ up' /\ reloading' = Readable(Library) /\ Readable(Library)' = Readable(Library)
        /\ UNCHANGED <<pc, call, backlog, installed, dropped, overlooked>>
    BY <1>1 DEF Boot, Readable
  <2>2. backlog = <<>> /\ \A c \in Clients : pc[c] = "free"
    BY <1>1 DEF Boot, Starting, AcceptedFirst
  <2>3. CellOK' /\ Starting' /\ Crowded'
    BY <2>1, <2>2 DEF CellOK, Starting, Crowded
  <2>4. AcceptedFirst'
    BY <2>1, <2>2 DEF AcceptedFirst
  <2>5. AllOffered'
    BY <2>1 DEF AllOffered, Offered
  <2> QED BY <1>0, <2>3, <2>4, <2>5
<1>2. CASE Crash
  <2>1. CellOK' /\ Starting' /\ Crowded'
    BY <1>2 DEF Crash, CellOK, Starting, Crowded
  <2>2. AcceptedFirst' /\ AllOffered'
    BY <1>2, NoCallIsACall DEF Crash, AcceptedFirst, AllOffered
  <2> QED BY <1>0, <2>1, <2>2
<1>3. CASE Install \/ Discard
  <2>1. CellOK' /\ \A f \in Files : Offered(f) => Offered(f)'
    BY <1>3, InstallKeepsOffers, DiscardKeepsOffers
  <2>2. UNCHANGED <<docs, up, pc, call, reloading, overlooked>>
    BY <1>3 DEF Install, Discard, disk_vars
  <2>3. \A c \in Clients : call[c].file \in Files
    BY DEF StoreInv, CallsOK, Calls
  <2>4. AcceptedFirst'
    <3>1. ASSUME NEW c \in Clients, Offered(call[c].file) PROVE Offered(call[c].file)'
      <4>1. PICK f \in Files : f = call[c].file
        BY <2>3
      <4>2. Offered(f)'
        BY <2>1, <3>1, <4>1
      <4> QED BY <2>2, <4>1, <4>2 DEF Offered
    <3> QED BY <2>2, <3>1 DEF AcceptedFirst
  <2>5. AllOffered'
    <3>1. \A f \in Readable(Library)' : up => f \in Files /\ Offered(f)
      BY <2>2 DEF Readable, AllOffered
    <3>2. \A f \in Readable(Library)' : up' => Offered(f)'
      BY <2>1, <2>2, <3>1
    <3> QED BY <3>2 DEF AllOffered
  <2>6. Starting'
    BY <1>3, InstallKeepsStarting DEF Discard, Serving, Starting, disk_vars, Readable
  <2>7. Crowded'
    BY <2>2 DEF Crowded, Readable
  <2> QED BY <1>0, <2>1, <2>4, <2>5, <2>6, <2>7
<1>4. CASE UNCHANGED store_vars
  <2>1. CellOK' /\ Starting' /\ Crowded' /\ AcceptedFirst' /\ AllOffered'
    BY <1>4 DEF store_vars, disk_vars, cell_vars, CellOK, Starting, Crowded, AcceptedFirst, AllOffered,
                Offered, Readable
  <2> QED BY <1>0, <2>1
<1>5. ASSUME NEW c \in Clients,
             SaveDoc(c) \/ ForkDoc(c) \/ DeleteDoc(c) \/ DefineModule(c) \/ DeleteSession(c)
      PROVE  OfferInv'
  <2>1. PICK op \in Ops \ {"none"}, place \in Directories, file \in Files, body \in Texts \cup {Absent} :
          (op # "define" => place # Library) /\ Begin(c, op, place, file, body)
    BY <1>5, StoreAssumption DEF SaveDoc, ForkDoc, DeleteDoc, DefineModule, DeleteSession, Ops, Directories
  <2> QED BY <1>0, <2>1, BeginKeepsOfferInv
<1> QED BY <1>0, <1>1, <1>2, <1>3, <1>4, <1>5, OfferKeepsOfferInv, ClientKeepsOfferInv DEF StoreNext

(* Every algorithm on disk has been offered to the cell that runs: a       *)
(* definition is accepted before it is saved, a restart reads them all,    *)
(* and one the queue refuses it then (platform.hpp:566) is one of more     *)
(* than the queue holds, whatever the size of either.                      *)
THEOREM ModulesAreOffered == StoreSpec => []PersistedIsOffered
<1>1. StoreSpec => []OfferInv
  BY InitOfferInv, NextKeepsOfferInv, PTL DEF StoreSpec
<1>2. OfferInv => PersistedIsOffered
  BY DEF OfferInv, AllOffered, Offered, Crowded, PersistedIsOffered
<1> QED BY <1>1, <1>2, PTL

-------------------------------------------------------------------------------
(* User programs.  First, numbers.                                         *)

(* A set of numbers has a least one.                                       *)
LEMMA LeastNumber ==
  ASSUME NEW T, T \subseteq Nat, T # {}
  PROVE  \E x \in T : \A y \in T : x <= y
<1>. DEFINE R == StrictSubsetOrdering(Nat)
            UpTo(x) == 0..x
            U == {UpTo(x) : x \in T}
<1>1. IsWellFoundedOn(R, FiniteSubsetsOf(Nat))
  BY FS_StrictSubsetOrderingWellFounded
<1>2. \A x \in T : IsFiniteSet(UpTo(x)) /\ UpTo(x) \in SUBSET Nat
  BY FS_Interval
<1>3. U \subseteq FiniteSubsetsOf(Nat) /\ U # {}
  BY <1>2 DEF FiniteSubsetsOf
<1>4. PICK u \in U : \A v \in U : ~(<<v, u>> \in R)
  BY <1>1, <1>3, WFMin
<1>5. PICK x \in T : u = UpTo(x)
  BY <1>4
<1>6. ASSUME NEW y \in T, y < x
      PROVE  <<UpTo(y), UpTo(x)>> \in R
  BY <1>6 DEF StrictSubsetOrdering
<1>7. ASSUME NEW y \in T PROVE x <= y
  <2>1. ~(<<UpTo(y), UpTo(x)>> \in R)
    BY <1>4, <1>5
  <2>2. ~(y < x)
    BY <1>6, <2>1
  <2> QED BY <2>2
<1>. QED
  BY <1>7

(* What is so of 0 and of the next of every number it is so of is so of    *)
(* all.                                                                    *)
LEMMA Induction ==
  ASSUME NEW S, 0 \in S, \A n \in Nat : n \in S => n + 1 \in S
  PROVE  Nat \subseteq S
<1>1. SUFFICES ASSUME Nat \ S # {} PROVE FALSE
  OBVIOUS
<1>2. PICK x \in Nat \ S : \A y \in Nat \ S : x <= y
  BY <1>1, LeastNumber
<1>3. x - 1 \in Nat
  BY <1>2
<1>4. x - 1 \in S
  BY <1>2, <1>3
<1>5. (x - 1) + 1 = x
  BY <1>2
<1> QED BY <1>2, <1>3, <1>4, <1>5

(* What is so wherever it is so of all that is smaller is so.              *)
LEMMA StrongInduction ==
  ASSUME NEW S, \A n \in Nat : (\A m \in Nat : m < n => m \in S) => n \in S
  PROVE  Nat \subseteq S
<1>1. SUFFICES ASSUME Nat \ S # {} PROVE FALSE
  OBVIOUS
<1>2. PICK x \in Nat \ S : \A y \in Nat \ S : x <= y
  BY <1>1, LeastNumber
<1>3. \A m \in Nat : m < x => m \in S
  BY <1>2
<1> QED BY <1>2, <1>3

-------------------------------------------------------------------------------
(* What the instructions of a program do to a stack.                       *)

Val     == {Number(n) : n \in Int} \cup {MinusZero, Infinity, Neg(Infinity), NaN}
Symbols == {"+", "-", "*", "/"}
OpNames == {"neg"} \cup Symbols \cup DOMAIN Arity
Instrs  == [op : {"const"}, arg : Int] \cup [op : {"load"}, arg : 1..Params]
             \cup [op : OpNames, arg : {0}]
Vectors == [1..Params -> Int]

After(ins, in, st) ==
  CASE ins.op = "const" -> Append(st, Number(ins.arg))
    [] ins.op = "load"  -> Append(st, Number(in[ins.arg]))
    [] OTHER -> LET n == Operands(ins.op)
                IN  Append(SubSeq(st, 1, Len(st) - n), Apply(ins.op, Top(st, n)))

Fits(ins, st) == ins.op \in {"const", "load"} \/ Operands(ins.op) <= Len(st)

(* f has the stacks of a run of the code, from st on.                      *)
Trace(f, code, in, st) ==
  /\ f \in [0..Len(code) -> Seq(Val)]
  /\ f[0] = st
  /\ \A n \in 1..Len(code) : Fits(code[n], f[n - 1]) /\ f[n] = After(code[n], in, f[n - 1])

(* On any stack, the code makes b out of an a on top of it.                *)
Turns(code, in, a, b) ==
  \A st \in Seq(Val) : \E f : Trace(f, code, in, st \o a) /\ f[Len(code)] = st \o b

(* How many operands each operation takes.                                 *)
LEMMA OperandsOfOps ==
  /\ OpNames = {"neg", "+", "-", "*", "/", "abs", "min", "max", "clamp"}
  /\ \A op \in OpNames : Operands(op) \in 1..3 /\ op \notin {"const", "load"}
  /\ Operands("neg") = 1 /\ Operands("abs") = 1 /\ Operands("clamp") = 3
  /\ \A op \in Symbols \cup {"min", "max"} : Operands(op) = 2
BY DEF OpNames, Symbols, Arity, Operands

(* A value is a number, or one of the four that are none.                  *)
LEMMA Numbers ==
  /\ \A n \in Int : Number(n) \in Val
  /\ MinusZero \in Val /\ Infinity \in Val /\ Neg(Infinity) \in Val /\ NaN \in Val
BY DEF Val

LEMMA ValueParts ==
  ASSUME NEW a \in Val
  PROVE  /\ a = <<a[1], a[2]>> /\ a[1] \in Int /\ a[2] \in {-1, 0, 1}
         /\ a[2] = -1 => a[1] = 0
         /\ a[2] = 0 => a[1] \in {-1, 0, 1}
<1>1. CASE \E n \in Int : a = Number(n)
  BY <1>1 DEF Number
<1>2. CASE a \in {MinusZero, Infinity, Neg(Infinity), NaN}
  BY <1>2 DEF MinusZero, Infinity, Neg, NaN
<1> QED BY <1>1, <1>2 DEF Val

(* Computing with values gives values.                                     *)
LEMMA NegIsAValue ==
  ASSUME NEW a \in Val
  PROVE  Neg(a) \in Val
<1>1. ASSUME NEW n \in Int, a = Number(n) PROVE Neg(a) \in Val
  <2>1. CASE n = 0
    <3>1. Neg(a) = MinusZero
      BY <1>1, <2>1 DEF Neg, Number, MinusZero
    <3> QED BY <3>1, Numbers
  <2>2. CASE n # 0
    <3>1. Neg(a) = Number(-n) /\ -n \in Int
      BY <1>1, <2>2 DEF Neg, Number
    <3> QED BY <3>1, Numbers
  <2> QED BY <2>1, <2>2
<1>2. Neg(MinusZero) = Number(0) /\ Neg(NaN) = NaN /\ Neg(Neg(Infinity)) = Infinity
  BY DEF Neg, MinusZero, Number, NaN, Infinity
<1>3. CASE a \in {MinusZero, Infinity, Neg(Infinity), NaN}
  BY <1>2, <1>3, Numbers
<1> QED BY <1>1, <1>3 DEF Val

(* The order of the numbers: what is negative is below zero, and numbers   *)
(* that are plain are all comparable.                                      *)
LEMMA NegativeIsBelow ==
  ASSUME NEW a \in Val, a # MinusZero
  PROVE  Negative(a) <=> Less(a, Number(0))
<1>1. Number(0) = <<0, 1>> /\ MinusZero = <<0, -1>> /\ Infinity = <<1, 0>> /\ NaN = <<0, 0>>
         /\ Neg(Infinity) = <<-1, 0>>
  BY DEF Number, MinusZero, Infinity, NaN, Neg
<1>2. ASSUME NEW n \in Int, a = Number(n) PROVE Negative(a) <=> Less(a, Number(0))
  BY <1>2 DEF Negative, Less, Finite, Number
<1>3. CASE a \in {Infinity, Neg(Infinity), NaN}
  BY <1>1, <1>3 DEF Negative, Less, Finite
<1> QED BY <1>2, <1>3 DEF Val

LEMMA LessIsStrict ==
  ASSUME NEW a \in Val, NEW b \in Val, Less(a, b)
  PROVE  ~Less(b, a)
<1>1. CASE Finite(a) /\ Finite(b)
  <2>1. a[1] \in Int /\ b[1] \in Int /\ a[1] < b[1]
    BY <1>1, ValueParts DEF Less
  <2>2. ~(b[1] < a[1])
    BY <2>1
  <2> QED BY <1>1, <2>2 DEF Less
<1>2. CASE ~(Finite(a) /\ Finite(b))
  <2>1. a # b /\ (a = Neg(Infinity) \/ b = Infinity)
    BY <1>2 DEF Less
  <2>2. Neg(Infinity) # Infinity
    BY DEF Neg, Infinity
  <2> QED BY <1>2, <2>1, <2>2 DEF Less
<1> QED BY <1>1, <1>2

LEMMA PlainOrder ==
  ASSUME NEW a \in Val, NEW b \in Val, Plain(a), Plain(b), ~Less(a, b), ~Less(b, a)
  PROVE  a = b
<1>1. /\ \E n \in Int : a = Number(n) \/ a \in {Infinity, Neg(Infinity)}
      /\ \E n \in Int : b = Number(n) \/ b \in {Infinity, Neg(Infinity)}
  BY DEF Val, Plain
<1>2. NaN # Infinity /\ NaN # Neg(Infinity) /\ ~Finite(Infinity) /\ ~Finite(Neg(Infinity))
  BY DEF Infinity, Neg, NaN, Finite
<1>3. CASE a \in {Infinity, Neg(Infinity)} \/ b \in {Infinity, Neg(Infinity)}
  <2>1. a # NaN /\ b # NaN
    BY DEF Plain
  <2> QED BY <1>2, <1>3, <2>1 DEF Less
<1>4. CASE a \notin {Infinity, Neg(Infinity)} /\ b \notin {Infinity, Neg(Infinity)}
  <2>1. PICK n \in Int, k \in Int : a = Number(n) /\ b = Number(k)
    BY <1>1, <1>4
  <2>2. Finite(a) /\ Finite(b) /\ a[1] = n /\ b[1] = k
    BY <2>1 DEF Finite, Number
  <2>3. n = k
    BY <2>2 DEF Less
  <2> QED BY <2>1, <2>3
<1> QED BY <1>3, <1>4

LEMMA AddedIsAValue ==
  ASSUME NEW a \in Val, NEW b \in Val
  PROVE  Added(a, b) \in Val
<1>1. a[1] + b[1] \in Int
  BY ValueParts
<1>2. Number(a[1] + b[1]) \in Val
  BY <1>1, Numbers
<1> QED BY <1>2, Numbers DEF Added

LEMMA SignedIsAValue ==
  ASSUME NEW negative \in BOOLEAN, NEW p \in Nat, NEW q \in Nat
  PROVE  Signed(negative, p, q) \in Val
<1> DEFINE size == IF q # 0 THEN Number(p \div q) ELSE IF p = 0 THEN NaN ELSE Infinity
<1>1. size \in Val
  <2>1. CASE q # 0
    <3>1. p \div q \in Int
      BY <2>1
    <3> QED BY <2>1, <3>1, Numbers
  <2> QED BY <2>1, Numbers
<1>2. Signed(negative, p, q) = IF negative THEN Neg(size) ELSE size
  BY DEF Signed
<1> HIDE DEF size
<1>3. Neg(size) \in Val
  BY <1>1, NegIsAValue
<1> QED BY <1>1, <1>2, <1>3

LEMMA SizeIsNatural ==
  ASSUME NEW n \in Int, NEW m \in Int
  PROVE  Absolute(n * m) \in Nat
<1>1. n * m \in Int
  OBVIOUS
<1>2. \A k \in Int : Absolute(k) \in Nat
  BY DEF Absolute
<1> QED BY <1>1, <1>2

LEMMA MultipliedIsAValue ==
  ASSUME NEW a \in Val, NEW b \in Val
  PROVE  Multiplied(a, b) \in Val /\ Divided(a, b) \in Val
<1>1. a[1] \in Int /\ a[2] \in Int /\ b[1] \in Int /\ b[2] \in Int
  BY ValueParts
<1>2. /\ Absolute(a[1] * b[1]) \in Nat /\ Absolute(a[2] * b[2]) \in Nat
      /\ Absolute(a[1] * b[2]) \in Nat /\ Absolute(a[2] * b[1]) \in Nat
  BY <1>1, SizeIsNatural
<1>3. Opposite(a, b) \in BOOLEAN
  BY DEF Opposite
<1> QED BY <1>2, <1>3, SignedIsAValue DEF Multiplied, Divided

(* An operation has a value, for values.                                   *)
LEMMA ApplyIsAValue ==
  ASSUME NEW op \in OpNames, NEW a \in Seq(Val), Len(a) = Operands(op)
  PROVE  Apply(op, a) \in Val
<1>1. a[1] \in Val /\ (Operands(op) \in {2, 3} => a[2] \in Val) /\ (Operands(op) = 3 => a[3] \in Val)
  BY OperandsOfOps
<1>2. Neg(a[1]) \in Val
  BY <1>1, NegIsAValue
<1>3. CASE op \in {"neg", "abs"}
  BY <1>1, <1>2, <1>3 DEF Apply, Arithmetic
<1>4. CASE op \in Symbols
  <2>1. a[1] \in Val /\ a[2] \in Val
    BY <1>1, <1>4, OperandsOfOps
  <2>2. /\ Added(a[1], a[2]) \in Val /\ Added(a[1], Neg(a[2])) \in Val
        /\ Multiplied(a[1], a[2]) \in Val /\ Divided(a[1], a[2]) \in Val
    BY <2>1, NegIsAValue, AddedIsAValue, MultipliedIsAValue
  <2> QED BY <1>4, <2>2 DEF Apply, Arithmetic, Symbols
<1>5. CASE op \in {"min", "max"}
  BY <1>1, <1>5, OperandsOfOps DEF Apply
<1>6. CASE op = "clamp"
  BY <1>1, <1>6, OperandsOfOps DEF Apply
<1> QED BY <1>3, <1>4, <1>5, <1>6, OperandsOfOps DEF Symbols

(* What is put on a stack is on top of it, with the stack below.           *)
LEMMA TopOfConcat ==
  ASSUME NEW st \in Seq(Val), NEW a \in Seq(Val), NEW n \in 1..3, Len(a) = n
  PROVE  /\ Top(st \o a, n) = a /\ SubSeq(st \o a, 1, Len(st \o a) - n) = st
         /\ st \o a \in Seq(Val) /\ Len(st \o a) = Len(st) + n /\ Len(st) \in Nat
<1>1. Len(st) \in Nat /\ st \o a \in Seq(Val) /\ Len(st \o a) = Len(st) + n
  BY ConcatProperties, LenProperties
<1>2. SubSeq(st \o a, 1, Len(st)) = st
  <2>1. CASE Len(st) = 0
    BY <2>1, <1>1, SubSeqEmpty, EmptySeq
  <2>2. CASE Len(st) # 0
    <3>1. 1 \in 1..Len(st) /\ Len(st) \in 1..Len(st)
      BY <1>1, <2>2
    <3> QED BY <3>1, SubSeqOfConcat1, SubSeqFull
  <2> QED BY <2>1, <2>2
<1>3. SubSeq(st \o a, Len(st) + 1, Len(st) + Len(a)) = a
  <2>1. Len(st) + 1 \in (Len(st) + 1)..(Len(st) + Len(a))
           /\ Len(st) + Len(a) \in (Len(st) + 1)..(Len(st) + Len(a))
    BY <1>1
  <2>2. (Len(st) + 1) - Len(st) = 1 /\ (Len(st) + Len(a)) - Len(st) = Len(a)
    BY <1>1
  <2> QED BY <2>1, <2>2, SubSeqOfConcat2, SubSeqFull
<1>4. Len(st \o a) - n = Len(st)
  BY <1>1
<1> QED BY <1>1, <1>2, <1>3, <1>4 DEF Top

LEMMA TopIsASeq ==
  ASSUME NEW st \in Seq(Val), NEW n \in 1..3, n <= Len(st)
  PROVE  Top(st, n) \in Seq(Val) /\ Len(Top(st, n)) = n
<1>1. PICK h \in Nat : h = Len(st)
  BY LenProperties
<1>2. h - n + 1 \in 1..h /\ h - (h - n + 1) + 1 = n
  BY <1>1
<1> QED BY <1>1, <1>2, SubSeqProperties DEF Top

(* The operands are on top, and their result comes there in their stead.   *)
LEMMA OpAfter ==
  ASSUME NEW op \in OpNames, NEW in, NEW st \in Seq(Val), NEW a \in Seq(Val), Len(a) = Operands(op)
  PROVE  /\ After(Instr(op, 0), in, st \o a) = st \o <<Apply(op, a)>>
         /\ Fits(Instr(op, 0), st \o a)
<1>1. Operands(op) \in 1..3 /\ op \notin {"const", "load"}
  BY OperandsOfOps
<1>2. /\ Top(st \o a, Operands(op)) = a /\ SubSeq(st \o a, 1, Len(st \o a) - Operands(op)) = st
      /\ Len(st \o a) = Len(st) + Operands(op) /\ Len(st) \in Nat
  BY <1>1, TopOfConcat
<1>3. After(Instr(op, 0), in, st \o a) = Append(st, Apply(op, a))
  BY <1>1, <1>2 DEF After, Instr
<1>4. Append(st, Apply(op, a)) = st \o <<Apply(op, a)>>
  BY AppendIsConcat, ApplyIsAValue
<1>5. Fits(Instr(op, 0), st \o a)
  BY <1>1, <1>2 DEF Fits, Instr
<1> QED BY <1>3, <1>4, <1>5

(* A name and a number push one value each.                                *)
LEMMA LoadAfter ==
  ASSUME NEW in \in Vectors, NEW k \in 1..Params, NEW st \in Seq(Val)
  PROVE  After(Instr("load", k), in, st) = st \o <<Number(in[k])>> /\ Fits(Instr("load", k), st)
<1>1. Number(in[k]) \in Val
  BY Numbers DEF Vectors
<1>2. After(Instr("load", k), in, st) = Append(st, Number(in[k]))
  BY DEF After, Instr
<1> QED BY <1>1, <1>2, AppendIsConcat DEF Fits, Instr

LEMMA ConstAfter ==
  ASSUME NEW in, NEW k \in Int, NEW st \in Seq(Val)
  PROVE  After(Instr("const", k), in, st) = st \o <<Number(k)>> /\ Fits(Instr("const", k), st)
<1>1. Number(k) \in Val
  BY Numbers
<1>2. After(Instr("const", k), in, st) = Append(st, Number(k))
  BY DEF After, Instr
<1> QED BY <1>1, <1>2, AppendIsConcat DEF Fits, Instr

(* One instruction is its own trace.                                       *)
LEMMA OneTurns ==
  ASSUME NEW ins, NEW in, NEW a \in Seq(Val), NEW b \in Seq(Val),
         \A st \in Seq(Val) : After(ins, in, st \o a) = st \o b /\ Fits(ins, st \o a)
  PROVE  Turns(<<ins>>, in, a, b)
<1> SUFFICES ASSUME NEW st \in Seq(Val)
             PROVE  \E f : Trace(f, <<ins>>, in, st \o a) /\ f[Len(<<ins>>)] = st \o b
  BY DEF Turns
<1> DEFINE f == [n \in 0..1 |-> IF n = 0 THEN st \o a ELSE st \o b]
<1>1. st \o a \in Seq(Val) /\ st \o b \in Seq(Val)
  BY ConcatProperties
<1>2. f \in [0..1 -> Seq(Val)] /\ f[0] = st \o a /\ f[1] = st \o b
  BY <1>1
<1> HIDE DEF f
<1>3. Len(<<ins>>) = 1 /\ <<ins>>[1] = ins
  OBVIOUS
<1>4. \A n \in 1..1 : Fits(<<ins>>[n], f[n - 1]) /\ f[n] = After(<<ins>>[n], in, f[n - 1])
  <2>1. \A n \in 1..1 : n = 1 /\ n - 1 = 0
    OBVIOUS
  <2> QED BY <2>1, <1>2, <1>3
<1>5. Trace(f, <<ins>>, in, st \o a)
  BY <1>2, <1>3, <1>4 DEF Trace
<1> QED BY <1>2, <1>3, <1>5

(* No code makes nothing of anything.                                      *)
LEMMA NoneTurns ==
  ASSUME NEW in, NEW a \in Seq(Val)
  PROVE  Turns(<<>>, in, a, a)
<1> SUFFICES ASSUME NEW st \in Seq(Val)
             PROVE  \E f : Trace(f, <<>>, in, st \o a) /\ f[Len(<<>>)] = st \o a
  BY DEF Turns
<1>1. st \o a \in Seq(Val)
  BY ConcatProperties
<1> DEFINE f == [n \in 0..0 |-> st \o a]
<1>2. f \in [0..0 -> Seq(Val)] /\ f[0] = st \o a
  BY <1>1
<1> HIDE DEF f
<1>3. Len(<<>>) = 0
  OBVIOUS
<1>4. Trace(f, <<>>, in, st \o a)
  BY <1>2, <1>3 DEF Trace
<1> QED BY <1>2, <1>3, <1>4

(* Two codes, one after the other, are a code.                             *)
LEMMA ThenTurns ==
  ASSUME NEW c \in Seq(Instrs), NEW d \in Seq(Instrs), NEW in,
         NEW a, NEW b, NEW e, Turns(c, in, a, b), Turns(d, in, b, e)
  PROVE  Turns(c \o d, in, a, e)
<1> SUFFICES ASSUME NEW st \in Seq(Val)
             PROVE  \E f : Trace(f, c \o d, in, st \o a) /\ f[Len(c \o d)] = st \o e
  BY DEF Turns
<1>1. PICK f : Trace(f, c, in, st \o a) /\ f[Len(c)] = st \o b
  BY DEF Turns
<1>2. PICK g : Trace(g, d, in, st \o b) /\ g[Len(d)] = st \o e
  BY DEF Turns
<1>3. PICK m \in Nat : m = Len(c)
  BY LenProperties
<1>4. PICK n \in Nat : n = Len(d)
  BY LenProperties
<1>5. Len(c \o d) = m + n /\ \A i \in 1..(m + n) : (c \o d)[i] = IF i <= m THEN c[i] ELSE d[i - m]
  BY <1>3, <1>4, ConcatProperties
<1> DEFINE h == [i \in 0..(m + n) |-> IF i <= m THEN f[i] ELSE g[i - m]]
<1>6. /\ f \in [0..m -> Seq(Val)] /\ f[0] = st \o a /\ f[m] = st \o b
      /\ \A i \in 1..m : Fits(c[i], f[i - 1]) /\ f[i] = After(c[i], in, f[i - 1])
  BY <1>1, <1>3 DEF Trace
<1>7. /\ g \in [0..n -> Seq(Val)] /\ g[0] = st \o b /\ g[n] = st \o e
      /\ \A i \in 1..n : Fits(d[i], g[i - 1]) /\ g[i] = After(d[i], in, g[i - 1])
  BY <1>2, <1>4 DEF Trace
<1>8. /\ \A i \in 0..m : h[i] = f[i]
      /\ \A i \in m..(m + n) : h[i] = g[i - m]
  <2>1. \A i \in 0..m : h[i] = f[i]
    OBVIOUS
  <2>2. ASSUME NEW i \in m..(m + n) PROVE h[i] = g[i - m]
    <3>1. CASE i = m
      <4>1. i \in 0..m /\ i - m = 0
        BY <3>1
      <4> QED BY <4>1, <3>1, <2>1, <1>6, <1>7
    <3>2. CASE i > m
      BY <3>2
    <3> QED BY <3>1, <3>2
  <2> QED BY <2>1, <2>2
<1>9. h \in [0..(m + n) -> Seq(Val)]
  <2>1. ASSUME NEW i \in 0..(m + n) PROVE (IF i <= m THEN f[i] ELSE g[i - m]) \in Seq(Val)
    <3>1. CASE i <= m
      <4>1. i \in 0..m
        BY <3>1
      <4> QED BY <4>1, <3>1, <1>6
    <3>2. CASE ~(i <= m)
      <4>1. i - m \in 0..n
        BY <3>2
      <4> QED BY <4>1, <3>2, <1>7
    <3> QED BY <3>1, <3>2
  <2> QED BY <2>1
<1> HIDE DEF h
<1>10. ASSUME NEW i \in 1..(m + n)
       PROVE  Fits((c \o d)[i], h[i - 1]) /\ h[i] = After((c \o d)[i], in, h[i - 1])
  <2>1. CASE i <= m
    <3>1. i \in 1..m /\ i \in 0..m /\ i - 1 \in 0..m
      BY <2>1
    <3>2. (c \o d)[i] = c[i] /\ h[i] = f[i] /\ h[i - 1] = f[i - 1]
      BY <3>1, <2>1, <1>5, <1>8
    <3> QED BY <3>1, <3>2, <1>6
  <2>2. CASE ~(i <= m)
    <3>1. i \in m..(m + n) /\ i - 1 \in m..(m + n) /\ i - m \in 1..n /\ (i - 1) - m = (i - m) - 1
      BY <2>2
    <3>2. (c \o d)[i] = d[i - m] /\ h[i] = g[i - m] /\ h[i - 1] = g[(i - m) - 1]
      BY <3>1, <2>2, <1>5, <1>8
    <3> QED BY <3>1, <3>2, <1>7
  <2> QED BY <2>1, <2>2
<1>11. h[0] = st \o a /\ h[m + n] = st \o e
  <2>1. 0 \in 0..m /\ m + n \in m..(m + n) /\ (m + n) - m = n
    OBVIOUS
  <2> QED BY <2>1, <1>6, <1>7, <1>8
<1>12. Trace(h, c \o d, in, st \o a)
  BY <1>5, <1>9, <1>10, <1>11 DEF Trace
<1> QED BY <1>5, <1>11, <1>12

(* What lies under an a lies under what is made of it.                     *)
LEMMA UnderTurns ==
  ASSUME NEW c, NEW in, NEW a \in Seq(Val), NEW b \in Seq(Val), NEW x \in Seq(Val),
         Turns(c, in, a, b)
  PROVE  Turns(c, in, x \o a, x \o b)
<1> SUFFICES ASSUME NEW st \in Seq(Val)
             PROVE  \E f : Trace(f, c, in, st \o (x \o a)) /\ f[Len(c)] = st \o (x \o b)
  BY DEF Turns
<1>1. st \o x \in Seq(Val)
  BY ConcatProperties
<1>2. PICK f : Trace(f, c, in, (st \o x) \o a) /\ f[Len(c)] = (st \o x) \o b
  BY <1>1 DEF Turns
<1>3. (st \o x) \o a = st \o (x \o a)
  BY ConcatAssociative
<1>4. (st \o x) \o b = st \o (x \o b)
  BY ConcatAssociative
<1> QED BY <1>2, <1>3, <1>4

(* A stack has one trace.                                                  *)
LEMMA TraceIsOne ==
  ASSUME NEW c, NEW in, NEW st, NEW f, NEW g, Trace(f, c, in, st), Trace(g, c, in, st),
         Len(c) \in Nat
  PROVE  f[Len(c)] = g[Len(c)]
<1> DEFINE S == {n \in Nat : n <= Len(c) => f[n] = g[n]}
<1>1. 0 \in S
  BY DEF Trace
<1>2. ASSUME NEW n \in Nat, n \in S PROVE n + 1 \in S
  <2>1. SUFFICES ASSUME n + 1 <= Len(c) PROVE f[n + 1] = g[n + 1]
    OBVIOUS
  <2>2. n + 1 \in 1..Len(c) /\ (n + 1) - 1 = n /\ f[n] = g[n]
    BY <1>2, <2>1
  <2>3. f[n + 1] = After(c[n + 1], in, f[n]) /\ g[n + 1] = After(c[n + 1], in, g[n])
    BY <2>2 DEF Trace
  <2> QED BY <2>2, <2>3
<1> HIDE DEF S
<1>3. Nat \subseteq S
  BY <1>1, <1>2, Induction
<1> QED BY <1>3 DEF S

(* A code makes one thing of another, and nothing else.                    *)
LEMMA TurnsOnce ==
  ASSUME NEW c, NEW in, NEW a, NEW v, NEW w, Len(c) \in Nat, 
         <<v>> \in Seq(Val), <<w>> \in Seq(Val),
         Turns(c, in, a, <<v>>), Turns(c, in, a, <<w>>)
  PROVE  v = w
<1>1. <<>> \in Seq(Val)
  BY EmptySeq
<1>2. PICK f : Trace(f, c, in, <<>> \o a) /\ f[Len(c)] = <<>> \o <<v>>
  BY <1>1 DEF Turns
<1>3. PICK g : Trace(g, c, in, <<>> \o a) /\ g[Len(c)] = <<>> \o <<w>>
  BY <1>1 DEF Turns
<1>4. <<>> \o <<v>> = <<>> \o <<w>>
  BY <1>2, <1>3, TraceIsOne
<1>5. <<v>> = <<w>>
  BY <1>4, ConcatEmptySeq
<1>6. <<v>>[1] = v /\ <<w>>[1] = w
  OBVIOUS
<1> QED BY <1>5, <1>6

-------------------------------------------------------------------------------
(* The interpreter on a code that turns an empty stack into one value.     *)

(* f has the machines of a run of the interpreter, up to m.               *)
Runs(f, code, in, lim, m) ==
  f = [k \in 0..m |-> IF k = 0 THEN Machine
                      ELSE Exec(f[k - 1], code[k], in, lim)]

(* A run of the interpreter can be continued by one more instruction.      *)
LEMMA RunsExist ==
  ASSUME NEW code, NEW in, NEW lim, NEW m \in Nat
  PROVE  \E f : Runs(f, code, in, lim, m)
<1>. DEFINE S == {n \in Nat : \E f : Runs(f, code, in, lim, n)}
<1>1. 0 \in S
  <2>1. Runs([n \in 0..0 |-> Machine], code, in, lim, 0)
    BY DEF Runs
  <2> QED BY <2>1
<1>2. ASSUME NEW n \in Nat, n \in S PROVE n + 1 \in S
  <2>1. PICK f : Runs(f, code, in, lim, n)
    BY <1>2
  <2>. DEFINE g == [k \in 0..(n + 1) |->
                 IF k = n + 1 THEN Exec(f[n], code[n + 1], in, lim) ELSE f[k]]
  <2>2. ASSUME NEW k \in 0..(n + 1)
        PROVE  g[k] = IF k = 0 THEN Machine ELSE Exec(g[k - 1], code[k], in, lim)
    <3>1. CASE k = n + 1
      <4>1. k # 0 /\ k - 1 = n /\ g[k - 1] = f[n]
        BY <3>1
      <4> QED BY <3>1, <4>1
    <3>2. CASE k # n + 1
      <4>1. k \in 0..n /\ g[k] = f[k]
        BY <3>2
      <4>2. f[k] = IF k = 0 THEN Machine ELSE Exec(f[k - 1], code[k], in, lim)
        BY <2>1, <4>1 DEF Runs
      <4>3. k # 0 => g[k - 1] = f[k - 1]
        BY <4>1
      <4> QED BY <4>1, <4>2, <4>3
    <3> QED BY <3>1, <3>2
  <2>3. Runs(g, code, in, lim, n + 1)
    BY <2>2 DEF Runs
  <2> QED BY <2>3
<1>3. Nat \subseteq S
  <2> HIDE DEF S
  <2> QED BY <1>1, <1>2, Induction
<1> QED BY <1>3

(* The height an instruction leaves, and f has those of a code, up to m.   *)
Higher(h, ins) == IF ins.op \in {"const", "load"} THEN h + 1 ELSE h + 1 - Operands(ins.op)
Grows(f, code, m) ==
  f = [k \in 0..m |-> IF k = 0 THEN 0
                      ELSE Higher(f[k - 1], code[k])]

(* So can the heights of a code.                                           *)
LEMMA GrowsExist ==
  ASSUME NEW code, NEW m \in Nat
  PROVE  \E f : Grows(f, code, m)
<1>. DEFINE S == {n \in Nat : \E f : Grows(f, code, n)}
<1>1. 0 \in S
  <2>1. Grows([n \in 0..0 |-> 0], code, 0)
    BY DEF Grows
  <2> QED BY <2>1
<1>2. ASSUME NEW n \in Nat, n \in S PROVE n + 1 \in S
  <2>1. PICK f : Grows(f, code, n)
    BY <1>2
  <2>. DEFINE g == [k \in 0..(n + 1) |->
                 IF k = n + 1 THEN Higher(f[n], code[n + 1]) ELSE f[k]]
  <2>2. ASSUME NEW k \in 0..(n + 1)
        PROVE  g[k] = IF k = 0 THEN 0 ELSE Higher(g[k - 1], code[k])
    <3>1. CASE k = n + 1
      <4>1. k # 0 /\ k - 1 = n /\ g[k - 1] = f[n]
        BY <3>1
      <4> QED BY <3>1, <4>1
    <3>2. CASE k # n + 1
      <4>1. k \in 0..n /\ g[k] = f[k]
        BY <3>2
      <4>2. f[k] = IF k = 0 THEN 0 ELSE Higher(f[k - 1], code[k])
        BY <2>1, <4>1 DEF Grows
      <4>3. k # 0 => g[k - 1] = f[k - 1]
        BY <4>1
      <4> QED BY <4>1, <4>2, <4>3
    <3> QED BY <3>1, <3>2
  <2>3. Grows(g, code, n + 1)
    BY <2>2 DEF Grows
  <2> QED BY <2>3
<1>3. Nat \subseteq S
  <2> HIDE DEF S
  <2> QED BY <1>1, <1>2, Induction
<1> QED BY <1>3

(* The machines and the heights of the model are such a run.               *)
LEMMA MachinesRun ==
  ASSUME NEW code, NEW in, NEW lim, Len(code) \in Nat
  PROVE  Runs(Machines(code, in, lim), code, in, lim, Len(code))
<1>1. \E f : Runs(f, code, in, lim, Len(code))
  BY RunsExist
<1> QED BY <1>1 DEF Machines, Runs

LEMMA HeightsGrow ==
  ASSUME NEW code, Len(code) \in Nat
  PROVE  Grows(Heights(code), code, Len(code))
<1>1. \E f : Grows(f, code, Len(code))
  BY GrowsExist
<1> QED BY <1>1 DEF Heights, Grows, Higher

(* The stack is as high as the code says.                                  *)
LEMMA AfterHeight ==
  ASSUME NEW ins \in Instrs, NEW in, NEW st \in Seq(Val), Fits(ins, st)
  PROVE  Len(After(ins, in, st)) =
           IF ins.op \in {"const", "load"} THEN Len(st) + 1 ELSE Len(st) + 1 - Operands(ins.op)
<1>1. CASE ins.op \in {"const", "load"}
  BY <1>1 DEF After
<1>2. CASE ins.op \notin {"const", "load"}
  <2>1. ins.op \in OpNames
    BY <1>2 DEF Instrs
  <2>2. PICK n \in 1..3 : n = Operands(ins.op)
    BY <2>1, OperandsOfOps
  <2>3. PICK h \in Nat : h = Len(st)
    BY LenProperties
  <2>4. h - n \in Nat
    BY <1>2, <2>2, <2>3 DEF Fits
  <2>5. \A i \in 1..(h - n) : st[i] \in Val
    BY <2>2, <2>3, <2>4, ElementOfSeq
  <2>6. Len(SubSeq(st, 1, h - n)) = h - n /\ SubSeq(st, 1, h - n) \in Seq(Val)
    <3>1. h - n \in Int /\ 1 \in Int /\ (IF 1 <= h - n THEN (h - n) - 1 + 1 ELSE 0) = h - n
      BY <2>4
    <3> QED BY <2>5, <3>1, SubSeqProperties
  <2>7. After(ins, in, st) = Append(SubSeq(st, 1, h - n), Apply(ins.op, Top(st, n)))
    BY <1>2, <2>2, <2>3 DEF After
  <2>8. \A x, e : x \in Seq(Val) => Len(Append(x, e)) = Len(x) + 1
    OBVIOUS
  <2>9. Len(After(ins, in, st)) = (h - n) + 1
    BY <2>6, <2>7, <2>8
  <2> QED BY <1>2, <2>2, <2>3, <2>9
<1> QED BY <1>1, <1>2

(* The stacks of a trace are as high as the code says.                     *)
LEMMA TraceHeights ==
  ASSUME NEW code \in Seq(Instrs), NEW in, NEW f, Trace(f, code, in, <<>>),
         NEW k \in 0..Len(code)
  PROVE  Len(f[k]) = Heights(code)[k]
<1> DEFINE S == {n \in Nat : n <= Len(code) => Len(f[n]) = Heights(code)[n]}
<1>1. Len(code) \in Nat /\ \A n \in 1..Len(code) : code[n] \in Instrs
  BY LenProperties, ElementOfSeq
<1>2. PICK h : h = Heights(code)
  OBVIOUS
<1>3. h = [n \in 0..Len(code) |-> IF n = 0 THEN 0
             ELSE (IF code[n].op \in {"const", "load"} THEN h[n - 1] + 1
                   ELSE h[n - 1] + 1 - Operands(code[n].op))]
  BY <1>1, <1>2, HeightsGrow DEF Grows, Higher
<1>4. 0 \in S
  <2>1. f[0] = <<>> /\ Len(<<>>) = 0
    BY DEF Trace
  <2>2. h[0] = 0
    BY <1>1, <1>3
  <2> QED BY <1>2, <2>1, <2>2
<1>5. ASSUME NEW n \in Nat, n \in S PROVE n + 1 \in S
  <2>1. SUFFICES ASSUME n + 1 <= Len(code) PROVE Len(f[n + 1]) = h[n + 1]
    BY <1>2
  <2>2. n + 1 \in 1..Len(code) /\ n + 1 \in 0..Len(code) /\ n \in 0..Len(code) /\ (n + 1) - 1 = n
    BY <2>1, <1>1
  <2>3. Len(f[n]) = h[n]
    BY <1>2, <1>5, <2>2
  <2>4. Fits(code[n + 1], f[n]) /\ f[n + 1] = After(code[n + 1], in, f[n]) /\ f[n] \in Seq(Val)
    BY <2>2 DEF Trace
  <2>5. code[n + 1] \in Instrs
    BY <1>1, <2>2
  <2>6. Len(f[n + 1]) = IF code[n + 1].op \in {"const", "load"} THEN h[n] + 1
                        ELSE h[n] + 1 - Operands(code[n + 1].op)
    BY <2>3, <2>4, <2>5, AfterHeight
  <2>7. h[n + 1] = IF code[n + 1].op \in {"const", "load"} THEN h[n] + 1
                   ELSE h[n] + 1 - Operands(code[n + 1].op)
    BY <1>3, <2>2
  <2> QED BY <2>6, <2>7
<1> HIDE DEF S
<1>6. Nat \subseteq S
  BY <1>4, <1>5, Induction
<1> QED BY <1>1, <1>6 DEF S

MachineAt(k, st) == [status |-> "running", ops |-> k, stack |-> st]
Limits(o, d)     == [ops |-> o, stack |-> d]

(* The machine, with another stack, with one value more.                   *)
LEMMA WithStack ==
  ASSUME NEW k, NEW st, NEW x
  PROVE  [MachineAt(k, st) EXCEPT !.stack = x] = MachineAt(k, x)
BY DEF MachineAt

LEMMA PushAt ==
  ASSUME NEW k, NEW st \in Seq(Val), NEW v, NEW d \in Nat
  PROVE  IF Len(st) < d THEN Push(MachineAt(k, st), v, d) = MachineAt(k, Append(st, v))
         ELSE Push(MachineAt(k, st), v, d).status = "overflow"
<1>1. MachineAt(k, st).stack = st
  BY DEF MachineAt
<1>2. PICK h \in Nat : h = Len(st)
  BY LenProperties
<1>3. CASE h < d
  <2>1. Push(MachineAt(k, st), v, d) = [MachineAt(k, st) EXCEPT !.stack = Append(st, v)]
    BY <1>1, <1>2, <1>3 DEF Push
  <2> QED BY <1>2, <1>3, <2>1, WithStack
<1>4. CASE ~(h < d)
  <2>1. Push(MachineAt(k, st), v, d) = Refuse(MachineAt(k, st), "overflow")
    BY <1>1, <1>2, <1>4 DEF Push
  <2> QED BY <1>2, <1>4, <2>1 DEF Refuse, MachineAt
<1> QED BY <1>3, <1>4

LEMMA ReduceAt ==
  ASSUME NEW k, NEW st \in Seq(Val), NEW n \in Nat, n <= Len(st), NEW v
  PROVE  Reduce(MachineAt(k, st), n, v) = MachineAt(k, Append(SubSeq(st, 1, Len(st) - n), v))
<1>1. MachineAt(k, st).stack = st
  BY DEF MachineAt
<1>2. ~(Len(st) < n)
  <2>1. Len(st) \in Nat
    BY LenProperties
  <2> QED BY <2>1
<1>3. Reduce(MachineAt(k, st), n, v) =
        [MachineAt(k, st) EXCEPT !.stack = Append(SubSeq(st, 1, Len(st) - n), v)]
  BY <1>1, <1>2 DEF Reduce
<1> QED BY <1>3, WithStack

(* One instruction that fits its stack is carried out, or is one too many, *)
(* or pushes one too much.                                                 *)
LEMMA ExecFollows ==
  ASSUME NEW ins \in Instrs, NEW in \in Vectors, NEW st \in Seq(Val), Fits(ins, st),
         NEW k \in Nat, NEW o \in Nat, NEW d \in Nat
  PROVE  IF k + 1 <= o /\ (ins.op \in {"const", "load"} => Len(st) < d)
         THEN Exec(MachineAt(k, st), ins, in, Limits(o, d)) = MachineAt(k + 1, After(ins, in, st))
         ELSE Exec(MachineAt(k, st), ins, in, Limits(o, d)).status \in {"budget", "overflow"}
<1>1. Len(st) \in Nat
  BY LenProperties
<1>2. CASE ~(k + 1 <= o)
  BY <1>2 DEF Exec, MachineAt, Limits, Refuse
<1>3. CASE k + 1 <= o
  <2>1. Exec(MachineAt(k, st), ins, in, Limits(o, d)) =
          Carried(MachineAt(k + 1, st), ins, in, Limits(o, d))
    BY <1>3 DEF Exec, MachineAt, Limits
  <2>2. CASE ins.op = "const"
    <3>1. Carried(MachineAt(k + 1, st), ins, in, Limits(o, d)) =
            Push(MachineAt(k + 1, st), Number(ins.arg), d)
      BY <2>2 DEF Carried, Limits
    <3>2. After(ins, in, st) = Append(st, Number(ins.arg))
      BY <2>2 DEF After
    <3> QED BY <1>3, <2>1, <2>2, <3>1, <3>2, PushAt
  <2>3. CASE ins.op = "load"
    <3>1. ins.arg \in 1..Params /\ Len(in) = Params
      BY <2>3, OperandsOfOps DEF Instrs, Vectors, Params
    <3>2. ~(ins.arg > Len(in))
      BY <3>1 DEF Params
    <3>3. Carried(MachineAt(k + 1, st), ins, in, Limits(o, d)) =
            Push(MachineAt(k + 1, st), Number(in[ins.arg]), d)
      BY <2>3, <3>2 DEF Carried, Limits
    <3>4. After(ins, in, st) = Append(st, Number(in[ins.arg]))
      BY <2>3 DEF After
    <3> QED BY <1>3, <2>1, <2>3, <3>3, <3>4, PushAt
  <2>4. CASE ins.op \notin {"const", "load"}
    <3>1. PICK n : n = Operands(ins.op)
      OBVIOUS
    <3>2. n \in 1..3 /\ n <= Len(st)
      BY <2>4, <3>1, OperandsOfOps DEF Instrs, Fits
    <3>3. PICK v : v = Apply(ins.op, Top(st, n))
      OBVIOUS
    <3>4. Carried(MachineAt(k + 1, st), ins, in, Limits(o, d)) = Reduce(MachineAt(k + 1, st), n, v)
      <4>1. MachineAt(k + 1, st).stack = st
        BY DEF MachineAt
      <4> QED BY <2>4, <3>1, <3>3, <4>1 DEF Carried
    <3>5. After(ins, in, st) = Append(SubSeq(st, 1, Len(st) - n), v)
      BY <2>4, <3>1, <3>3 DEF After
    <3>6. Reduce(MachineAt(k + 1, st), n, v) = MachineAt(k + 1, Append(SubSeq(st, 1, Len(st) - n), v))
      BY <1>1, <3>2, ReduceAt
    <3> QED BY <1>3, <2>1, <2>4, <3>4, <3>5, <3>6
  <2> QED BY <2>2, <2>3, <2>4
<1> QED BY <1>2, <1>3

(* The first k instructions stay within the limits.                        *)
Within(f, k, o, d) == k <= o /\ \A j \in 1..k : Len(f[j]) <= d

(* As long as the limits let it, the interpreter has the stacks of the     *)
(* trace; once they do not, it has given up.                               *)
LEMMA MachineFollows ==
  ASSUME NEW code \in Seq(Instrs), NEW in \in Vectors, NEW o \in Nat, NEW d \in Nat,
         NEW f, Trace(f, code, in, <<>>), NEW k \in 0..Len(code)
  PROVE  IF Within(f, k, o, d) THEN Machines(code, in, Limits(o, d))[k] = MachineAt(k, f[k])
         ELSE Machines(code, in, Limits(o, d))[k].status \in {"budget", "overflow"}
<1>1. Len(code) \in Nat /\ \A n \in 1..Len(code) : code[n] \in Instrs
  BY LenProperties, ElementOfSeq
<1>2. PICK m : m = Machines(code, in, Limits(o, d))
  OBVIOUS
<1>3. m = [n \in 0..Len(code) |-> IF n = 0 THEN Machine ELSE Exec(m[n - 1], code[n], in, Limits(o, d))]
  BY <1>1, <1>2, MachinesRun DEF Runs
<1> DEFINE Follows(n) == IF Within(f, n, o, d) THEN m[n] = MachineAt(n, f[n])
                         ELSE m[n].status \in {"budget", "overflow"}
           S == {n \in Nat : n <= Len(code) => Follows(n)}
<1>4. 0 \in S
  <2>1. f[0] = <<>> /\ m[0] = Machine
    BY <1>1, <1>3 DEF Trace
  <2>2. Within(f, 0, o, d)
    BY DEF Within
  <2> QED BY <2>1, <2>2 DEF Machine, MachineAt
<1>5. ASSUME NEW n \in Nat, n \in S PROVE n + 1 \in S
  <2>1. SUFFICES ASSUME n + 1 <= Len(code) PROVE Follows(n + 1)
    OBVIOUS
  <2>2. n + 1 \in 1..Len(code) /\ n + 1 \in 0..Len(code) /\ n \in 0..Len(code) /\ (n + 1) - 1 = n
    BY <2>1, <1>1
  <2>3. PICK ins \in Instrs : ins = code[n + 1]
    BY <1>1, <2>2
  <2>4. m[n + 1] = Exec(m[n], ins, in, Limits(o, d))
    BY <1>3, <2>2, <2>3
  <2>5. Fits(ins, f[n]) /\ f[n + 1] = After(ins, in, f[n]) /\ f[n] \in Seq(Val)
    BY <2>2, <2>3 DEF Trace
  <2>6. Follows(n)
    BY <1>5, <2>2
  <2>7. Within(f, n + 1, o, d) <=> Within(f, n, o, d) /\ n + 1 <= o /\ Len(f[n + 1]) <= d
    BY DEF Within
  <2> HIDE DEF S
  <2>8. CASE ~Within(f, n, o, d)
    <3>1. m[n].status \in {"budget", "overflow"}
      BY <2>6, <2>8
    <3>2. m[n + 1] = m[n]
      BY <2>4, <3>1 DEF Exec
    <3> QED BY <2>7, <2>8, <3>1, <3>2
  <2>9. CASE Within(f, n, o, d)
    <3>1. m[n] = MachineAt(n, f[n])
      BY <2>6, <2>9
    <3>2. PICK h \in Nat : h = Len(f[n])
      BY <2>5, LenProperties
    <3>3. h <= d
      <4>1. CASE n = 0
        <5>1. f[0] = <<>>
          BY DEF Trace
        <5> QED BY <3>2, <4>1, <5>1
      <4>2. CASE n # 0
        BY <3>2, <2>9, <4>2 DEF Within
      <4> QED BY <4>1, <4>2
    <3>4. Len(f[n + 1]) <= d <=> (ins.op \in {"const", "load"} => h < d)
      <4>1. Len(f[n + 1]) = IF ins.op \in {"const", "load"} THEN h + 1 ELSE h + 1 - Operands(ins.op)
        BY <2>5, <3>2, AfterHeight
      <4>2. ins.op \notin {"const", "load"} => Operands(ins.op) \in 1..3
        BY OperandsOfOps DEF Instrs
      <4> QED BY <3>2, <3>3, <4>1, <4>2
    <3>5. IF n + 1 <= o /\ (ins.op \in {"const", "load"} => h < d)
          THEN Exec(MachineAt(n, f[n]), ins, in, Limits(o, d)) = MachineAt(n + 1, f[n + 1])
          ELSE Exec(MachineAt(n, f[n]), ins, in, Limits(o, d)).status \in {"budget", "overflow"}
      BY <2>5, <3>2, ExecFollows
    <3> QED BY <2>4, <2>7, <2>9, <3>1, <3>4, <3>5
  <2> QED BY <2>8, <2>9
<1> HIDE DEF S
<1>6. Nat \subseteq S
  BY <1>4, <1>5, Induction
<1>7. Follows(k)
  <2>1. k \in Nat /\ k <= Len(code)
    BY <1>1
  <2> QED BY <1>6, <2>1 DEF S
<1> QED BY <1>2, <1>7

(* A code that makes one value of nothing is answered with that value, if  *)
(* the limits let it.                                                      *)
LEMMA EvalFollows ==
  ASSUME NEW code \in Seq(Instrs), NEW in \in Vectors, NEW o \in Nat, NEW d \in Nat,
         NEW f, NEW v, Trace(f, code, in, <<>>), f[Len(code)] = <<v>>
  PROVE  IF Within(f, Len(code), o, d)
         THEN EvalChannel(code, in, Limits(o, d)) =
                [status |-> "ok", ops |-> Len(code), stack |-> <<v>>]
         ELSE EvalChannel(code, in, Limits(o, d)).status \in {"budget", "overflow"}
<1>1. Len(code) \in 0..Len(code)
  BY LenProperties
<1>2. PICK m : m = Machines(code, in, Limits(o, d))[Len(code)]
  OBVIOUS
<1>3. IF Within(f, Len(code), o, d) THEN m = MachineAt(Len(code), <<v>>)
      ELSE m.status \in {"budget", "overflow"}
  BY <1>1, <1>2, MachineFollows
<1>4. EvalChannel(code, in, Limits(o, d)) =
        IF m.status # "running" THEN m ELSE Refuse(m, IF Len(m.stack) = 1 THEN "ok" ELSE "shape")
  BY <1>2 DEF EvalChannel
<1>5. Len(<<v>>) = 1
  OBVIOUS
<1> QED BY <1>3, <1>4, <1>5 DEF MachineAt, Refuse

-------------------------------------------------------------------------------
(* The lowered code on the same stacks.                                    *)

(* f has the states of a run of lowered code, up to m.                    *)
Walks(f, start, lowered, m) ==
  f = [k \in 0..m |-> IF k = 0 THEN start
                      ELSE WasmStep(f[k - 1], lowered[k])]

(* The runs of lowered code, instruction by instruction, exist.            *)
LEMMA WalksExist ==
  ASSUME NEW start, NEW lowered, NEW m \in Nat
  PROVE  \E f : Walks(f, start, lowered, m)
<1>. DEFINE S == {n \in Nat : \E f : Walks(f, start, lowered, n)}
<1>1. 0 \in S
  <2>1. Walks([n \in 0..0 |-> start], start, lowered, 0)
    BY DEF Walks
  <2> QED BY <2>1
<1>2. ASSUME NEW n \in Nat, n \in S PROVE n + 1 \in S
  <2>1. PICK f : Walks(f, start, lowered, n)
    BY <1>2
  <2>. DEFINE g == [k \in 0..(n + 1) |->
                 IF k = n + 1 THEN WasmStep(f[n], lowered[n + 1]) ELSE f[k]]
  <2>2. ASSUME NEW k \in 0..(n + 1)
        PROVE  g[k] = IF k = 0 THEN start ELSE WasmStep(g[k - 1], lowered[k])
    <3>1. CASE k = n + 1
      <4>1. k # 0 /\ k - 1 = n /\ g[k - 1] = f[n]
        BY <3>1
      <4> QED BY <3>1, <4>1
    <3>2. CASE k # n + 1
      <4>1. k \in 0..n /\ g[k] = f[k]
        BY <3>2
      <4>2. f[k] = IF k = 0 THEN start ELSE WasmStep(f[k - 1], lowered[k])
        BY <2>1, <4>1 DEF Walks
      <4>3. k # 0 => g[k - 1] = f[k - 1]
        BY <4>1
      <4> QED BY <4>1, <4>2, <4>3
    <3> QED BY <3>1, <3>2
  <2>3. Walks(g, start, lowered, n + 1)
    BY <2>2 DEF Walks
  <2> QED BY <2>3
<1>3. Nat \subseteq S
  <2> HIDE DEF S
  <2> QED BY <1>1, <1>2, Induction
<1> QED BY <1>3

(* f has the states of a call, up to m.                                   *)
CallStates(f, code, in, fuel, m) ==
  f = [k \in 0..m |-> IF k = 0 THEN WasmStart(in, fuel)
                      ELSE WasmSteps(f[k - 1], Lower(code[k]))]

(* So do those of a call, one instruction of the program at a time.        *)
LEMMA CallStatesExist ==
  ASSUME NEW code, NEW in, NEW fuel, NEW m \in Nat
  PROVE  \E f : CallStates(f, code, in, fuel, m)
<1>. DEFINE S == {n \in Nat : \E f : CallStates(f, code, in, fuel, n)}
<1>1. 0 \in S
  <2>1. CallStates([n \in 0..0 |-> WasmStart(in, fuel)], code, in, fuel, 0)
    BY DEF CallStates
  <2> QED BY <2>1
<1>2. ASSUME NEW n \in Nat, n \in S PROVE n + 1 \in S
  <2>1. PICK f : CallStates(f, code, in, fuel, n)
    BY <1>2
  <2>. DEFINE g == [k \in 0..(n + 1) |->
                 IF k = n + 1 THEN WasmSteps(f[n], Lower(code[n + 1])) ELSE f[k]]
  <2>2. ASSUME NEW k \in 0..(n + 1)
        PROVE  g[k] = IF k = 0 THEN WasmStart(in, fuel) ELSE WasmSteps(g[k - 1], Lower(code[k]))
    <3>1. CASE k = n + 1
      <4>1. k # 0 /\ k - 1 = n /\ g[k - 1] = f[n]
        BY <3>1
      <4> QED BY <3>1, <4>1
    <3>2. CASE k # n + 1
      <4>1. k \in 0..n /\ g[k] = f[k]
        BY <3>2
      <4>2. f[k] = IF k = 0 THEN WasmStart(in, fuel) ELSE WasmSteps(f[k - 1], Lower(code[k]))
        BY <2>1, <4>1 DEF CallStates
      <4>3. k # 0 => g[k - 1] = f[k - 1]
        BY <4>1
      <4> QED BY <4>1, <4>2, <4>3
    <3> QED BY <3>1, <3>2
  <2>3. CallStates(g, code, in, fuel, n + 1)
    BY <2>2 DEF CallStates
  <2> QED BY <2>3
<1>3. Nat \subseteq S
  <2> HIDE DEF S
  <2> QED BY <1>1, <1>2, Induction
<1> QED BY <1>3

(* The lowering of one instruction is walked to its end.                   *)
LEMMA StepsWalk ==
  ASSUME NEW m, NEW lowered, Len(lowered) \in Nat
  PROVE  \E w : Walks(w, m, lowered, Len(lowered)) /\ WasmSteps(m, lowered) = w[Len(lowered)]
<1> DEFINE W == CHOOSE f : Walks(f, m, lowered, Len(lowered))
<1>1. \E f : Walks(f, m, lowered, Len(lowered))
  BY WalksExist
<1>2. Walks(W, m, lowered, Len(lowered))
  BY <1>1
<1>3. WasmSteps(m, lowered) = W[Len(lowered)]
  BY DEF WasmSteps, Walks
<1> HIDE DEF W
<1> QED BY <1>2, <1>3

Locals(in) == {loc \in [1..(Params + 2) -> Val] : \A k \in 1..Params : loc[k] = Number(in[k])}

WasmAt(x, st, loc) == [status |-> "running", fuel |-> x, stack |-> st, locals |-> loc]
Dead(m) == m.status \in {"trap", "invalid"}

(* The engine has given up, or has that stack and locals like those.       *)
At(m, st, L) == Dead(m) \/ \E x \in Nat, loc \in L : m = WasmAt(x, st, loc)

(* A step from where the engine may be: dead it stays, and alive it moves. *)
LEMMA StepFromAt ==
  ASSUME NEW m, NEW ins, NEW st, NEW t, NEW L, NEW K, At(m, st, L),
         \A x \in Nat, loc \in L :
           x # 0 => \E k \in K : WasmStep(WasmAt(x, st, loc), ins) = WasmAt(x - 1, t, k)
  PROVE  At(WasmStep(m, ins), t, K)
<1>1. CASE Dead(m)
  <2>1. WasmStep(m, ins) = m
    BY <1>1 DEF WasmStep, Dead
  <2> QED BY <1>1, <2>1 DEF At
<1>2. CASE ~Dead(m)
  <2>1. PICK x \in Nat, loc \in L : m = WasmAt(x, st, loc)
    BY <1>2 DEF At
  <2>2. CASE x = 0
    <3>1. WasmStep(m, ins).status = "trap"
      BY <2>1, <2>2 DEF WasmStep, WasmAt, Refuse
    <3> QED BY <3>1 DEF At, Dead
  <2>3. CASE x # 0
    <3>1. PICK k \in K : WasmStep(WasmAt(x, st, loc), ins) = WasmAt(x - 1, t, k)
      BY <2>3
    <3>2. x - 1 \in Nat
      BY <2>3
    <3> QED BY <2>1, <3>1, <3>2 DEF At
  <2> QED BY <2>2, <2>3
<1> QED BY <1>1, <1>2

(* What a state of the engine consists of, and with one part changed.      *)
LEMMA FieldsAt ==
  ASSUME NEW x, NEW st, NEW loc
  PROVE  /\ WasmAt(x, st, loc).fuel = x /\ WasmAt(x, st, loc).stack = st
         /\ WasmAt(x, st, loc).locals = loc /\ WasmAt(x, st, loc).status = "running"
BY DEF WasmAt

LEMMA FuelAt ==
  ASSUME NEW x, NEW st, NEW loc, NEW y
  PROVE  [WasmAt(x, st, loc) EXCEPT !.fuel = y] = WasmAt(y, st, loc)
BY DEF WasmAt

LEMMA StackAt ==
  ASSUME NEW x, NEW st, NEW loc, NEW t
  PROVE  [WasmAt(x, st, loc) EXCEPT !.stack = t] = WasmAt(x, t, loc)
BY DEF WasmAt

LEMMA LocalsAt ==
  ASSUME NEW x, NEW st, NEW loc, NEW k
  PROVE  [WasmAt(x, st, loc) EXCEPT !.locals = k] = WasmAt(x, st, k)
BY DEF WasmAt

(* One instruction, as long as there is fuel.                              *)
LEMMA RunningConst ==
  ASSUME NEW ins, NEW x \in Nat, NEW st, NEW loc, x # 0, ins.op = "const"
  PROVE  WasmStep(WasmAt(x, st, loc), ins) = WasmAt(x - 1, Append(st, Number(ins.arg)), loc)
<1>1. PICK w : w = WasmAt(x, st, loc)
  OBVIOUS
<1>2. PICK next : next = WasmAt(x - 1, st, loc)
  OBVIOUS
<1>3. w.status = "running" /\ w.fuel = x /\ w.stack = st /\ w.locals = loc
  BY <1>1, FieldsAt
<1>4. next.stack = st /\ next.locals = loc
  BY <1>2, FieldsAt
<1>5. [w EXCEPT !.fuel = w.fuel - 1] = next
  BY <1>1, <1>2, <1>3, FuelAt
<1>6. \A t : [next EXCEPT !.stack = t] = WasmAt(x - 1, t, loc)
  BY <1>2, StackAt
<1>7. WasmStep(w, ins) = [next EXCEPT !.stack = Append(next.stack, Number(ins.arg))]
  BY <1>3, <1>5 DEF WasmStep
<1> QED BY <1>1, <1>4, <1>6, <1>7

LEMMA RunningLoad ==
  ASSUME NEW ins, NEW x \in Nat, NEW st, NEW loc, x # 0, ins.op = "load"
  PROVE  WasmStep(WasmAt(x, st, loc), ins) = WasmAt(x - 1, Append(st, loc[ins.arg]), loc)
<1>1. PICK w : w = WasmAt(x, st, loc)
  OBVIOUS
<1>2. PICK next : next = WasmAt(x - 1, st, loc)
  OBVIOUS
<1>3. w.status = "running" /\ w.fuel = x /\ w.stack = st /\ w.locals = loc
  BY <1>1, FieldsAt
<1>4. next.stack = st /\ next.locals = loc
  BY <1>2, FieldsAt
<1>5. [w EXCEPT !.fuel = w.fuel - 1] = next
  BY <1>1, <1>2, <1>3, FuelAt
<1>6. \A t : [next EXCEPT !.stack = t] = WasmAt(x - 1, t, loc)
  BY <1>2, StackAt
<1>7. PICK t : t = Append(st, loc[ins.arg])
  OBVIOUS
<1>8. WasmStep(w, ins) = [next EXCEPT !.stack = Append(next.stack, w.locals[ins.arg])]
  BY <1>3, <1>5 DEF WasmStep
<1>9. WasmStep(w, ins) = [next EXCEPT !.stack = t]
  BY <1>3, <1>4, <1>7, <1>8
<1> QED BY <1>1, <1>6, <1>7, <1>9

LEMMA RunningSet ==
  ASSUME NEW ins, NEW x \in Nat, NEW st, NEW loc, x # 0, ins.op = "set", st # <<>>
  PROVE  WasmStep(WasmAt(x, st, loc), ins) =
           WasmAt(x - 1, Front(st), [loc EXCEPT ![ins.arg] = Last(st)])
<1>1. PICK w : w = WasmAt(x, st, loc)
  OBVIOUS
<1>2. PICK next : next = WasmAt(x - 1, st, loc)
  OBVIOUS
<1>3. w.status = "running" /\ w.fuel = x /\ w.stack = st /\ w.locals = loc
  BY <1>1, FieldsAt
<1>4. next.stack = st /\ next.locals = loc
  BY <1>2, FieldsAt
<1>5. [w EXCEPT !.fuel = w.fuel - 1] = next
  BY <1>1, <1>2, <1>3, FuelAt
<1>6. PICK v : v = Last(st)
  OBVIOUS
<1>7. PICK t : t = Front(st)
  OBVIOUS
<1>8. PICK k : k = [loc EXCEPT ![ins.arg] = v]
  OBVIOUS
<1>9. PICK u : u = WasmAt(x - 1, st, k)
  OBVIOUS
<1>10. WasmStep(w, ins) = [next EXCEPT !.locals[ins.arg] = Last(w.stack), !.stack = Front(next.stack)]
  BY <1>3, <1>5 DEF WasmStep
<1>11. WasmStep(w, ins) = [next EXCEPT !.locals[ins.arg] = v, !.stack = t]
  BY <1>3, <1>4, <1>6, <1>7, <1>10
<1>12. [next EXCEPT !.locals[ins.arg] = v, !.stack = t] = [[next EXCEPT !.locals = k] EXCEPT !.stack = t]
  BY <1>4, <1>8
<1>13. [next EXCEPT !.locals = k] = u
  BY <1>2, <1>9, LocalsAt
<1>14. [u EXCEPT !.stack = t] = WasmAt(x - 1, t, k)
  BY <1>9, StackAt
<1>15. WasmStep(w, ins) = WasmAt(x - 1, t, k)
  BY <1>11, <1>12, <1>13, <1>14
<1> QED BY <1>1, <1>6, <1>7, <1>8, <1>15

(* An operation reduces the stack.                                         *)
LEMMA RunningReduce ==
  ASSUME NEW ins, NEW x \in Nat, NEW st, NEW loc, x # 0, ins.op \notin {"const", "load", "set"}
  PROVE  WasmStep(WasmAt(x, st, loc), ins) =
           Reduce(WasmAt(x - 1, st, loc), Operands(ins.op), WasmApply(ins.op, Top(st, Operands(ins.op))))
<1>1. PICK w : w = WasmAt(x, st, loc)
  OBVIOUS
<1>2. PICK next : next = WasmAt(x - 1, st, loc)
  OBVIOUS
<1>3. w.status = "running" /\ w.fuel = x /\ w.stack = st /\ w.locals = loc
  BY <1>1, FieldsAt
<1>4. [w EXCEPT !.fuel = w.fuel - 1] = next
  BY <1>1, <1>2, <1>3, FuelAt
<1>5. WasmStep(w, ins) =
        Reduce(next, Operands(ins.op), WasmApply(ins.op, Top(w.stack, Operands(ins.op))))
  BY <1>3, <1>4 DEF WasmStep
<1> QED BY <1>1, <1>2, <1>3, <1>5

(* The same from where the engine may be.                                  *)
LEMMA ConstStep ==
  ASSUME NEW m, NEW n, NEW st, NEW L, At(m, st, L)
  PROVE  At(WasmStep(m, Instr("const", n)), Append(st, Number(n)), L)
<1>1. PICK ins : ins = Instr("const", n)
  OBVIOUS
<1>2. ins.op = "const" /\ ins.arg = n
  BY <1>1 DEF Instr
<1>3. ASSUME NEW x \in Nat, NEW loc \in L, x # 0
      PROVE  WasmStep(WasmAt(x, st, loc), ins) = WasmAt(x - 1, Append(st, Number(n)), loc)
  BY <1>2, <1>3, RunningConst
<1> QED BY <1>1, <1>3, StepFromAt

LEMMA LoadStep ==
  ASSUME NEW m, NEW n, NEW st, NEW L, NEW v, At(m, st, L), \A loc \in L : loc[n] = v
  PROVE  At(WasmStep(m, Instr("load", n)), Append(st, v), L)
<1>1. PICK ins : ins = Instr("load", n)
  OBVIOUS
<1>2. ins.op = "load" /\ ins.arg = n
  BY <1>1 DEF Instr
<1>3. ASSUME NEW x \in Nat, NEW loc \in L, x # 0
      PROVE  WasmStep(WasmAt(x, st, loc), ins) = WasmAt(x - 1, Append(st, v), loc)
  <2>1. loc[n] = v
    OBVIOUS
  <2> QED BY <1>2, <1>3, <2>1, RunningLoad
<1> QED BY <1>1, <1>3, StepFromAt

LEMMA SetStep ==
  ASSUME NEW m, NEW n, NEW st \in Seq(Val), NEW L, NEW K, NEW v \in Val, At(m, Append(st, v), L),
         \A loc \in L : [loc EXCEPT ![n] = v] \in K
  PROVE  At(WasmStep(m, Instr("set", n)), st, K)
<1>1. Last(Append(st, v)) = v /\ Front(Append(st, v)) = st /\ Append(st, v) # <<>>
  <2>1. Len(st) \in Nat
    BY LenProperties
  <2>2. Append(st, v) # <<>> /\ Len(Append(st, v)) = Len(st) + 1 /\ Append(st, v)[Len(st) + 1] = v
           /\ Append(st, v) \in Seq(Val) /\ \A i \in 1..Len(st) : Append(st, v)[i] = st[i]
    BY AppendProperties
  <2>3. SubSeq(Append(st, v), 1, Len(st)) = st
    BY <2>1, <2>2
  <2>4. (Len(st) + 1) - 1 = Len(st)
    BY <2>1
  <2> QED BY <2>2, <2>3, <2>4 DEF Last, Front
<1>2. PICK s : s = Append(st, v)
  OBVIOUS
<1>3. PICK ins : ins = Instr("set", n)
  OBVIOUS
<1>4. ins.op = "set" /\ ins.arg = n
  BY <1>3 DEF Instr
<1>5. ASSUME NEW x \in Nat, NEW loc \in L, x # 0
      PROVE  WasmStep(WasmAt(x, s, loc), ins) = WasmAt(x - 1, st, [loc EXCEPT ![n] = v])
  <2>1. s # <<>> /\ Front(s) = st /\ Last(s) = v
    BY <1>1, <1>2
  <2>2. WasmStep(WasmAt(x, s, loc), ins) = WasmAt(x - 1, Front(s), [loc EXCEPT ![n] = Last(s)])
    BY <1>4, <1>5, <2>1, RunningSet
  <2> QED BY <2>1, <2>2
<1>6. \A x \in Nat, loc \in L :
        x # 0 => \E k \in K : WasmStep(WasmAt(x, s, loc), ins) = WasmAt(x - 1, st, k)
  BY <1>5
<1>7. At(m, s, L)
  BY <1>2
<1> QED BY <1>3, <1>6, <1>7, StepFromAt

(* Both engines compute the same where they say they do.                   *)
LEMMA SameHere ==
  ASSUME NEW op \in OpNames \ {"clamp"}, NEW a \in Seq(Val), Len(a) = Operands(op), SameInBoth(op, a)
  PROVE  WasmApply(op, a) = Apply(op, a)
<1>1. CASE op \in Symbols \cup {"neg"}
  BY <1>1 DEF WasmApply, Apply, Symbols
<1>2. CASE op = "abs"
  <2>1. a[1] \in Val /\ a[1] # MinusZero
    BY <1>2, OperandsOfOps DEF SameInBoth
  <2>2. Negative(a[1]) <=> Less(a[1], Number(0))
    BY <2>1, NegativeIsBelow
  <2> QED BY <1>2, <2>2 DEF WasmApply, Apply
<1>3. CASE op \in {"min", "max"}
  <2>1. DOMAIN a = 1..2
    BY <1>3, OperandsOfOps
  <2>2. PICK x \in Val, y \in Val : a[1] = x /\ a[2] = y
    BY <2>1
  <2>3. Plain(x) /\ Plain(y)
    BY <1>3, <2>1, <2>2 DEF SameInBoth
  <2>4. NaN \notin {x, y} /\ (Below(x, y) <=> Less(x, y))
    BY <2>3 DEF Plain, Below
  <2>5. Less(x, y) => ~Less(y, x)
    BY LessIsStrict
  <2>6. ~Less(x, y) /\ ~Less(y, x) => x = y
    BY <2>3, PlainOrder
  <2>7. CASE op = "min"
    BY <2>2, <2>4, <2>7 DEF WasmApply, Apply
  <2>8. CASE op = "max"
    BY <2>2, <2>4, <2>5, <2>6, <2>8 DEF WasmApply, Apply
  <2> QED BY <1>3, <2>7, <2>8
<1> QED BY <1>1, <1>2, <1>3, OperandsOfOps DEF Symbols

LEMMA OpStep ==
  ASSUME NEW m, NEW op \in OpNames \ {"clamp"}, NEW st \in Seq(Val), Operands(op) <= Len(st),
         NEW L, NEW in, At(m, st, L), SameInBoth(op, Top(st, Operands(op)))
  PROVE  At(WasmStep(m, Instr(op, 0)), After(Instr(op, 0), in, st), L)
<1>1. op \notin {"const", "load", "set"} /\ Operands(op) \in 1..3
  BY OperandsOfOps
<1>2. PICK n \in 1..3 : n = Operands(op)
  BY <1>1
<1>3. PICK h \in Nat : h = Len(st)
  BY LenProperties
<1>4. PICK a : a = Top(st, n)
  OBVIOUS
<1>5. PICK v : v = Apply(op, a)
  OBVIOUS
<1>6. WasmApply(op, a) = v
  <2>1. a \in Seq(Val) /\ Len(a) = n
    BY <1>2, <1>4, TopIsASeq
  <2> QED BY <1>2, <1>4, <1>5, <2>1, SameHere
<1>7. PICK t : t = After(Instr(op, 0), in, st)
  OBVIOUS
<1>8. PICK ins : ins = Instr(op, 0)
  OBVIOUS
<1>9. ins.op = op
  BY <1>8 DEF Instr
<1>10. t = Append(SubSeq(st, 1, h - n), v)
  BY <1>1, <1>2, <1>3, <1>4, <1>5, <1>7, <1>8, <1>9 DEF After
<1>11. ASSUME NEW x \in Nat, NEW loc \in L, x # 0
       PROVE  WasmStep(WasmAt(x, st, loc), ins) = WasmAt(x - 1, t, loc)
  <2>1. WasmStep(WasmAt(x, st, loc), ins) = Reduce(WasmAt(x - 1, st, loc), n, v)
    BY <1>1, <1>2, <1>4, <1>6, <1>9, <1>11, RunningReduce
  <2>2. PICK w : w = WasmAt(x - 1, st, loc)
    OBVIOUS
  <2>3. w.stack = st /\ ~(h < n)
    BY <1>2, <1>3, <2>2, FieldsAt
  <2>4. Reduce(w, n, v) = [w EXCEPT !.stack = t]
    BY <1>3, <1>10, <2>3 DEF Reduce
  <2>5. [w EXCEPT !.stack = t] = WasmAt(x - 1, t, loc)
    BY <2>2, StackAt
  <2> QED BY <2>1, <2>2, <2>4, <2>5
<1>12. At(WasmStep(m, ins), t, L)
  BY <1>11, StepFromAt
<1> QED BY <1>7, <1>8, <1>12

(* A clamp whose bounds are in order is a max and a min.                   *)
LEMMA ClampIsMaxMin ==
  ASSUME NEW x \in Val, NEW lo \in Val, NEW hi \in Val,
         Plain(x), Plain(lo), Plain(hi), ~Less(hi, lo)
  PROVE  /\ Apply("min", <<Apply("max", <<x, lo>>), hi>>) = Apply("clamp", <<x, lo, hi>>)
         /\ Apply("max", <<x, lo>>) \in {x, lo}
<1>1. Apply("max", <<x, lo>>) = IF Less(lo, x) THEN x ELSE lo
  BY DEF Apply
<1>2. PICK y \in {x, lo} : y = Apply("max", <<x, lo>>)
  BY <1>1
<1>3. Apply("min", <<y, hi>>) = IF Less(y, hi) THEN y ELSE hi
  BY DEF Apply
<1>4. Apply("clamp", <<x, lo, hi>>) = IF Less(x, lo) THEN lo ELSE IF Less(hi, x) THEN hi ELSE x
  BY DEF Apply
<1>5. CASE Less(x, lo)
  <2>1. ~Less(lo, x)
    BY <1>5, LessIsStrict
  <2>2. ~Less(lo, hi) => lo = hi
    BY PlainOrder
  <2> QED BY <1>1, <1>2, <1>3, <1>4, <1>5, <2>1, <2>2
<1>6. CASE ~Less(x, lo)
  <2>1. ~Less(lo, x) => lo = x
    BY <1>6, PlainOrder
  <2>2. Less(x, hi) => ~Less(hi, x)
    BY LessIsStrict
  <2>3. ~Less(x, hi) /\ ~Less(hi, x) => x = hi
    BY PlainOrder
  <2> QED BY <1>1, <1>2, <1>3, <1>4, <1>6, <2>1, <2>2, <2>3
<1> QED BY <1>2, <1>5, <1>6

(* A pair on top of a stack is what min and max work on.                   *)
LEMMA PairStep ==
  ASSUME NEW m, NEW op \in {"min", "max"}, NEW s \in Seq(Val), NEW a \in Val, NEW b \in Val,
         Plain(a), Plain(b), NEW L, At(m, Append(Append(s, a), b), L)
  PROVE  At(WasmStep(m, Instr(op, 0)), Append(s, Apply(op, <<a, b>>)), L)
<1>1. PICK p : p = <<a, b>>
  OBVIOUS
<1>2. p \in Seq(Val) /\ Len(p) = 2 /\ DOMAIN p = 1..2 /\ p[1] = a /\ p[2] = b
  BY <1>1
<1>3. op \in OpNames \ {"clamp"} /\ Operands(op) = 2
  BY OperandsOfOps
<1>4. Append(Append(s, a), b) = s \o p
  BY <1>1
<1>5. Top(s \o p, 2) = p /\ s \o p \in Seq(Val) /\ 2 <= Len(s \o p)
  <2>1. 2 \in 1..3
    OBVIOUS
  <2>2. Top(s \o p, 2) = p /\ s \o p \in Seq(Val) /\ Len(s \o p) = Len(s) + 2 /\ Len(s) \in Nat
    BY <1>2, <2>1, TopOfConcat
  <2> QED BY <2>2
<1>6. SameInBoth(op, p)
  <2>1. \A k \in DOMAIN p : Plain(p[k])
    BY <1>2
  <2> QED BY <2>1 DEF SameInBoth
<1>7. PICK v \in Val : v = Apply(op, p)
  BY <1>2, <1>3, ApplyIsAValue
<1>8. PICK in : in = <<>>
  OBVIOUS
<1>9. After(Instr(op, 0), in, s \o p) = s \o <<v>>
  <2>1. p \in Seq(Val) /\ Len(p) = Operands(op) /\ op \in OpNames
    BY <1>2, <1>3
  <2>2. After(Instr(op, 0), in, s \o p) = s \o <<Apply(op, p)>>
    BY <2>1, OpAfter
  <2> QED BY <1>7, <2>2
<1>10. s \o <<v>> = Append(s, v)
  BY AppendIsConcat
<1>11. At(WasmStep(m, Instr(op, 0)), After(Instr(op, 0), in, s \o p), L)
  BY <1>3, <1>4, <1>5, <1>6, OpStep
<1> QED BY <1>1, <1>7, <1>9, <1>10, <1>11

(* An instruction that is lowered to itself.                               *)
LEMMA OneStep ==
  ASSUME NEW m, NEW ins
  PROVE  WasmSteps(m, <<ins>>) = WasmStep(m, ins)
<1>1. PICK lowered : lowered = <<ins>>
  OBVIOUS
<1>2. Len(lowered) = 1 /\ lowered[1] = ins /\ Len(lowered) \in Nat
  BY <1>1
<1>3. PICK w : Walks(w, m, lowered, 1) /\ WasmSteps(m, lowered) = w[1]
  BY <1>2, StepsWalk
<1>4. 0 \in 0..1 /\ 1 \in 0..1 /\ 1 - 1 = 0
  OBVIOUS
<1>5. w[0] = m /\ w[1] = WasmStep(w[0], lowered[1])
  BY <1>3, <1>4 DEF Walks
<1> QED BY <1>1, <1>2, <1>3, <1>5

(* The bounds of a clamp go to the scratch locals and come back, one to a  *)
(* max and the other to a min.                                             *)
LEMMA ClampFollows ==
  ASSUME NEW m, NEW in \in Vectors, NEW s \in Seq(Val), NEW x \in Val, NEW lo \in Val, NEW hi \in Val,
         Plain(x), Plain(lo), Plain(hi), ~Less(hi, lo),
         At(m, Append(Append(Append(s, x), lo), hi), Locals(in))
  PROVE  At(WasmSteps(m, Lower(Instr("clamp", 0))), Append(s, Apply("clamp", <<x, lo, hi>>)), Locals(in))
<1>1. PICK lowered : lowered = Lower(Instr("clamp", 0))
  OBVIOUS
<1>2. lowered = <<Instr("set", 5), Instr("set", 4), Instr("load", 4), Instr("max", 0),
                  Instr("load", 5), Instr("min", 0)>>
  BY <1>1 DEF Lower, Instr, Params
<1>3. /\ Len(lowered) = 6 /\ Len(lowered) \in Nat
      /\ lowered[1] = Instr("set", 5) /\ lowered[2] = Instr("set", 4) /\ lowered[3] = Instr("load", 4)
      /\ lowered[4] = Instr("max", 0) /\ lowered[5] = Instr("load", 5) /\ lowered[6] = Instr("min", 0)
  BY <1>2
<1>4. PICK w : Walks(w, m, lowered, 6) /\ WasmSteps(m, lowered) = w[6]
  BY <1>3, StepsWalk
<1>5. \A n \in 0..6 : w[n] = IF n = 0 THEN m ELSE WasmStep(w[n - 1], lowered[n])
  BY <1>4 DEF Walks
<1>6. /\ w[0] = m /\ w[1] = WasmStep(w[0], lowered[1]) /\ w[2] = WasmStep(w[1], lowered[2])
      /\ w[3] = WasmStep(w[2], lowered[3]) /\ w[4] = WasmStep(w[3], lowered[4])
      /\ w[5] = WasmStep(w[4], lowered[5]) /\ w[6] = WasmStep(w[5], lowered[6])
  BY <1>5
<1>7. PICK L1 : L1 = {loc \in Locals(in) : loc[5] = hi}
  OBVIOUS
<1>8. PICK L2 : L2 = {loc \in L1 : loc[4] = lo}
  OBVIOUS
<1>9. \A loc \in Locals(in) : [loc EXCEPT ![5] = hi] \in L1
  BY <1>7 DEF Locals, Params
<1>10. \A loc \in L1 : [loc EXCEPT ![4] = lo] \in L2
  BY <1>7, <1>8 DEF Locals, Params
<1>11. Append(s, x) \in Seq(Val) /\ Append(Append(s, x), lo) \in Seq(Val)
  BY AppendProperties
<1>12. At(w[1], Append(Append(s, x), lo), L1)
  BY <1>3, <1>6, <1>9, <1>11, SetStep
<1>13. At(w[2], Append(s, x), L2)
  BY <1>3, <1>6, <1>10, <1>11, <1>12, SetStep
<1>14. At(w[3], Append(Append(s, x), lo), L2)
  <2>1. \A loc \in L2 : loc[4] = lo
    BY <1>8
  <2> QED BY <1>3, <1>6, <1>13, <2>1, LoadStep
<1>15. PICK y \in {x, lo} : y = Apply("max", <<x, lo>>)
  BY ClampIsMaxMin
<1>16. At(w[4], Append(s, y), L2)
  BY <1>3, <1>6, <1>14, <1>15, PairStep
<1>17. At(w[5], Append(Append(s, y), hi), L2)
  <2>1. \A loc \in L2 : loc[5] = hi
    BY <1>7, <1>8
  <2> QED BY <1>3, <1>6, <1>16, <2>1, LoadStep
<1>18. PICK z : z = Apply("min", <<y, hi>>)
  OBVIOUS
<1>19. At(w[6], Append(s, z), L2)
  <2>1. Plain(y) /\ y \in Val
    BY <1>15
  <2> QED BY <1>3, <1>6, <1>17, <1>18, <2>1, PairStep
<1>20. At(w[6], Append(s, z), Locals(in))
  BY <1>7, <1>8, <1>19 DEF At
<1>21. z = Apply("clamp", <<x, lo, hi>>)
  BY <1>15, <1>18, ClampIsMaxMin
<1> QED BY <1>1, <1>4, <1>20, <1>21

(* An instruction about to be run meets operands both engines treat alike. *)
MetAlike(ins, st) == SameInBoth(ins.op, Top(st, Operands(ins.op)))

(* The lowering of an instruction turns the stack as the instruction does, *)
(* if its operands are of that kind.                                       *)
LEMMA LoweredFollows ==
  ASSUME NEW m, NEW ins \in Instrs, NEW in \in Vectors, NEW st \in Seq(Val), Fits(ins, st),
         MetAlike(ins, st), At(m, st, Locals(in))
  PROVE  At(WasmSteps(m, Lower(ins)), After(ins, in, st), Locals(in))
<1>1. CASE ins.op = "const"
  <2>1. ins = Instr("const", ins.arg)
    BY <1>1, OperandsOfOps DEF Instrs, Instr
  <2>2. Lower(ins) = <<ins>> /\ After(ins, in, st) = Append(st, Number(ins.arg))
    BY <1>1 DEF Lower, After
  <2>3. At(WasmStep(m, ins), Append(st, Number(ins.arg)), Locals(in))
    BY <2>1, ConstStep
  <2> QED BY <2>2, <2>3, OneStep
<1>2. CASE ins.op = "load"
  <2>1. ins = Instr("load", ins.arg) /\ ins.arg \in 1..Params
    BY <1>2, OperandsOfOps DEF Instrs, Instr
  <2>2. Lower(ins) = <<ins>> /\ After(ins, in, st) = Append(st, Number(in[ins.arg]))
    BY <1>2 DEF Lower, After
  <2>3. \A loc \in Locals(in) : loc[ins.arg] = Number(in[ins.arg])
    BY <2>1 DEF Locals
  <2>4. At(WasmStep(m, Instr("load", ins.arg)), Append(st, Number(in[ins.arg])), Locals(in))
    BY <2>3, LoadStep
  <2> QED BY <2>1, <2>2, <2>4, OneStep
<1>3. CASE ins.op \notin {"const", "load"}
  <2>1. ins.op \in OpNames /\ ins = Instr(ins.op, 0)
    BY <1>3 DEF Instrs, Instr
  <2>2. PICK op \in OpNames : op = ins.op /\ ins = Instr(op, 0)
    BY <2>1
  <2>3. CASE op # "clamp"
    <3>1. Lower(ins) = <<ins>>
      BY <2>2, <2>3 DEF Lower
    <3>2. Operands(op) <= Len(st)
      BY <1>3, <2>2 DEF Fits
    <3>3. op \in OpNames \ {"clamp"} /\ SameInBoth(op, Top(st, Operands(op)))
      BY <2>2, <2>3 DEF MetAlike
    <3>4. At(WasmStep(m, ins), After(ins, in, st), Locals(in))
      BY <2>2, <3>2, <3>3, OpStep
    <3> QED BY <3>1, <3>4, OneStep
  <2>4. CASE op = "clamp"
    <3>1. 3 <= Len(st) /\ Len(st) \in Nat
      BY <1>3, <2>2, <2>4, OperandsOfOps, LenProperties DEF Fits
    <3>2. PICK s2 \in Seq(Val), hi \in Val : st = Append(s2, hi)
      <4>1. st # <<>>
        BY <3>1, EmptySeq
      <4> QED BY <4>1, SequenceEmptyOrAppend
    <3>3. Len(st) = Len(s2) + 1 /\ Len(s2) \in Nat /\ st[Len(st)] = hi
             /\ \A i \in 1..Len(s2) : st[i] = s2[i]
      BY <3>2, AppendProperties, LenProperties
    <3>4. PICK s1 \in Seq(Val), lo \in Val : s2 = Append(s1, lo)
      <4>1. s2 # <<>>
        BY <3>1, <3>3, EmptySeq
      <4> QED BY <4>1, SequenceEmptyOrAppend
    <3>5. Len(s2) = Len(s1) + 1 /\ Len(s1) \in Nat /\ s2[Len(s2)] = lo
      BY <3>4, AppendProperties, LenProperties
    <3>6. PICK s \in Seq(Val), x \in Val : s1 = Append(s, x)
      <4>1. s1 # <<>>
        BY <3>1, <3>3, <3>5, EmptySeq
      <4> QED BY <4>1, SequenceEmptyOrAppend
    <3>7. st = Append(Append(Append(s, x), lo), hi)
      BY <3>2, <3>4, <3>6
    <3>8. PICK a : a = <<x, lo, hi>>
      OBVIOUS
    <3>9. a \in Seq(Val) /\ st = s \o a /\ Len(a) = 3 /\ DOMAIN a = 1..3 /\ a[1] = x /\ a[2] = lo /\ a[3] = hi
             /\ "clamp" \in OpNames /\ Operands("clamp") = 3
      BY <3>7, <3>8, OperandsOfOps
    <3>10. ins = Instr("clamp", 0)
      BY <2>2, <2>4
    <3>11. Plain(x) /\ Plain(lo) /\ Plain(hi) /\ ~Less(hi, lo)
      <4>1. 3 \in 1..3
        OBVIOUS
      <4>2. Top(st, 3) = a
        BY <3>9, <4>1, TopOfConcat
      <4>3. (\A k \in DOMAIN a : Plain(a[k])) /\ ~Less(a[3], a[2])
        BY <2>2, <2>4, <3>9, <4>2 DEF MetAlike, SameInBoth
      <4>4. 1 \in DOMAIN a /\ 2 \in DOMAIN a /\ 3 \in DOMAIN a
        BY <3>9
      <4> QED BY <3>9, <4>3, <4>4
    <3>12. At(WasmSteps(m, Lower(ins)), Append(s, Apply("clamp", <<x, lo, hi>>)), Locals(in))
      BY <3>7, <3>10, <3>11, ClampFollows
    <3>13. After(ins, in, st) = Append(s, Apply("clamp", a))
      <4>1. PICK v \in Val : v = Apply("clamp", a)
        BY <3>9, ApplyIsAValue
      <4>2. After(ins, in, st) = s \o <<v>>
        <5>1. a \in Seq(Val) /\ Len(a) = Operands("clamp") /\ "clamp" \in OpNames
          BY <3>9
        <5>2. After(Instr("clamp", 0), in, s \o a) = s \o <<Apply("clamp", a)>>
          BY <5>1, OpAfter
        <5> QED BY <3>9, <3>10, <4>1, <5>2
      <4>3. s \o <<v>> = Append(s, v)
        BY AppendIsConcat
      <4> QED BY <4>1, <4>2, <4>3
    <3> QED BY <3>8, <3>12, <3>13
  <2> QED BY <2>3, <2>4
<1> QED BY <1>1, <1>2, <1>3

(* A call of the lowered code: either it is given up, or its result is     *)
(* what the trace ends with.                                               *)
LEMMA CallFollows ==
  ASSUME NEW code \in Seq(Instrs), NEW in \in Vectors, NEW f, NEW v, Trace(f, code, in, <<>>),
         f[Len(code)] = <<v>>, \A n \in 1..Len(code) : MetAlike(code[n], f[n - 1]),
         NEW x \in Nat, WasmCall(code, in, x).status = "ok"
  PROVE  WasmCall(code, in, x).stack[1] = v /\ WasmCall(code, in, x).fuel \in Nat
<1>1. Len(code) \in Nat /\ \A n \in 1..Len(code) : code[n] \in Instrs
  BY LenProperties, ElementOfSeq
<1> DEFINE W == CHOOSE w : CallStates(w, code, in, x, Len(code))
<1>2. CallStates(W, code, in, x, Len(code))
  <2>1. \E w : CallStates(w, code, in, x, Len(code))
    BY <1>1, CallStatesExist
  <2> QED BY <2>1
<1>3. WasmCall(code, in, x) =
        IF W[Len(code)].status # "running" THEN W[Len(code)]
        ELSE Refuse(W[Len(code)], IF Len(W[Len(code)].stack) = 1 THEN "ok" ELSE "invalid")
  BY DEF WasmCall, CallStates
<1>4. PICK w : w = W
  OBVIOUS
<1>5. /\ w = [k \in 0..Len(code) |-> IF k = 0 THEN WasmStart(in, x)
                                     ELSE WasmSteps(w[k - 1], Lower(code[k]))]
      /\ WasmCall(code, in, x) =
           IF w[Len(code)].status # "running" THEN w[Len(code)]
           ELSE Refuse(w[Len(code)], IF Len(w[Len(code)].stack) = 1 THEN "ok" ELSE "invalid")
  BY <1>2, <1>3, <1>4 DEF CallStates
<1> HIDE DEF W
<1> DEFINE S == {n \in Nat : n <= Len(code) => At(w[n], f[n], Locals(in))}
<1>6. 0 \in S
  <2>1. w[0] = WasmStart(in, x) /\ f[0] = <<>>
    BY <1>1, <1>5 DEF Trace
  <2>2. PICK loc : loc = [k \in 1..(Params + 2) |-> Number(IF k <= Len(in) THEN in[k] ELSE 0)]
    OBVIOUS
  <2>3. Len(in) = Params
    BY DEF Vectors, Params
  <2>4. loc \in Locals(in)
    <3>1. \A k \in 1..(Params + 2) : loc[k] \in Val /\ (k <= Params => loc[k] = Number(in[k]))
      BY <2>2, <2>3, Numbers DEF Vectors, Params
    <3> QED BY <2>2, <3>1 DEF Locals, Params
  <2>5. WasmStart(in, x) = WasmAt(x, <<>>, loc)
    BY <2>2 DEF WasmStart, WasmAt
  <2> QED BY <2>1, <2>4, <2>5 DEF At
<1>7. ASSUME NEW n \in Nat, n \in S PROVE n + 1 \in S
  <2>1. SUFFICES ASSUME n + 1 <= Len(code) PROVE At(w[n + 1], f[n + 1], Locals(in))
    OBVIOUS
  <2>2. n + 1 \in 1..Len(code) /\ n + 1 \in 0..Len(code) /\ n \in 0..Len(code) /\ (n + 1) - 1 = n
    BY <2>1, <1>1
  <2>3. PICK ins \in Instrs : ins = code[n + 1]
    BY <1>1, <2>2
  <2>4. w[n + 1] = WasmSteps(w[n], Lower(ins))
    BY <1>5, <2>2, <2>3
  <2>5. Fits(ins, f[n]) /\ f[n + 1] = After(ins, in, f[n]) /\ f[n] \in Seq(Val)
    BY <2>2, <2>3 DEF Trace
  <2>6. At(w[n], f[n], Locals(in))
    BY <1>7, <2>2
  <2>7. MetAlike(ins, f[n])
    BY <2>2, <2>3
  <2> QED BY <2>4, <2>5, <2>6, <2>7, LoweredFollows
<1> HIDE DEF S
<1>8. Nat \subseteq S
  BY <1>6, <1>7, Induction
<1>9. At(w[Len(code)], <<v>>, Locals(in))
  BY <1>1, <1>8 DEF S
<1>10. PICK m : m = w[Len(code)]
  OBVIOUS
<1>11. ~Dead(m)
  BY <1>5, <1>10 DEF Dead
<1>12. PICK y \in Nat, loc \in Locals(in) : m = WasmAt(y, <<v>>, loc)
  BY <1>9, <1>10, <1>11 DEF At
<1>13. m.status = "running" /\ m.fuel = y /\ m.stack = <<v>>
  BY <1>12, FieldsAt
<1>14. WasmCall(code, in, x) = Refuse(m, "ok")
  <2>1. Len(<<v>>) = 1
    OBVIOUS
  <2> QED BY <1>5, <1>10, <1>13, <2>1
<1>15. Refuse(m, "ok").fuel = m.fuel /\ Refuse(m, "ok").stack = m.stack
  BY <1>12 DEF Refuse, WasmAt
<1> QED BY <1>13, <1>14, <1>15

-------------------------------------------------------------------------------
(* The parser: what its rules give, and that they move on.                 *)

Parses == [ok : BOOLEAN, at : Nat, code : Seq(Instrs), argc : Nat]

(* What a rule that succeeds and one that fails give, and what they are    *)
(* made of.                                                                *)
LEMMA ParsedIs ==
  ASSUME NEW at \in Nat, NEW code \in Seq(Instrs)
  PROVE  /\ Parsed(at, code) \in Parses /\ Parsed(at, code).ok /\ Parsed(at, code).at = at
         /\ Parsed(at, code).code = code /\ Parsed(at, code).argc = 0
BY DEF Parsed, Parses
(* Nothing read, at a token.                                               *)
LEMMA NothingRead ==
  ASSUME NEW at \in Nat
  PROVE  Parsed(at, <<>>) \in Parses /\ Parsed(at, <<>>).at = at
BY EmptySeq, ParsedIs
LEMMA FailIs ==
  ASSUME NEW at \in Nat
  PROVE  Fail(at) \in Parses /\ ~Fail(at).ok /\ Fail(at).at = at
BY EmptySeq DEF Fail, Parses

LEMMA ParseFields ==
  ASSUME NEW r \in Parses
  PROVE  /\ r.ok \in BOOLEAN /\ r.at \in Nat /\ r.code \in Seq(Instrs) /\ r.argc \in Nat
         /\ r = [ok |-> r.ok, at |-> r.at, code |-> r.code, argc |-> r.argc]
BY DEF Parses

(* A result of a rule with one part changed.                               *)
LEMMA CodeSet ==
  ASSUME NEW r \in Parses, NEW c \in Seq(Instrs)
  PROVE  /\ [r EXCEPT !.code = c] \in Parses /\ [r EXCEPT !.code = c].ok = r.ok
         /\ [r EXCEPT !.code = c].at = r.at /\ [r EXCEPT !.code = c].code = c
         /\ [r EXCEPT !.code = c].argc = r.argc
BY DEF Parses

LEMMA PlaceSet ==
  ASSUME NEW r \in Parses, NEW i \in Nat
  PROVE  /\ [r EXCEPT !.at = i] \in Parses /\ [r EXCEPT !.at = i].ok = r.ok
         /\ [r EXCEPT !.at = i].at = i /\ [r EXCEPT !.at = i].code = r.code
         /\ [r EXCEPT !.at = i].argc = r.argc
BY DEF Parses

LEMMA ArgcSet ==
  ASSUME NEW r \in Parses, NEW n \in Nat
  PROVE  /\ [r EXCEPT !.argc = n] \in Parses /\ [r EXCEPT !.argc = n].ok = r.ok
         /\ [r EXCEPT !.argc = n].at = r.at /\ [r EXCEPT !.argc = n].code = r.code
         /\ [r EXCEPT !.argc = n].argc = n
BY DEF Parses

(* One instruction more, another rule after it, and a mark that has to     *)
(* follow.                                                                 *)
LEMMA EmitIs ==
  ASSUME NEW r \in Parses, NEW ins \in Instrs
  PROVE  /\ Emit(r, ins) \in Parses /\ Emit(r, ins).ok = r.ok /\ Emit(r, ins).at = r.at
         /\ Emit(r, ins).argc = r.argc
         /\ r.ok => Emit(r, ins).code = Append(r.code, ins)
         /\ ~r.ok => Emit(r, ins) = r
<1>1. PICK c \in Seq(Instrs) : c = Append(r.code, ins)
  BY ParseFields, AppendProperties
<1>2. PICK u : u = Emit(r, ins)
  OBVIOUS
<1>3. CASE r.ok
  <2>1. u = [r EXCEPT !.code = c]
    BY <1>1, <1>2, <1>3 DEF Emit
  <2>2. u \in Parses /\ u.ok = r.ok /\ u.at = r.at /\ u.code = c /\ u.argc = r.argc
    BY <2>1, CodeSet
  <2> QED BY <1>1, <1>2, <1>3, <2>2
<1>4. CASE ~r.ok
  <2>1. u = r
    BY <1>2, <1>4 DEF Emit
  <2> QED BY <1>2, <1>4, <2>1
<1> QED BY <1>3, <1>4

LEMMA JoinedIs ==
  ASSUME NEW r \in Parses, NEW t \in Parses
  PROVE  /\ Joined(r, t) \in Parses
         /\ r.ok => /\ Joined(r, t).ok = t.ok /\ Joined(r, t).at = t.at
                    /\ Joined(r, t).code = r.code \o t.code /\ Joined(r, t).argc = t.argc
         /\ ~r.ok => Joined(r, t) = r
<1>1. PICK c \in Seq(Instrs) : c = r.code \o t.code
  BY ParseFields, ConcatProperties
<1>2. PICK u : u = Joined(r, t)
  OBVIOUS
<1>3. CASE r.ok
  <2>1. u = [t EXCEPT !.code = c]
    BY <1>1, <1>2, <1>3 DEF Joined
  <2>2. u \in Parses /\ u.ok = t.ok /\ u.at = t.at /\ u.code = c /\ u.argc = t.argc
    BY <2>1, CodeSet
  <2> QED BY <1>1, <1>2, <1>3, <2>2
<1>4. CASE ~r.ok
  <2>1. u = r
    BY <1>2, <1>4 DEF Joined
  <2> QED BY <1>2, <1>4, <2>1
<1> QED BY <1>3, <1>4

LEMMA ExpectIs ==
  ASSUME NEW s, NEW r \in Parses, NEW token
  PROVE  /\ Expect(s, r, token) \in Parses
         /\ Expect(s, r, token).ok <=> r.ok /\ Tok(s, r.at) = token
         /\ Expect(s, r, token).ok =>
              /\ Expect(s, r, token).at = r.at + 1 /\ Expect(s, r, token).code = r.code
              /\ Expect(s, r, token).argc = r.argc
<1>1. r.at \in Nat /\ r.at + 1 \in Nat
  BY ParseFields
<1>2. PICK u : u = Expect(s, r, token)
  OBVIOUS
<1>3. CASE ~r.ok
  <2>1. u = r
    BY <1>2, <1>3 DEF Expect
  <2> QED BY <1>2, <1>3, <2>1
<1>4. CASE r.ok /\ Tok(s, r.at) = token
  <2>1. u = [r EXCEPT !.at = r.at + 1]
    BY <1>2, <1>4 DEF Expect
  <2>2. u \in Parses /\ u.ok = r.ok /\ u.at = r.at + 1 /\ u.code = r.code /\ u.argc = r.argc
    BY <1>1, <2>1, PlaceSet
  <2> QED BY <1>2, <1>4, <2>2
<1>5. CASE r.ok /\ Tok(s, r.at) # token
  <2>1. u = Fail(r.at)
    BY <1>2, <1>5 DEF Expect
  <2>2. u \in Parses /\ ~u.ok
    BY <1>1, <2>1, FailIs
  <2> QED BY <1>2, <1>5, <2>2
<1> QED BY <1>3, <1>4, <1>5

(* Every operation is an instruction.                                      *)
LEMMA OpInstr ==
  ASSUME NEW op \in OpNames
  PROVE  Instr(op, 0) \in Instrs
BY DEF Instr, Instrs

Spots(s) == Rules \X (1..(Len(s) + 1))

Tails == {"sum", "product"}

(* What is accepted ends after it begins, a rest where it begins at first. *)
Moved(s, k, i, r) ==
  /\ r \in Parses
  /\ r.ok => r.at \in (IF k \in Tails THEN i ELSE i + 1)..(Len(s) + 1)

Rank(k) == CASE k \in Tails -> 0 [] k = "factor" -> 0 [] k = "term" -> 1
             [] k = "expr" -> 2 [] k = "args" -> 3

(* What a rule refers to: later tokens, and simpler rules at its own.      *)
Sooner(k, i, rule, at) == i > at \/ (i = at /\ Rank(k) < Rank(rule))

Alike(s, f, g, rule, at) ==
  \A k \in Rules, i \in 1..(Len(s) + 1) : Sooner(k, i, rule, at) =>
    f[<<k, i>>] = g[<<k, i>>] /\ Moved(s, k, i, f[<<k, i>>])

(* Two rules in a row depend on nothing but themselves.                    *)
LEMMA JoinedAlike ==
  ASSUME NEW s, Len(s) \in Nat, NEW f, NEW g, NEW t \in Parses, NEW k \in Tails, NEW i \in Nat,
         t.ok => t.at \in i..(Len(s) + 1),
         t.ok => /\ f[<<k, t.at>>] = g[<<k, t.at>>] /\ Moved(s, k, t.at, f[<<k, t.at>>])
  PROVE  /\ Joined(t, f[<<k, t.at>>]) = Joined(t, g[<<k, t.at>>])
         /\ Joined(t, f[<<k, t.at>>]) \in Parses
         /\ Joined(t, f[<<k, t.at>>]).ok => Joined(t, f[<<k, t.at>>]).at \in i..(Len(s) + 1)
<1>1. PICK a : a = f[<<k, t.at>>]
  OBVIOUS
<1>2. PICK b : b = g[<<k, t.at>>]
  OBVIOUS
<1>3. CASE ~t.ok
  BY <1>3 DEF Joined
<1>4. CASE t.ok
  <2>1. a = b /\ a \in Parses /\ (a.ok => a.at \in t.at..(Len(s) + 1))
    BY <1>1, <1>2, <1>4 DEF Moved
  <2>2. Joined(t, a) \in Parses /\ Joined(t, a).ok = a.ok /\ Joined(t, a).at = a.at
    BY <1>4, <2>1, JoinedIs
  <2>3. t.at \in i..(Len(s) + 1)
    BY <1>4
  <2>4. Joined(t, a).ok => Joined(t, a).at \in i..(Len(s) + 1)
    BY <2>1, <2>2, <2>3
  <2> QED BY <1>1, <1>2, <2>1, <2>2, <2>4
<1> QED BY <1>3, <1>4

(* What each rule gives depends on the rules it refers to, and it moves    *)
(* on.                                                                     *)
LEMMA ExprIsLocal ==
  ASSUME NEW s, Len(s) \in Nat, NEW f, NEW g, NEW i \in 1..(Len(s) + 1), Alike(s, f, g, "expr", i)
  PROVE  Expr(s, f, i) = Expr(s, g, i) /\ Moved(s, "expr", i, Expr(s, f, i))
<1>1. PICK t : t = f[<<"term", i>>]
  OBVIOUS
<1>2. t = g[<<"term", i>>] /\ t \in Parses /\ (t.ok => t.at \in (i + 1)..(Len(s) + 1))
  BY <1>1 DEF Alike, Sooner, Rank, Tails, Rules, Moved
<1>3. t.ok => f[<<"sum", t.at>>] = g[<<"sum", t.at>>] /\ Moved(s, "sum", t.at, f[<<"sum", t.at>>])
  <2>1. ASSUME t.ok PROVE t.at \in 1..(Len(s) + 1) /\ t.at > i
    BY <1>2, <2>1
  <2>2. "sum" \in Rules
    BY DEF Rules
  <2> QED BY <2>1, <2>2 DEF Alike, Sooner
<1>4. PICK u : u = Expr(s, f, i)
  OBVIOUS
<1>5. u = Joined(t, f[<<"sum", t.at>>]) /\ Expr(s, g, i) = Joined(t, g[<<"sum", t.at>>])
  BY <1>1, <1>2, <1>4 DEF Expr
<1>6. i + 1 \in Nat /\ "sum" \in Tails
  BY DEF Tails
<1>7. u = Expr(s, g, i) /\ u \in Parses /\ (u.ok => u.at \in (i + 1)..(Len(s) + 1))
  BY <1>2, <1>3, <1>5, <1>6, JoinedAlike
<1>8. Moved(s, "expr", i, u)
  BY <1>7 DEF Moved, Tails
<1> QED BY <1>4, <1>7, <1>8

LEMMA TermIsLocal ==
  ASSUME NEW s, Len(s) \in Nat, NEW f, NEW g, NEW i \in 1..(Len(s) + 1), Alike(s, f, g, "term", i)
  PROVE  Term(s, f, i) = Term(s, g, i) /\ Moved(s, "term", i, Term(s, f, i))
<1>1. PICK t : t = f[<<"factor", i>>]
  OBVIOUS
<1>2. t = g[<<"factor", i>>] /\ t \in Parses /\ (t.ok => t.at \in (i + 1)..(Len(s) + 1))
  BY <1>1 DEF Alike, Sooner, Rank, Tails, Rules, Moved
<1>3. t.ok => /\ f[<<"product", t.at>>] = g[<<"product", t.at>>]
              /\ Moved(s, "product", t.at, f[<<"product", t.at>>])
  <2>1. ASSUME t.ok PROVE t.at \in 1..(Len(s) + 1) /\ t.at > i
    BY <1>2, <2>1
  <2>2. "product" \in Rules
    BY DEF Rules
  <2> QED BY <2>1, <2>2 DEF Alike, Sooner
<1>4. PICK u : u = Term(s, f, i)
  OBVIOUS
<1>5. u = Joined(t, f[<<"product", t.at>>]) /\ Term(s, g, i) = Joined(t, g[<<"product", t.at>>])
  BY <1>1, <1>2, <1>4 DEF Term
<1>6. i + 1 \in Nat /\ "product" \in Tails
  BY DEF Tails
<1>7. u = Term(s, g, i) /\ u \in Parses /\ (u.ok => u.at \in (i + 1)..(Len(s) + 1))
  BY <1>2, <1>3, <1>5, <1>6, JoinedAlike
<1>8. Moved(s, "term", i, u)
  BY <1>7 DEF Moved, Tails
<1> QED BY <1>4, <1>7, <1>8

(* A token that is not the end is a token of the text.                     *)
LEMMA TokAt ==
  ASSUME NEW s, NEW i \in Nat, Len(s) \in Nat, Tok(s, i) # "end"
  PROVE  i <= Len(s) /\ Tok(s, i) = s[i]
BY DEF Tok

LEMMA SumIsLocal ==
  ASSUME NEW s, Len(s) \in Nat, NEW f, NEW g, NEW i \in 1..(Len(s) + 1), Alike(s, f, g, "sum", i)
  PROVE  Sum(s, f, i) = Sum(s, g, i) /\ Moved(s, "sum", i, Sum(s, f, i))
<1>1. PICK u : u = Sum(s, f, i)
  OBVIOUS
<1>2. CASE Tok(s, i) \notin {"+", "-"}
  <2>1. u = Parsed(i, <<>>) /\ Sum(s, g, i) = u
    BY <1>1, <1>2 DEF Sum
  <2>2. u \in Parses /\ u.at = i
    <3>1. i \in Nat
      OBVIOUS
    <3> QED BY <2>1, <3>1, NothingRead
  <2> QED BY <1>1, <2>1, <2>2 DEF Moved, Tails
<1>3. CASE Tok(s, i) \in {"+", "-"}
  <2>1. i <= Len(s)
    BY <1>3, TokAt
  <2>2. i + 1 \in 1..(Len(s) + 1) /\ i + 1 > i /\ "term" \in Rules
    BY <2>1 DEF Rules
  <2>3. PICK t : t = f[<<"term", i + 1>>]
    OBVIOUS
  <2>4. t = g[<<"term", i + 1>>] /\ Moved(s, "term", i + 1, t)
    BY <2>2, <2>3 DEF Alike, Sooner
  <2>5. t \in Parses /\ (t.ok => t.at \in (i + 2)..(Len(s) + 1))
    <3>1. t \in Parses /\ (t.ok => t.at \in ((i + 1) + 1)..(Len(s) + 1))
      BY <2>4 DEF Moved, Tails
    <3> QED BY <3>1
  <2>6. PICK ins \in Instrs : ins = Instr(Tok(s, i), 0)
    BY <1>3, OpInstr, OperandsOfOps
  <2>7. PICK e : e = Emit(t, ins)
    OBVIOUS
  <2>8. e \in Parses /\ e.ok = t.ok /\ e.at = t.at
    BY <2>5, <2>7, EmitIs
  <2>9. t.ok => f[<<"sum", t.at>>] = g[<<"sum", t.at>>] /\ Moved(s, "sum", t.at, f[<<"sum", t.at>>])
    <3>1. ASSUME t.ok PROVE t.at \in 1..(Len(s) + 1) /\ t.at > i
      BY <2>5, <3>1
    <3>2. "sum" \in Rules
      BY DEF Rules
    <3> QED BY <3>1, <3>2 DEF Alike, Sooner
  <2>10. u = Joined(e, f[<<"sum", e.at>>]) /\ Sum(s, g, i) = Joined(e, g[<<"sum", e.at>>])
    BY <1>1, <1>3, <2>3, <2>4, <2>6, <2>7, <2>8 DEF Sum
  <2>11. "sum" \in Tails /\ i \in Nat /\ (e.ok => e.at \in i..(Len(s) + 1))
    BY <2>5, <2>8 DEF Tails
  <2>12. u = Sum(s, g, i) /\ u \in Parses /\ (u.ok => u.at \in i..(Len(s) + 1))
    BY <2>8, <2>9, <2>10, <2>11, JoinedAlike
  <2>13. Moved(s, "sum", i, u)
    BY <2>12 DEF Moved, Tails
  <2> QED BY <1>1, <2>12, <2>13
<1> QED BY <1>2, <1>3

LEMMA ProductIsLocal ==
  ASSUME NEW s, Len(s) \in Nat, NEW f, NEW g, NEW i \in 1..(Len(s) + 1), Alike(s, f, g, "product", i)
  PROVE  Product(s, f, i) = Product(s, g, i) /\ Moved(s, "product", i, Product(s, f, i))
<1>1. PICK u : u = Product(s, f, i)
  OBVIOUS
<1>2. CASE Tok(s, i) \notin {"*", "/"}
  <2>1. u = Parsed(i, <<>>) /\ Product(s, g, i) = u
    BY <1>1, <1>2 DEF Product
  <2>2. u \in Parses /\ u.at = i
    <3>1. i \in Nat
      OBVIOUS
    <3> QED BY <2>1, <3>1, NothingRead
  <2> QED BY <1>1, <2>1, <2>2 DEF Moved, Tails
<1>3. CASE Tok(s, i) \in {"*", "/"}
  <2>1. i <= Len(s)
    BY <1>3, TokAt
  <2>2. i + 1 \in 1..(Len(s) + 1) /\ i + 1 > i /\ "factor" \in Rules
    BY <2>1 DEF Rules
  <2>3. PICK t : t = f[<<"factor", i + 1>>]
    OBVIOUS
  <2>4. t = g[<<"factor", i + 1>>] /\ Moved(s, "factor", i + 1, t)
    BY <2>2, <2>3 DEF Alike, Sooner
  <2>5. t \in Parses /\ (t.ok => t.at \in (i + 2)..(Len(s) + 1))
    <3>1. t \in Parses /\ (t.ok => t.at \in ((i + 1) + 1)..(Len(s) + 1))
      BY <2>4 DEF Moved, Tails
    <3> QED BY <3>1
  <2>6. PICK ins \in Instrs : ins = Instr(Tok(s, i), 0)
    BY <1>3, OpInstr, OperandsOfOps
  <2>7. PICK e : e = Emit(t, ins)
    OBVIOUS
  <2>8. e \in Parses /\ e.ok = t.ok /\ e.at = t.at
    BY <2>5, <2>7, EmitIs
  <2>9. t.ok => /\ f[<<"product", t.at>>] = g[<<"product", t.at>>]
                /\ Moved(s, "product", t.at, f[<<"product", t.at>>])
    <3>1. ASSUME t.ok PROVE t.at \in 1..(Len(s) + 1) /\ t.at > i
      BY <2>5, <3>1
    <3>2. "product" \in Rules
      BY DEF Rules
    <3> QED BY <3>1, <3>2 DEF Alike, Sooner
  <2>10. u = Joined(e, f[<<"product", e.at>>]) /\ Product(s, g, i) = Joined(e, g[<<"product", e.at>>])
    BY <1>1, <1>3, <2>3, <2>4, <2>6, <2>7, <2>8 DEF Product
  <2>11. "product" \in Tails /\ i \in Nat /\ (e.ok => e.at \in i..(Len(s) + 1))
    BY <2>5, <2>8 DEF Tails
  <2>12. u = Product(s, g, i) /\ u \in Parses /\ (u.ok => u.at \in i..(Len(s) + 1))
    BY <2>8, <2>9, <2>10, <2>11, JoinedAlike
  <2>13. Moved(s, "product", i, u)
    BY <2>12 DEF Moved, Tails
  <2> QED BY <1>1, <2>12, <2>13
<1> QED BY <1>2, <1>3

LEMMA CallIsLocal ==
  ASSUME NEW s, Len(s) \in Nat, NEW f, NEW g, NEW i \in 1..(Len(s) + 1), Alike(s, f, g, "factor", i),
         Tok(s, i + 1) = "("
  PROVE  /\ Call(s, f, i) = Call(s, g, i) /\ Call(s, f, i) \in Parses
         /\ Call(s, f, i).ok => Call(s, f, i).at \in (i + 1)..(Len(s) + 1)
<1>1. i + 1 <= Len(s)
  BY TokAt
<1>2. i + 2 \in 1..(Len(s) + 1) /\ i + 2 > i /\ "args" \in Rules
  BY <1>1 DEF Rules
<1>3. PICK a : a = f[<<"args", i + 2>>]
  OBVIOUS
<1>4. a = g[<<"args", i + 2>>] /\ Moved(s, "args", i + 2, a)
  BY <1>2, <1>3 DEF Alike, Sooner
<1>5. a \in Parses /\ (a.ok => a.at \in (i + 3)..(Len(s) + 1))
  <2>1. a \in Parses /\ (a.ok => a.at \in ((i + 2) + 1)..(Len(s) + 1))
    BY <1>4 DEF Moved, Tails
  <2> QED BY <2>1
<1>6. PICK r : r = Expect(s, a, ")")
  OBVIOUS
<1>7. r \in Parses /\ (r.ok <=> a.ok /\ Tok(s, a.at) = ")") /\ (r.ok => r.at = a.at + 1)
  BY <1>5, <1>6, ExpectIs
<1>8. PICK u : u = Call(s, f, i)
  OBVIOUS
<1>9. u = Call(s, g, i)
  BY <1>3, <1>4, <1>8 DEF Call
<1>10. u \in Parses /\ (u.ok => u.at \in (i + 1)..(Len(s) + 1))
  <2>1. CASE ~r.ok
    <3>1. u = r
      BY <1>3, <1>6, <1>8, <2>1 DEF Call
    <3> QED BY <1>7, <2>1, <3>1
  <2>2. CASE r.ok /\ s[i] \in DOMAIN Arity /\ Arity[s[i]] = a.argc
    <3>1. u = Parsed(r.at, Append(r.code, Instr(s[i], 0)))
      BY <1>3, <1>6, <1>8, <2>2 DEF Call
    <3>2. Instr(s[i], 0) \in Instrs
      BY <2>2, OpInstr DEF OpNames
    <3>3. r.at \in Nat /\ Append(r.code, Instr(s[i], 0)) \in Seq(Instrs)
      BY <1>7, <3>2, ParseFields, AppendProperties
    <3>4. u \in Parses /\ u.at = r.at
      BY <3>1, <3>3, ParsedIs
    <3>5. a.at <= Len(s)
      <4>1. a.at \in Nat /\ Tok(s, a.at) # "end"
        BY <1>5, <1>7, <2>2, ParseFields
      <4> QED BY <4>1, TokAt
    <3>6. a.at \in (i + 3)..(Len(s) + 1) /\ r.at = a.at + 1
      BY <1>5, <1>7, <2>2
    <3>7. r.at \in (i + 1)..(Len(s) + 1)
      BY <3>5, <3>6
    <3> QED BY <3>4, <3>7
  <2>3. CASE r.ok /\ ~(s[i] \in DOMAIN Arity /\ Arity[s[i]] = a.argc)
    <3>1. u = Fail(a.at)
      BY <1>3, <1>6, <1>8, <2>3 DEF Call
    <3>2. a.at \in Nat
      BY <1>5, ParseFields
    <3> QED BY <3>1, <3>2, FailIs
  <2> QED BY <2>1, <2>2, <2>3
<1> QED BY <1>8, <1>9, <1>10

(* A name loads its parameter.                                             *)
LEMMA NameInstr ==
  ASSUME NEW t, Contains(Names, t)
  PROVE  /\ Instr("load", CHOOSE k \in DOMAIN Names : Names[k] = t) \in Instrs
         /\ (CHOOSE k \in DOMAIN Names : Names[k] = t) \in 1..Params
         /\ Names[CHOOSE k \in DOMAIN Names : Names[k] = t] = t
<1>1. PICK j \in 1..Len(Names) : Names[j] = t
  BY DEF Contains
<1>2. DOMAIN Names = 1..Params /\ Len(Names) = Params
  BY SandboxAssumption, LenProperties
<1>3. PICK n \in 1..Params : n = (CHOOSE k \in DOMAIN Names : Names[k] = t) /\ Names[n] = t
  BY <1>1, <1>2
<1>4. Instr("load", n) \in Instrs
  BY <1>3 DEF Instr, Instrs
<1> QED BY <1>3, <1>4

LEMMA IdentifierIsLocal ==
  ASSUME NEW s, Len(s) \in Nat, NEW f, NEW g, NEW i \in 1..Len(s), Alike(s, f, g, "factor", i)
  PROVE  /\ Identifier(s, f, i) = Identifier(s, g, i) /\ Identifier(s, f, i) \in Parses
         /\ Identifier(s, f, i).ok => Identifier(s, f, i).at \in (i + 1)..(Len(s) + 1)
<1>1. i \in 1..(Len(s) + 1) /\ i + 1 \in Nat /\ i + 1 \in (i + 1)..(Len(s) + 1)
  OBVIOUS
<1>2. CASE Tok(s, i + 1) = "("
  BY <1>1, <1>2, CallIsLocal DEF Identifier
<1>3. CASE Tok(s, i + 1) # "(" /\ Contains(Names, s[i])
  <2>1. PICK ins \in Instrs : ins = Instr("load", CHOOSE k \in DOMAIN Names : Names[k] = s[i])
    BY <1>3, NameInstr
  <2>2. Identifier(s, f, i) = Parsed(i + 1, <<ins>>) /\ Identifier(s, g, i) = Parsed(i + 1, <<ins>>)
    BY <1>3, <2>1 DEF Identifier
  <2>3. <<ins>> \in Seq(Instrs)
    OBVIOUS
  <2>4. Parsed(i + 1, <<ins>>) \in Parses /\ Parsed(i + 1, <<ins>>).at = i + 1
    BY <1>1, <2>3, ParsedIs
  <2> QED BY <1>1, <2>2, <2>4
<1>4. CASE Tok(s, i + 1) # "(" /\ ~Contains(Names, s[i])
  <2>1. Identifier(s, f, i) = Fail(i + 1) /\ Identifier(s, g, i) = Fail(i + 1)
    BY <1>4 DEF Identifier
  <2> QED BY <1>1, <2>1, FailIs
<1> QED BY <1>2, <1>3, <1>4

(* A word is no mark, and a number is no word.                             *)
LEMMA WordIsNoEnd ==
  ASSUME NEW t, t \in DOMAIN Literals \/ t \in DOMAIN Arity \/ Contains(Names, t)
  PROVE  /\ t \notin {"(", "-", "end"}
         /\ (t \in DOMAIN Literals => ~Contains(Names, t) /\ t \notin DOMAIN Arity)
<1>1. \A k \in 1..Len(Names) : Names[k] \notin Punctuation \cup DOMAIN Literals
  BY SandboxAssumption, LenProperties
<1>2. Contains(Names, t) => t \notin Punctuation \cup DOMAIN Literals
  BY <1>1 DEF Contains
<1>3. t \in DOMAIN Literals => t \notin Punctuation \cup DOMAIN Arity
  BY SandboxAssumption
<1>4. t \in DOMAIN Arity => t \notin {"(", "-", "end"}
  BY DEF Arity
<1> QED BY <1>2, <1>3, <1>4 DEF Punctuation

(* Which rule a factor is, by its first token.                             *)
LEMMA ParenFactor ==
  ASSUME NEW s, NEW p, NEW i \in Nat, Tok(s, i) = "("
  PROVE  Factor(s, p, i) = Expect(s, p[<<"expr", i + 1>>], ")")
<1>1. PICK t : t = Tok(s, i)
  OBVIOUS
<1> DEFINE word == t \in DOMAIN Arity \/ Contains(Names, t)
<1>2. t = "(" /\ t \notin DOMAIN Literals /\ ~word
  BY <1>1, WordIsNoEnd
<1>3. Factor(s, p, i) =
        CASE t = "(" -> Expect(s, p[<<"expr", i + 1>>], ")")
          [] t = "-" -> Emit(p[<<"factor", i + 1>>], Instr("neg", 0))
          [] t \in DOMAIN Literals -> Parsed(i + 1, <<Instr("const", Literals[t])>>)
          [] word -> Identifier(s, p, i)
          [] OTHER -> Fail(i)
  BY <1>1 DEF Factor
<1> HIDE DEF word
<1> QED BY <1>1, <1>2, <1>3 DEF word

LEMMA MinusFactor ==
  ASSUME NEW s, NEW p, NEW i \in Nat, Tok(s, i) = "-"
  PROVE  Factor(s, p, i) = Emit(p[<<"factor", i + 1>>], Instr("neg", 0))
<1>1. PICK t : t = Tok(s, i)
  OBVIOUS
<1> DEFINE word == t \in DOMAIN Arity \/ Contains(Names, t)
<1>2. t = "-" /\ t \notin DOMAIN Literals /\ ~word
  BY <1>1, WordIsNoEnd
<1>3. Factor(s, p, i) =
        CASE t = "(" -> Expect(s, p[<<"expr", i + 1>>], ")")
          [] t = "-" -> Emit(p[<<"factor", i + 1>>], Instr("neg", 0))
          [] t \in DOMAIN Literals -> Parsed(i + 1, <<Instr("const", Literals[t])>>)
          [] word -> Identifier(s, p, i)
          [] OTHER -> Fail(i)
  BY <1>1 DEF Factor
<1> HIDE DEF word
<1> QED BY <1>1, <1>2, <1>3 DEF word

LEMMA NumberFactor ==
  ASSUME NEW s, NEW p, NEW i \in Nat, Tok(s, i) \in DOMAIN Literals
  PROVE  Factor(s, p, i) = Parsed(i + 1, <<Instr("const", Literals[Tok(s, i)])>>)
<1>1. PICK t : t = Tok(s, i)
  OBVIOUS
<1> DEFINE word == t \in DOMAIN Arity \/ Contains(Names, t)
<1>2. t \in DOMAIN Literals /\ t # "(" /\ t # "-" /\ ~word
  BY <1>1, WordIsNoEnd
<1>3. Factor(s, p, i) =
        CASE t = "(" -> Expect(s, p[<<"expr", i + 1>>], ")")
          [] t = "-" -> Emit(p[<<"factor", i + 1>>], Instr("neg", 0))
          [] t \in DOMAIN Literals -> Parsed(i + 1, <<Instr("const", Literals[t])>>)
          [] word -> Identifier(s, p, i)
          [] OTHER -> Fail(i)
  BY <1>1 DEF Factor
<1> HIDE DEF word
<1> QED BY <1>1, <1>2, <1>3 DEF word

LEMMA WordFactor ==
  ASSUME NEW s, NEW p, NEW i \in Nat, Tok(s, i) \in DOMAIN Arity \/ Contains(Names, Tok(s, i))
  PROVE  Factor(s, p, i) = Identifier(s, p, i)
<1>1. PICK t : t = Tok(s, i)
  OBVIOUS
<1> DEFINE word == t \in DOMAIN Arity \/ Contains(Names, t)
<1>2. word /\ t # "(" /\ t # "-" /\ t \notin DOMAIN Literals
  BY <1>1, WordIsNoEnd
<1>3. Factor(s, p, i) =
        CASE t = "(" -> Expect(s, p[<<"expr", i + 1>>], ")")
          [] t = "-" -> Emit(p[<<"factor", i + 1>>], Instr("neg", 0))
          [] t \in DOMAIN Literals -> Parsed(i + 1, <<Instr("const", Literals[t])>>)
          [] word -> Identifier(s, p, i)
          [] OTHER -> Fail(i)
  BY <1>1 DEF Factor
<1> HIDE DEF word
<1> QED BY <1>1, <1>2, <1>3 DEF word

LEMMA NoFactor ==
  ASSUME NEW s, NEW p, NEW i \in Nat, Tok(s, i) \notin {"(", "-"} \cup DOMAIN Literals,
         ~(Tok(s, i) \in DOMAIN Arity \/ Contains(Names, Tok(s, i)))
  PROVE  Factor(s, p, i) = Fail(i)
<1>1. PICK t : t = Tok(s, i)
  OBVIOUS
<1> DEFINE word == t \in DOMAIN Arity \/ Contains(Names, t)
<1>2. ~word /\ t # "(" /\ t # "-" /\ t \notin DOMAIN Literals
  BY <1>1
<1>3. Factor(s, p, i) =
        CASE t = "(" -> Expect(s, p[<<"expr", i + 1>>], ")")
          [] t = "-" -> Emit(p[<<"factor", i + 1>>], Instr("neg", 0))
          [] t \in DOMAIN Literals -> Parsed(i + 1, <<Instr("const", Literals[t])>>)
          [] word -> Identifier(s, p, i)
          [] OTHER -> Fail(i)
  BY <1>1 DEF Factor
<1> HIDE DEF word
<1> QED BY <1>1, <1>2, <1>3 DEF word

(* A factor refers to later tokens only.                                   *)
LEMMA FactorIsLocal ==
  ASSUME NEW s, Len(s) \in Nat, NEW f, NEW g, NEW i \in 1..(Len(s) + 1), Alike(s, f, g, "factor", i)
  PROVE  Factor(s, f, i) = Factor(s, g, i) /\ Moved(s, "factor", i, Factor(s, f, i))
<1>1. PICK t : t = Tok(s, i)
  OBVIOUS
<1>2. t # "end" => i \in 1..Len(s) /\ i + 1 \in 1..(Len(s) + 1) /\ i + 1 > i /\ t = s[i]
  BY <1>1, TokAt
<1>3. PICK u : u = Factor(s, f, i)
  OBVIOUS
<1>4. \A k \in {"expr", "factor"} : t # "end" =>
        f[<<k, i + 1>>] = g[<<k, i + 1>>] /\ Moved(s, k, i + 1, f[<<k, i + 1>>])
  BY <1>2 DEF Alike, Sooner, Rules
<1>5. i \in Nat /\ i + 1 \in Nat
  OBVIOUS
<1>6. CASE t = "("
  <2>1. PICK e : e = f[<<"expr", i + 1>>]
    OBVIOUS
  <2>2. e = g[<<"expr", i + 1>>] /\ e \in Parses /\ (e.ok => e.at \in ((i + 1) + 1)..(Len(s) + 1))
    BY <1>4, <1>6, <2>1 DEF Moved, Tails
  <2>3. u = Expect(s, e, ")") /\ Factor(s, g, i) = u
    <3>1. Factor(s, f, i) = Expect(s, f[<<"expr", i + 1>>], ")")
      BY <1>1, <1>5, <1>6, ParenFactor
    <3>2. Factor(s, g, i) = Expect(s, g[<<"expr", i + 1>>], ")")
      BY <1>1, <1>5, <1>6, ParenFactor
    <3> QED BY <1>3, <2>1, <2>2, <3>1, <3>2
  <2>4. u \in Parses /\ (u.ok => e.ok /\ Tok(s, e.at) = ")" /\ u.at = e.at + 1)
    BY <2>2, <2>3, ExpectIs
  <2>5. u.ok => e.at <= Len(s)
    <3>1. ASSUME u.ok PROVE e.at \in Nat /\ Tok(s, e.at) # "end"
      BY <2>2, <2>4, <3>1, ParseFields
    <3> QED BY <3>1, TokAt
  <2>6. u.ok => u.at \in (i + 1)..(Len(s) + 1)
    <3>1. SUFFICES ASSUME u.ok PROVE u.at \in (i + 1)..(Len(s) + 1)
      OBVIOUS
    <3>2. e.at \in ((i + 1) + 1)..(Len(s) + 1) /\ e.at <= Len(s) /\ u.at = e.at + 1
      BY <2>2, <2>4, <2>5, <3>1
    <3> QED BY <3>2
  <2>7. Moved(s, "factor", i, u)
    BY <2>4, <2>6 DEF Moved, Tails
  <2> QED BY <1>3, <2>3, <2>7
<1>7. CASE t = "-"
  <2>1. PICK e : e = f[<<"factor", i + 1>>]
    OBVIOUS
  <2>2. e = g[<<"factor", i + 1>>] /\ e \in Parses /\ (e.ok => e.at \in ((i + 1) + 1)..(Len(s) + 1))
    BY <1>4, <1>7, <2>1 DEF Moved, Tails
  <2>3. PICK ins \in Instrs : ins = Instr("neg", 0)
    BY OpInstr, OperandsOfOps
  <2>4. u = Emit(e, ins) /\ Factor(s, g, i) = u
    <3>1. Factor(s, f, i) = Emit(f[<<"factor", i + 1>>], Instr("neg", 0))
      BY <1>1, <1>5, <1>7, MinusFactor
    <3>2. Factor(s, g, i) = Emit(g[<<"factor", i + 1>>], Instr("neg", 0))
      BY <1>1, <1>5, <1>7, MinusFactor
    <3> QED BY <1>3, <2>1, <2>2, <2>3, <3>1, <3>2
  <2>5. u \in Parses /\ u.ok = e.ok /\ u.at = e.at
    BY <2>2, <2>4, EmitIs
  <2>6. u.ok => u.at \in (i + 1)..(Len(s) + 1)
    BY <2>2, <2>5
  <2>7. Moved(s, "factor", i, u)
    BY <2>5, <2>6 DEF Moved, Tails
  <2> QED BY <1>3, <2>4, <2>7
<1>8. CASE t \in DOMAIN Literals
  <2>1. t \notin {"(", "-", "end"}
    BY <1>8, WordIsNoEnd
  <2>2. PICK ins \in Instrs : ins = Instr("const", Literals[t])
    BY <1>8, SandboxAssumption DEF Instr, Instrs
  <2>3. u = Parsed(i + 1, <<ins>>) /\ Factor(s, g, i) = u
    BY <1>1, <1>3, <1>8, <2>2, <1>5, NumberFactor
  <2>4. PICK c \in Seq(Instrs) : c = <<ins>>
    <3>1. <<ins>> \in Seq(Instrs)
      OBVIOUS
    <3> QED BY <3>1
  <2>5. u \in Parses /\ u.at = i + 1
    <3>1. PICK n \in Nat : n = i + 1
      BY <1>5
    <3>2. u = Parsed(n, c)
      BY <2>3, <2>4, <3>1
    <3> QED BY <3>1, <3>2, ParsedIs
  <2>6. u.at \in (i + 1)..(Len(s) + 1)
    BY <1>2, <2>1, <2>5
  <2> QED BY <1>3, <2>3, <2>5, <2>6 DEF Moved, Tails
<1>9. CASE t \notin DOMAIN Literals /\ (t \in DOMAIN Arity \/ Contains(Names, t))
  <2>1. t \notin {"(", "-", "end"}
    BY <1>9, WordIsNoEnd
  <2>2. u = Identifier(s, f, i) /\ Factor(s, g, i) = Identifier(s, g, i)
    BY <1>1, <1>3, <1>9, <1>5, WordFactor
  <2>3. i \in 1..Len(s)
    BY <1>2, <2>1
  <2>4. u = Identifier(s, g, i) /\ u \in Parses /\ (u.ok => u.at \in (i + 1)..(Len(s) + 1))
    BY <2>2, <2>3, IdentifierIsLocal
  <2>5. Moved(s, "factor", i, u)
    BY <2>4 DEF Moved, Tails
  <2> QED BY <1>3, <2>2, <2>4, <2>5
<1>10. CASE t \notin {"(", "-"} \cup DOMAIN Literals /\ ~(t \in DOMAIN Arity \/ Contains(Names, t))
  <2>1. u = Fail(i) /\ Factor(s, g, i) = u
    BY <1>1, <1>3, <1>10, <1>5, NoFactor
  <2>2. u \in Parses /\ ~u.ok
    BY <1>5, <2>1, FailIs
  <2> QED BY <1>3, <2>1, <2>2 DEF Moved
<1> QED BY <1>6, <1>7, <1>8, <1>9, <1>10

(* A comma does not end a text.                                            *)
LEMMA CommaIsNoEnd == Comma # "end"
BY DEF Comma

LEMMA ArgsIsLocal ==
  ASSUME NEW s, Len(s) \in Nat, NEW f, NEW g, NEW i \in 1..(Len(s) + 1), Alike(s, f, g, "args", i)
  PROVE  Args(s, f, i) = Args(s, g, i) /\ Moved(s, "args", i, Args(s, f, i))
<1>1. PICK e : e = f[<<"expr", i>>]
  OBVIOUS
<1>2. e = g[<<"expr", i>>] /\ e \in Parses /\ (e.ok => e.at \in (i + 1)..(Len(s) + 1))
  BY <1>1 DEF Alike, Sooner, Rank, Tails, Rules, Moved
<1>3. PICK u : u = Args(s, f, i)
  OBVIOUS
<1>4. CASE ~e.ok \/ Tok(s, e.at) # Comma
  <2>1. PICK n \in Nat : n = 1
    OBVIOUS
  <2>2. u = [e EXCEPT !.argc = n] /\ Args(s, g, i) = u
    BY <1>1, <1>2, <1>3, <1>4, <2>1 DEF Args
  <2>3. u \in Parses /\ u.ok = e.ok /\ u.at = e.at
    BY <1>2, <2>2, ArgcSet
  <2>4. u.ok => u.at \in (i + 1)..(Len(s) + 1)
    BY <1>2, <2>3
  <2> QED BY <1>3, <2>2, <2>3, <2>4 DEF Moved, Tails
<1>5. CASE e.ok /\ Tok(s, e.at) = Comma
  <2>1. e.at \in Nat
    BY <1>2, ParseFields
  <2>2. e.at <= Len(s)
    BY <1>5, <2>1, CommaIsNoEnd, TokAt
  <2>3. e.at + 1 \in (i + 1)..(Len(s) + 1) /\ e.at + 1 > i /\ e.at + 1 \in 1..(Len(s) + 1)
    <3>1. PICK j \in Nat : j = e.at
      BY <2>1
    <3>2. j \in (i + 1)..(Len(s) + 1) /\ j <= Len(s)
      BY <1>2, <1>5, <2>2, <3>1
    <3>3. j + 1 \in (i + 1)..(Len(s) + 1) /\ j + 1 > i /\ j + 1 \in 1..(Len(s) + 1)
      BY <3>2
    <3> QED BY <3>1, <3>3
  <2>4. PICK more : more = f[<<"args", e.at + 1>>]
    OBVIOUS
  <2>5. more = g[<<"args", e.at + 1>>] /\ Moved(s, "args", e.at + 1, more)
    BY <2>3, <2>4 DEF Alike, Sooner, Rules
  <2>6. more \in Parses /\ (more.ok => more.at \in ((e.at + 1) + 1)..(Len(s) + 1))
    BY <2>5 DEF Moved, Tails
  <2>7. PICK j : j = Joined(e, more)
    OBVIOUS
  <2>8. j \in Parses /\ j.ok = more.ok /\ j.at = more.at
    BY <1>2, <1>5, <2>6, <2>7, JoinedIs
  <2>9. PICK n \in Nat : n = more.argc + 1
    BY <2>6, ParseFields
  <2>10. u = [j EXCEPT !.argc = n] /\ Args(s, g, i) = u
    BY <1>1, <1>2, <1>3, <1>5, <2>4, <2>5, <2>7, <2>9 DEF Args
  <2>11. u \in Parses /\ u.ok = more.ok /\ u.at = more.at
    BY <2>8, <2>10, ArgcSet
  <2>12. u.ok => u.at \in (i + 1)..(Len(s) + 1)
    <3>1. SUFFICES ASSUME more.ok PROVE more.at \in (i + 1)..(Len(s) + 1)
      BY <2>11
    <3>2. more.at \in ((e.at + 1) + 1)..(Len(s) + 1)
      BY <2>6, <3>1
    <3> QED BY <2>1, <2>3, <3>2
  <2> QED BY <1>3, <2>10, <2>11, <2>12 DEF Moved, Tails
<1> QED BY <1>4, <1>5

(* Which rule is which, and that each depends on what it refers to only.   *)
LEMMA RuleOf ==
  ASSUME NEW s, NEW p, NEW k \in Rules, NEW i
  PROVE  /\ k = "expr"    => Rule(s, p, <<k, i>>) = Expr(s, p, i)
         /\ k = "sum"     => Rule(s, p, <<k, i>>) = Sum(s, p, i)
         /\ k = "term"    => Rule(s, p, <<k, i>>) = Term(s, p, i)
         /\ k = "product" => Rule(s, p, <<k, i>>) = Product(s, p, i)
         /\ k = "factor"  => Rule(s, p, <<k, i>>) = Factor(s, p, i)
         /\ k = "args"    => Rule(s, p, <<k, i>>) = Args(s, p, i)
BY DEF Rule

LEMMA RuleIsLocal ==
  ASSUME NEW s, Len(s) \in Nat, NEW f, NEW g, NEW k \in Rules, NEW i \in 1..(Len(s) + 1),
         Alike(s, f, g, k, i)
  PROVE  Rule(s, f, <<k, i>>) = Rule(s, g, <<k, i>>) /\ Moved(s, k, i, Rule(s, f, <<k, i>>))
<1>1. CASE k = "expr"
  BY <1>1, ExprIsLocal, RuleOf
<1>2. CASE k = "sum"
  BY <1>2, SumIsLocal, RuleOf
<1>3. CASE k = "term"
  BY <1>3, TermIsLocal, RuleOf
<1>4. CASE k = "product"
  BY <1>4, ProductIsLocal, RuleOf
<1>5. CASE k = "factor"
  BY <1>5, FactorIsLocal, RuleOf
<1>6. CASE k = "args"
  BY <1>6, ArgsIsLocal, RuleOf
<1> QED BY <1>1, <1>2, <1>3, <1>4, <1>5, <1>6 DEF Rules

(* How far a rule at a token is from the end.                              *)
Ahead(s, k, i) == 4 * (Len(s) + 1 - i) + Rank(k)

(* What a rule refers to is nearer to the end.                             *)
LEMMA SoonerIsAhead ==
  ASSUME NEW s, Len(s) \in Nat, NEW k \in Rules, NEW i \in 1..(Len(s) + 1)
  PROVE  /\ Ahead(s, k, i) \in Nat
         /\ \A rule \in Rules, at \in 1..(Len(s) + 1) :
              Sooner(k, i, rule, at) => Ahead(s, k, i) < Ahead(s, rule, at)
<1>1. \A r \in Rules : Rank(r) \in 0..3
  BY DEF Rules, Rank, Tails
<1>2. PICK n \in Nat : n = Len(s)
  OBVIOUS
<1>3. PICK a \in 0..3 : a = Rank(k)
  BY <1>1
<1>4. Ahead(s, k, i) = 4 * (n + 1 - i) + a
  BY <1>2, <1>3 DEF Ahead
<1>5. i \in 1..(n + 1)
  BY <1>2
<1>6. Ahead(s, k, i) \in Nat
  BY <1>3, <1>4, <1>5
<1>7. ASSUME NEW rule \in Rules, NEW at \in 1..(Len(s) + 1), Sooner(k, i, rule, at)
      PROVE  Ahead(s, k, i) < Ahead(s, rule, at)
  <2>1. PICK b \in 0..3 : b = Rank(rule)
    BY <1>1
  <2>2. Ahead(s, rule, at) = 4 * (n + 1 - at) + b
    BY <1>2, <2>1 DEF Ahead
  <2>3. i > at \/ (i = at /\ a < b)
    BY <1>3, <1>7, <2>1 DEF Sooner
  <2>4. at \in 1..(n + 1)
    BY <1>2
  <2> QED BY <1>3, <1>4, <1>5, <2>1, <2>2, <2>3, <2>4
<1> QED BY <1>6, <1>7

IsParse(p, s, m) ==
  \A k \in Rules, i \in 1..(Len(s) + 1) : Ahead(s, k, i) < m =>
    p[<<k, i>>] = Rule(s, p, <<k, i>>) /\ Moved(s, k, i, p[<<k, i>>])

(* A table of the rules exists, those near the end first.                  *)
LEMMA ParsesExist ==
  ASSUME NEW s, Len(s) \in Nat, NEW m \in Nat
  PROVE  \E p : IsParse(p, s, m)
<1> DEFINE S == {n \in Nat : \E p : IsParse(p, s, n)}
<1>1. 0 \in S
  <2>1. \A k \in Rules, i \in 1..(Len(s) + 1) : ~(Ahead(s, k, i) < 0)
    <3>1. ASSUME NEW k \in Rules, NEW i \in 1..(Len(s) + 1) PROVE ~(Ahead(s, k, i) < 0)
      <4>1. PICK a \in Nat : a = Ahead(s, k, i)
        BY SoonerIsAhead
      <4> QED BY <4>1
    <3> QED BY <3>1
  <2>2. IsParse(<<>>, s, 0)
    BY <2>1 DEF IsParse
  <2> QED BY <2>2
<1>2. ASSUME NEW n \in Nat, n \in S PROVE n + 1 \in S
  <2>1. PICK f : IsParse(f, s, n)
    BY <1>2
  <2> DEFINE g == [q \in Spots(s) |-> IF Ahead(s, q[1], q[2]) = n THEN Rule(s, f, q) ELSE f[q]]
  <2>2. ASSUME NEW k \in Rules, NEW i \in 1..(Len(s) + 1)
        PROVE  g[<<k, i>>] = IF Ahead(s, k, i) = n THEN Rule(s, f, <<k, i>>) ELSE f[<<k, i>>]
    <3>1. <<k, i>> \in Spots(s) /\ <<k, i>>[1] = k /\ <<k, i>>[2] = i
      BY DEF Spots
    <3> QED BY <3>1
  <2> HIDE DEF g
  <2>3. ASSUME NEW k \in Rules, NEW i \in 1..(Len(s) + 1), Ahead(s, k, i) < n + 1
        PROVE  g[<<k, i>>] = Rule(s, g, <<k, i>>) /\ Moved(s, k, i, g[<<k, i>>])
    <3>1. PICK a \in Nat : a = Ahead(s, k, i)
      BY SoonerIsAhead
    <3>2. ASSUME NEW j \in Rules, NEW l \in 1..(Len(s) + 1), Sooner(j, l, k, i)
          PROVE  f[<<j, l>>] = g[<<j, l>>] /\ Moved(s, j, l, f[<<j, l>>])
      <4>1. PICK b \in Nat : b = Ahead(s, j, l)
        BY SoonerIsAhead
      <4>2. b < a
        BY <3>1, <3>2, <4>1, SoonerIsAhead
      <4>3. b < n
        BY <2>3, <3>1, <4>2
      <4> QED BY <2>1, <2>2, <4>1, <4>3 DEF IsParse
    <3>3. Alike(s, f, g, k, i)
      BY <3>2 DEF Alike
    <3>4. Rule(s, f, <<k, i>>) = Rule(s, g, <<k, i>>) /\ Moved(s, k, i, Rule(s, f, <<k, i>>))
      BY <3>3, RuleIsLocal
    <3>5. CASE a = n
      BY <2>2, <3>1, <3>4, <3>5
    <3>6. CASE a # n
      <4>1. a < n
        BY <2>3, <3>1, <3>6
      <4>2. f[<<k, i>>] = Rule(s, f, <<k, i>>)
        BY <2>1, <3>1, <4>1 DEF IsParse
      <4> QED BY <2>2, <3>1, <3>4, <3>6, <4>2
    <3> QED BY <3>5, <3>6
  <2>4. IsParse(g, s, n + 1)
    BY <2>3 DEF IsParse
  <2> QED BY <2>4
<1> HIDE DEF S
<1>3. Nat \subseteq S
  BY <1>1, <1>2, Induction
<1> QED BY <1>3 DEF S

(* The table of the parser has, at each place, what the rule gives there.  *)
LEMMA ParseIs ==
  ASSUME NEW s, Len(s) \in Nat, NEW k \in Rules, NEW i \in 1..(Len(s) + 1)
  PROVE  Parse(s)[<<k, i>>] = Rule(s, Parse(s), <<k, i>>) /\ Moved(s, k, i, Parse(s)[<<k, i>>])
<1> DEFINE Is(p) == p = [q \in Rules \X (1..(Len(s) + 1)) |-> Rule(s, p, q)]
           P == CHOOSE p : Is(p)
<1>1. PICK m \in Nat : m = 4 * (Len(s) + 2)
  OBVIOUS
<1>2. PICK f : IsParse(f, s, m)
  BY ParsesExist
<1>3. ASSUME NEW j \in Rules, NEW l \in 1..(Len(s) + 1)
      PROVE  f[<<j, l>>] = Rule(s, f, <<j, l>>) /\ Moved(s, j, l, f[<<j, l>>])
  <2>1. Rank(j) \in 0..3
    BY DEF Rules, Rank, Tails
  <2>2. Ahead(s, j, l) < m
    BY <1>1, <2>1 DEF Ahead
  <2> QED BY <1>2, <2>2 DEF IsParse
<1> DEFINE g == [q \in Rules \X (1..(Len(s) + 1)) |-> f[q]]
<1>4. ASSUME NEW j \in Rules, NEW l \in 1..(Len(s) + 1)
      PROVE  g[<<j, l>>] = f[<<j, l>>] /\ g[<<j, l>>] = Rule(s, g, <<j, l>>)
  <2>1. \A a \in Rules, b \in 1..(Len(s) + 1) : g[<<a, b>>] = f[<<a, b>>]
    OBVIOUS
  <2> HIDE DEF g
  <2>2. Alike(s, f, g, j, l)
    BY <1>3, <2>1 DEF Alike
  <2>3. Rule(s, f, <<j, l>>) = Rule(s, g, <<j, l>>)
    BY <2>2, RuleIsLocal
  <2> QED BY <1>3, <2>1, <2>3
<1>5. Is(g)
  <2>1. \A q \in Rules \X (1..(Len(s) + 1)) : f[q] = Rule(s, g, q)
    <3>1. ASSUME NEW q \in Rules \X (1..(Len(s) + 1)) PROVE f[q] = Rule(s, g, q)
      <4>1. PICK j \in Rules, l \in 1..(Len(s) + 1) : q = <<j, l>>
        OBVIOUS
      <4> HIDE DEF g
      <4> QED BY <1>4, <4>1
    <3> QED BY <3>1
  <2> QED BY <2>1
<1>6. Is(P)
  <2> HIDE DEF Is
  <2> QED BY <1>5
<1>7. Parse(s) = P
  BY DEF Parse
<1>8. PICK p : p = P
  OBVIOUS
<1>9. \A j \in Rules, l \in 1..(Len(s) + 1) : p[<<j, l>>] = Rule(s, p, <<j, l>>)
  <2>1. p = [q \in Rules \X (1..(Len(s) + 1)) |-> Rule(s, p, q)]
    BY <1>6, <1>8
  <2> QED BY <2>1
<1> HIDE DEF P
<1> DEFINE S == {n \in Nat : IsParse(p, s, n)}
<1>10. 0 \in S
  <2>1. ASSUME NEW j \in Rules, NEW l \in 1..(Len(s) + 1) PROVE ~(Ahead(s, j, l) < 0)
    <3>1. PICK a \in Nat : a = Ahead(s, j, l)
      BY SoonerIsAhead
    <3> QED BY <3>1
  <2> QED BY <2>1 DEF IsParse
<1>11. ASSUME NEW n \in Nat, n \in S PROVE n + 1 \in S
  <2>1. ASSUME NEW j \in Rules, NEW l \in 1..(Len(s) + 1), Ahead(s, j, l) < n + 1
        PROVE  Moved(s, j, l, p[<<j, l>>])
    <3>1. PICK a \in Nat : a = Ahead(s, j, l)
      BY SoonerIsAhead
    <3>2. ASSUME NEW c \in Rules, NEW d \in 1..(Len(s) + 1), Sooner(c, d, j, l)
          PROVE  Moved(s, c, d, p[<<c, d>>])
      <4>1. PICK b \in Nat : b = Ahead(s, c, d)
        BY SoonerIsAhead
      <4>2. b < a
        BY <3>1, <3>2, <4>1, SoonerIsAhead
      <4>3. b < n
        BY <2>1, <3>1, <4>2
      <4> QED BY <1>11, <4>1, <4>3 DEF IsParse
    <3>3. Alike(s, p, p, j, l)
      BY <3>2 DEF Alike
    <3> QED BY <1>9, <3>3, RuleIsLocal
  <2> QED BY <1>9, <2>1 DEF IsParse
<1> HIDE DEF S
<1>12. Nat \subseteq S
  BY <1>10, <1>11, Induction
<1>13. IsParse(p, s, m)
  BY <1>12 DEF S
<1>14. Ahead(s, k, i) < m
  <2>1. Rank(k) \in 0..3
    BY DEF Rules, Rank, Tails
  <2> QED BY <1>1, <2>1 DEF Ahead
<1> QED BY <1>7, <1>8, <1>13, <1>14 DEF IsParse

-------------------------------------------------------------------------------
(* The readings of the parts of a text.                                    *)

Level(k) == CASE k = "factor" -> 0 [] k = "product" -> 1 [] k = "sum" -> 2 [] k = "list" -> 3

(* What a reading is made of: shorter parts, or simpler kinds of this one. *)
Simpler(k, i, j, kind, from, to) ==
  j - i < to - from \/ (j - i = to - from /\ Level(k) < Level(kind))

Valued(k, vs) == vs \subseteq IF k = "list" THEN Seq(Val) ELSE Val

Agree(s, f, g, kind, from, to) ==
  \A k \in Kinds, i \in 1..(Len(s) + 1), j \in 0..Len(s) : Simpler(k, i, j, kind, from, to) =>
    f[<<k, i, j>>] = g[<<k, i, j>>] /\ Valued(k, f[<<k, i, j>>])

(* An operator has a value for two.                                        *)
LEMMA TwoValues ==
  ASSUME NEW op \in Symbols, NEW a \in Val, NEW b \in Val
  PROVE  Apply(op, <<a, b>>) \in Val
<1>1. <<a, b>> \in Seq(Val) /\ Len(<<a, b>>) = 2 /\ Operands(op) = 2 /\ op \in OpNames
  BY OperandsOfOps DEF OpNames
<1> QED BY <1>1, ApplyIsAValue

(* Where the reading of an operator comes from, and that of a list.        *)
Combines(v, op, left, right) == \E a \in left, b \in right : v = Apply(op, <<a, b>>)

LEMMA InBoth ==
  ASSUME NEW op, NEW left, NEW right, NEW v \in Both(op, left, right)
  PROVE  Combines(v, op, left, right)
BY DEF Both, Combines

LEMMA InListed ==
  ASSUME NEW left, NEW right, NEW v \in Listed(left, right)
  PROVE  \E a \in left, l \in right : v = Cons(a, l)
BY DEF Listed

(* A sum, and what it may be made of. *)
LEMMA SumFrom ==
  ASSUME NEW s, NEW r, NEW i \in Int, NEW j \in Int, NEW v \in SumOf(s, r, i, j),
         v \notin r[<<"product", i, j>>]
  PROVE  \E k \in (i + 1)..(j - 1) :
            s[k] \in {"+", "-"} /\ v \in Both(s[k], r[<<"sum", i, k - 1>>], r[<<"product", k + 1, j>>])
<1> DEFINE F(k) == Both(s[k], r[<<"sum", i, k - 1>>], r[<<"product", k + 1, j>>])
           K == Marks(s, i + 1, j - 1, {"+", "-"})
<1>1. v \in UNION {F(k) : k \in K}
  BY DEF SumOf
<1> HIDE DEF F, K
<1>2. PICK k \in K : v \in F(k)
  BY <1>1
<1> USE DEF F, K
<1> QED BY <1>2 DEF Marks

LEMMA SumMadeOf ==
  ASSUME NEW s, NEW r, NEW i \in Int, NEW j \in Int, NEW v \in SumOf(s, r, i, j),
         v \notin r[<<"product", i, j>>]
  PROVE  \E k \in (i + 1)..(j - 1) :
            /\ s[k] \in {"+", "-"}
            /\ Combines(v, s[k], r[<<"sum", i, k - 1>>], r[<<"product", k + 1, j>>])
<1>1. PICK k \in (i + 1)..(j - 1) :
        s[k] \in {"+", "-"} /\ v \in Both(s[k], r[<<"sum", i, k - 1>>], r[<<"product", k + 1, j>>])
  BY SumFrom
<1>2. PICK left : left = r[<<"sum", i, k - 1>>]
  OBVIOUS
<1>3. PICK right : right = r[<<"product", k + 1, j>>]
  OBVIOUS
<1>4. PICK op : op = s[k]
  OBVIOUS
<1>5. v \in Both(op, left, right)
  BY <1>1, <1>2, <1>3, <1>4
<1>6. Combines(v, op, left, right)
  BY <1>5, InBoth
<1> QED BY <1>1, <1>2, <1>3, <1>4, <1>6

(* What a sum is made of is one of its readings.                           *)
LEMMA SumHas ==
  ASSUME NEW s, NEW r, NEW i \in Int, NEW j \in Int, NEW k \in (i + 1)..(j - 1), s[k] \in {"+", "-"},
         NEW v \in Both(s[k], r[<<"sum", i, k - 1>>], r[<<"product", k + 1, j>>])
  PROVE  v \in SumOf(s, r, i, j)
<1>1. k \in Marks(s, i + 1, j - 1, {"+", "-"})
  BY DEF Marks
<1> DEFINE F(n) == Both(s[n], r[<<"sum", i, n - 1>>], r[<<"product", n + 1, j>>])
           K == Marks(s, i + 1, j - 1, {"+", "-"})
<1>2. k \in K /\ v \in F(k)
  BY <1>1
<1>3. SumOf(s, r, i, j) = r[<<"product", i, j>>] \cup UNION {F(n) : n \in K}
  BY DEF SumOf
<1> HIDE DEF F, K
<1> QED BY <1>2, <1>3

(* The readings of a sum depend on those of its parts, and are values.     *)
LEMMA SumAgrees ==
  ASSUME NEW s, Len(s) \in Nat, NEW f, NEW g, NEW i \in 1..(Len(s) + 1), NEW j \in 0..Len(s),
         Agree(s, f, g, "sum", i, j)
  PROVE  SumOf(s, f, i, j) = SumOf(s, g, i, j) /\ Valued("sum", SumOf(s, f, i, j))
<1> DEFINE K == Marks(s, i + 1, j - 1, {"+", "-"})
           F(k) == Both(s[k], f[<<"sum", i, k - 1>>], f[<<"product", k + 1, j>>])
           G(k) == Both(s[k], g[<<"sum", i, k - 1>>], g[<<"product", k + 1, j>>])
<1>1. f[<<"product", i, j>>] = g[<<"product", i, j>>] /\ Valued("product", f[<<"product", i, j>>])
  BY DEF Agree, Simpler, Level, Kinds
<1>2. ASSUME NEW k \in (i + 1)..(j - 1)
      PROVE  /\ f[<<"sum", i, k - 1>>] = g[<<"sum", i, k - 1>>]
             /\ Valued("sum", f[<<"sum", i, k - 1>>])
             /\ f[<<"product", k + 1, j>>] = g[<<"product", k + 1, j>>]
             /\ Valued("product", f[<<"product", k + 1, j>>])
  <2>1. k - 1 \in 0..Len(s) /\ k + 1 \in 1..(Len(s) + 1) /\ (k - 1) - i < j - i /\ j - (k + 1) < j - i
    OBVIOUS
  <2>2. {"sum", "product"} \subseteq Kinds
    BY DEF Kinds
  <2> QED BY <2>1, <2>2 DEF Agree, Simpler
<1>3. SumOf(s, f, i, j) = SumOf(s, g, i, j)
  <2>1. SumOf(s, f, i, j) = f[<<"product", i, j>>] \cup UNION {F(k) : k \in K}
    BY DEF SumOf
  <2>2. SumOf(s, g, i, j) = g[<<"product", i, j>>] \cup UNION {G(k) : k \in K}
    BY DEF SumOf
  <2>3. ASSUME NEW k \in K PROVE F(k) = G(k)
    <3>1. k \in (i + 1)..(j - 1)
      BY DEF Marks
    <3> QED BY <1>2, <3>1
  <2> HIDE DEF F, G, K
  <2>4. {F(k) : k \in K} = {G(k) : k \in K}
    BY <2>3
  <2> QED BY <1>1, <2>1, <2>2, <2>4
<1>4. i \in Int /\ j \in Int
  OBVIOUS
<1>5. ASSUME NEW v \in SumOf(s, f, i, j), v \notin f[<<"product", i, j>>] PROVE v \in Val
  <2>1. \E k \in (i + 1)..(j - 1) :
            s[k] \in {"+", "-"} /\ v \in Both(s[k], f[<<"sum", i, k - 1>>], f[<<"product", k + 1, j>>])
    BY <1>4, <1>5, SumFrom
  <2>2. PICK k \in (i + 1)..(j - 1) :
            s[k] \in {"+", "-"} /\ v \in Both(s[k], f[<<"sum", i, k - 1>>], f[<<"product", k + 1, j>>])
    BY <2>1
  <2>3. PICK left : left = f[<<"sum", i, k - 1>>]
    OBVIOUS
  <2>4. PICK right : right = f[<<"product", k + 1, j>>]
    OBVIOUS
  <2>5. PICK op \in Symbols : op = s[k]
    BY <2>2 DEF Symbols
  <2>6. v \in Both(op, left, right)
    BY <2>2, <2>3, <2>4, <2>5
  <2>7. PICK a \in left, b \in right : v = Apply(op, <<a, b>>)
    <3>1. Combines(v, op, left, right)
      BY <2>6, InBoth
    <3> QED BY <3>1 DEF Combines
  <2>8. a \in Val /\ b \in Val
    BY <1>2, <2>3, <2>4, <2>7 DEF Valued
  <2> QED BY <2>7, <2>8, TwoValues
<1> QED BY <1>1, <1>3, <1>5 DEF Valued

(* A product, and what it may be made of. *)
LEMMA ProductFrom ==
  ASSUME NEW s, NEW r, NEW i \in Int, NEW j \in Int, NEW v \in ProductOf(s, r, i, j),
         v \notin r[<<"factor", i, j>>]
  PROVE  \E k \in (i + 1)..(j - 1) :
            s[k] \in {"*", "/"} /\ v \in Both(s[k], r[<<"product", i, k - 1>>], r[<<"factor", k + 1, j>>])
<1> DEFINE F(k) == Both(s[k], r[<<"product", i, k - 1>>], r[<<"factor", k + 1, j>>])
           K == Marks(s, i + 1, j - 1, {"*", "/"})
<1>1. v \in UNION {F(k) : k \in K}
  BY DEF ProductOf
<1> HIDE DEF F, K
<1>2. PICK k \in K : v \in F(k)
  BY <1>1
<1> USE DEF F, K
<1> QED BY <1>2 DEF Marks

LEMMA ProductMadeOf ==
  ASSUME NEW s, NEW r, NEW i \in Int, NEW j \in Int, NEW v \in ProductOf(s, r, i, j),
         v \notin r[<<"factor", i, j>>]
  PROVE  \E k \in (i + 1)..(j - 1) :
            /\ s[k] \in {"*", "/"}
            /\ Combines(v, s[k], r[<<"product", i, k - 1>>], r[<<"factor", k + 1, j>>])
<1>1. PICK k \in (i + 1)..(j - 1) :
        s[k] \in {"*", "/"} /\ v \in Both(s[k], r[<<"product", i, k - 1>>], r[<<"factor", k + 1, j>>])
  BY ProductFrom
<1>2. PICK left : left = r[<<"product", i, k - 1>>]
  OBVIOUS
<1>3. PICK right : right = r[<<"factor", k + 1, j>>]
  OBVIOUS
<1>4. PICK op : op = s[k]
  OBVIOUS
<1>5. v \in Both(op, left, right)
  BY <1>1, <1>2, <1>3, <1>4
<1>6. Combines(v, op, left, right)
  BY <1>5, InBoth
<1> QED BY <1>1, <1>2, <1>3, <1>4, <1>6

(* What a product is made of is one of its readings.                       *)
LEMMA ProductHas ==
  ASSUME NEW s, NEW r, NEW i \in Int, NEW j \in Int, NEW k \in (i + 1)..(j - 1), s[k] \in {"*", "/"},
         NEW v \in Both(s[k], r[<<"product", i, k - 1>>], r[<<"factor", k + 1, j>>])
  PROVE  v \in ProductOf(s, r, i, j)
<1>1. k \in Marks(s, i + 1, j - 1, {"*", "/"})
  BY DEF Marks
<1> DEFINE F(n) == Both(s[n], r[<<"product", i, n - 1>>], r[<<"factor", n + 1, j>>])
           K == Marks(s, i + 1, j - 1, {"*", "/"})
<1>2. k \in K /\ v \in F(k)
  BY <1>1
<1>3. ProductOf(s, r, i, j) = r[<<"factor", i, j>>] \cup UNION {F(n) : n \in K}
  BY DEF ProductOf
<1> HIDE DEF F, K
<1> QED BY <1>2, <1>3

(* The readings of a product depend on those of its parts, and are values. *)
LEMMA ProductAgrees ==
  ASSUME NEW s, Len(s) \in Nat, NEW f, NEW g, NEW i \in 1..(Len(s) + 1), NEW j \in 0..Len(s),
         Agree(s, f, g, "product", i, j)
  PROVE  ProductOf(s, f, i, j) = ProductOf(s, g, i, j) /\ Valued("product", ProductOf(s, f, i, j))
<1> DEFINE K == Marks(s, i + 1, j - 1, {"*", "/"})
           F(k) == Both(s[k], f[<<"product", i, k - 1>>], f[<<"factor", k + 1, j>>])
           G(k) == Both(s[k], g[<<"product", i, k - 1>>], g[<<"factor", k + 1, j>>])
<1>1. f[<<"factor", i, j>>] = g[<<"factor", i, j>>] /\ Valued("factor", f[<<"factor", i, j>>])
  BY DEF Agree, Simpler, Level, Kinds
<1>2. ASSUME NEW k \in (i + 1)..(j - 1)
      PROVE  /\ f[<<"product", i, k - 1>>] = g[<<"product", i, k - 1>>]
             /\ Valued("product", f[<<"product", i, k - 1>>])
             /\ f[<<"factor", k + 1, j>>] = g[<<"factor", k + 1, j>>]
             /\ Valued("factor", f[<<"factor", k + 1, j>>])
  <2>1. k - 1 \in 0..Len(s) /\ k + 1 \in 1..(Len(s) + 1) /\ (k - 1) - i < j - i /\ j - (k + 1) < j - i
    OBVIOUS
  <2>2. {"product", "factor"} \subseteq Kinds
    BY DEF Kinds
  <2> QED BY <2>1, <2>2 DEF Agree, Simpler
<1>3. ProductOf(s, f, i, j) = ProductOf(s, g, i, j)
  <2>1. ProductOf(s, f, i, j) = f[<<"factor", i, j>>] \cup UNION {F(k) : k \in K}
    BY DEF ProductOf
  <2>2. ProductOf(s, g, i, j) = g[<<"factor", i, j>>] \cup UNION {G(k) : k \in K}
    BY DEF ProductOf
  <2>3. ASSUME NEW k \in K PROVE F(k) = G(k)
    <3>1. k \in (i + 1)..(j - 1)
      BY DEF Marks
    <3> QED BY <1>2, <3>1
  <2> HIDE DEF F, G, K
  <2>4. {F(k) : k \in K} = {G(k) : k \in K}
    BY <2>3
  <2> QED BY <1>1, <2>1, <2>2, <2>4
<1>4. i \in Int /\ j \in Int
  OBVIOUS
<1>5. ASSUME NEW v \in ProductOf(s, f, i, j), v \notin f[<<"factor", i, j>>] PROVE v \in Val
  <2>1. \E k \in (i + 1)..(j - 1) :
            s[k] \in {"*", "/"} /\ v \in Both(s[k], f[<<"product", i, k - 1>>], f[<<"factor", k + 1, j>>])
    BY <1>4, <1>5, ProductFrom
  <2>2. PICK k \in (i + 1)..(j - 1) :
            s[k] \in {"*", "/"} /\ v \in Both(s[k], f[<<"product", i, k - 1>>], f[<<"factor", k + 1, j>>])
    BY <2>1
  <2>3. PICK left : left = f[<<"product", i, k - 1>>]
    OBVIOUS
  <2>4. PICK right : right = f[<<"factor", k + 1, j>>]
    OBVIOUS
  <2>5. PICK op \in Symbols : op = s[k]
    BY <2>2 DEF Symbols
  <2>6. v \in Both(op, left, right)
    BY <2>2, <2>3, <2>4, <2>5
  <2>7. PICK a \in left, b \in right : v = Apply(op, <<a, b>>)
    <3>1. Combines(v, op, left, right)
      BY <2>6, InBoth
    <3> QED BY <3>1 DEF Combines
  <2>8. a \in Val /\ b \in Val
    BY <1>2, <2>3, <2>4, <2>7 DEF Valued
  <2> QED BY <2>7, <2>8, TwoValues
<1> QED BY <1>1, <1>3, <1>5 DEF Valued

(* A list, and what it may be made of. *)
LEMMA ListFrom ==
  ASSUME NEW s, NEW r, NEW i \in Int, NEW j \in Int, NEW v \in ListOf(s, r, i, j),
         v \notin Single(r[<<"sum", i, j>>])
  PROVE  \E k \in i..j :
            s[k] \in {Comma} /\ v \in Listed(r[<<"sum", i, k - 1>>], r[<<"list", k + 1, j>>])
<1> DEFINE F(k) == Listed(r[<<"sum", i, k - 1>>], r[<<"list", k + 1, j>>])
           K == Marks(s, i, j, {Comma})
<1>1. v \in UNION {F(k) : k \in K}
  BY DEF ListOf
<1> HIDE DEF F, K
<1>2. PICK k \in K : v \in F(k)
  BY <1>1
<1> USE DEF F, K
<1> QED BY <1>2 DEF Marks

(* What a list is made of is one of its readings.                          *)
LEMMA ListHas ==
  ASSUME NEW s, NEW r, NEW i \in Int, NEW j \in Int, NEW k \in i..j, s[k] \in {Comma},
         NEW v \in Listed(r[<<"sum", i, k - 1>>], r[<<"list", k + 1, j>>])
  PROVE  v \in ListOf(s, r, i, j)
<1>1. k \in Marks(s, i, j, {Comma})
  BY DEF Marks
<1> DEFINE F(n) == Listed(r[<<"sum", i, n - 1>>], r[<<"list", n + 1, j>>])
           K == Marks(s, i, j, {Comma})
<1>2. k \in K /\ v \in F(k)
  BY <1>1
<1>3. ListOf(s, r, i, j) = Single(r[<<"sum", i, j>>]) \cup UNION {F(n) : n \in K}
  BY DEF ListOf
<1> HIDE DEF F, K
<1> QED BY <1>2, <1>3

(* The readings of a list depend on those of its parts, and are lists of   *)
(* values.                                                                 *)
LEMMA ListAgrees ==
  ASSUME NEW s, Len(s) \in Nat, NEW f, NEW g, NEW i \in 1..(Len(s) + 1), NEW j \in 0..Len(s),
         Agree(s, f, g, "list", i, j)
  PROVE  ListOf(s, f, i, j) = ListOf(s, g, i, j) /\ Valued("list", ListOf(s, f, i, j))
<1> DEFINE K == Marks(s, i, j, {Comma})
           F(k) == Listed(f[<<"sum", i, k - 1>>], f[<<"list", k + 1, j>>])
           G(k) == Listed(g[<<"sum", i, k - 1>>], g[<<"list", k + 1, j>>])
<1>1. f[<<"sum", i, j>>] = g[<<"sum", i, j>>] /\ Valued("sum", f[<<"sum", i, j>>])
  BY DEF Agree, Simpler, Level, Kinds
<1>2. ASSUME NEW k \in i..j
      PROVE  /\ f[<<"sum", i, k - 1>>] = g[<<"sum", i, k - 1>>]
             /\ Valued("sum", f[<<"sum", i, k - 1>>])
             /\ f[<<"list", k + 1, j>>] = g[<<"list", k + 1, j>>]
             /\ Valued("list", f[<<"list", k + 1, j>>])
  <2>1. k - 1 \in 0..Len(s) /\ k + 1 \in 1..(Len(s) + 1) /\ (k - 1) - i < j - i /\ j - (k + 1) < j - i
    OBVIOUS
  <2>2. {"sum", "list"} \subseteq Kinds
    BY DEF Kinds
  <2> QED BY <2>1, <2>2 DEF Agree, Simpler
<1>3. ListOf(s, f, i, j) = ListOf(s, g, i, j)
  <2>1. ListOf(s, f, i, j) = Single(f[<<"sum", i, j>>]) \cup UNION {F(k) : k \in K}
    BY DEF ListOf
  <2>2. ListOf(s, g, i, j) = Single(g[<<"sum", i, j>>]) \cup UNION {G(k) : k \in K}
    BY DEF ListOf
  <2>3. ASSUME NEW k \in K PROVE F(k) = G(k)
    <3>1. k \in i..j
      BY DEF Marks
    <3> QED BY <1>2, <3>1
  <2> HIDE DEF F, G, K
  <2>4. {F(k) : k \in K} = {G(k) : k \in K}
    BY <2>3
  <2> QED BY <1>1, <2>1, <2>2, <2>4
<1>4. i \in Int /\ j \in Int
  OBVIOUS
<1>5. ASSUME NEW v \in Single(f[<<"sum", i, j>>]) PROVE v \in Seq(Val)
  <2>1. PICK a \in f[<<"sum", i, j>>] : v = <<a>>
    BY DEF Single
  <2>2. a \in Val
    BY <1>1 DEF Valued
  <2> QED BY <2>1, <2>2
<1>6. ASSUME NEW v \in ListOf(s, f, i, j), v \notin Single(f[<<"sum", i, j>>]) PROVE v \in Seq(Val)
  <2>1. \E k \in i..j :
            s[k] \in {Comma} /\ v \in Listed(f[<<"sum", i, k - 1>>], f[<<"list", k + 1, j>>])
    BY <1>4, <1>6, ListFrom
  <2>2. PICK k \in i..j :
            s[k] \in {Comma} /\ v \in Listed(f[<<"sum", i, k - 1>>], f[<<"list", k + 1, j>>])
    BY <2>1
  <2>3. PICK left : left = f[<<"sum", i, k - 1>>]
    OBVIOUS
  <2>4. PICK right : right = f[<<"list", k + 1, j>>]
    OBVIOUS
  <2>5. v \in Listed(left, right)
    BY <2>2, <2>3, <2>4
  <2>6. PICK a \in left, l \in right : v = Cons(a, l)
    BY <2>5, InListed
  <2>7. a \in Val /\ l \in Seq(Val)
    BY <1>2, <2>3, <2>4, <2>6 DEF Valued
  <2>8. <<a>> \in Seq(Val)
    BY <2>7
  <2> QED BY <2>6, <2>7, <2>8, ConcatProperties DEF Cons
<1> QED BY <1>3, <1>5, <1>6 DEF Valued

(* The factors by their first token.                                       *)
LEMMA InAtom ==
  ASSUME NEW t, NEW in \in Vectors, NEW v \in Atom(t, in)
  PROVE  \/ t \in DOMAIN Literals /\ v = Number(Literals[t])
         \/ \E k \in DOMAIN Names : Names[k] = t /\ v = Number(in[k])
BY DEF Atom

(* The readings of a token, of a sign and of a call are values.            *)
LEMMA AtomIsAValue ==
  ASSUME NEW t, NEW in \in Vectors PROVE Atom(t, in) \subseteq Val
<1>1. ASSUME NEW v \in Atom(t, in) PROVE v \in Val
  <2>1. CASE t \in DOMAIN Literals /\ v = Number(Literals[t])
    <3>1. PICK n \in Int : n = Literals[t]
      BY <2>1, SandboxAssumption
    <3> QED BY <2>1, <3>1, Numbers
  <2>2. CASE \E k \in DOMAIN Names : Names[k] = t /\ v = Number(in[k])
    <3>1. PICK k \in DOMAIN Names : Names[k] = t /\ v = Number(in[k])
      BY <2>2
    <3>2. k \in 1..Params
      BY SandboxAssumption
    <3>3. PICK n \in Int : n = in[k]
      BY <3>2 DEF Vectors
    <3> QED BY <3>1, <3>3, Numbers
  <2> QED BY <2>1, <2>2, InAtom
<1> QED BY <1>1

LEMMA NegatedIsAValue ==
  ASSUME NEW right, right \subseteq Val PROVE Negated(right) \subseteq Val
<1>1. ASSUME NEW a \in right PROVE Apply("neg", <<a>>) \in Val
  <2>1. <<a>> \in Seq(Val) /\ Len(<<a>>) = Operands("neg") /\ "neg" \in OpNames
    BY OperandsOfOps DEF OpNames
  <2> QED BY <2>1, ApplyIsAValue
<1> QED BY <1>1 DEF Negated

LEMMA CalledIsAValue ==
  ASSUME NEW name \in DOMAIN Arity, NEW lists, lists \subseteq Seq(Val)
  PROVE  Called(name, lists) \subseteq Val
<1>1. ASSUME NEW l \in lists, Len(l) = Arity[name] PROVE Apply(name, l) \in Val
  <2>1. name \in OpNames /\ Operands(name) = Arity[name]
    BY OperandsOfOps DEF OpNames, Arity, Operands
  <2> QED BY <1>1, <2>1, ApplyIsAValue
<1> QED BY <1>1 DEF Called

(* The readings of a factor depend on those of its parts, and are values.  *)
LEMMA FactorAgrees ==
  ASSUME NEW s, Len(s) \in Nat, NEW in \in Vectors, NEW f, NEW g,
         NEW i \in 1..(Len(s) + 1), NEW j \in 0..Len(s), Agree(s, f, g, "factor", i, j)
  PROVE  /\ FactorOf(s, in, f, i, j) = FactorOf(s, in, g, i, j)
         /\ Valued("factor", FactorOf(s, in, f, i, j))
<1>1. ASSUME i < j
      PROVE  /\ f[<<"factor", i + 1, j>>] = g[<<"factor", i + 1, j>>]
             /\ f[<<"factor", i + 1, j>>] \subseteq Val
  <2>1. i + 1 \in 1..(Len(s) + 1) /\ j - (i + 1) < j - i /\ "factor" \in Kinds
    BY <1>1 DEF Kinds
  <2> QED BY <2>1 DEF Agree, Simpler, Valued
<1>2. ASSUME i < j
      PROVE  /\ f[<<"sum", i + 1, j - 1>>] = g[<<"sum", i + 1, j - 1>>]
             /\ f[<<"sum", i + 1, j - 1>>] \subseteq Val
  <2>1. i + 1 \in 1..(Len(s) + 1) /\ j - 1 \in 0..Len(s) /\ (j - 1) - (i + 1) < j - i /\ "sum" \in Kinds
    BY <1>2 DEF Kinds
  <2> QED BY <2>1 DEF Agree, Simpler, Valued
<1>3. ASSUME i + 1 < j
      PROVE  /\ f[<<"list", i + 2, j - 1>>] = g[<<"list", i + 2, j - 1>>]
             /\ f[<<"list", i + 2, j - 1>>] \subseteq Seq(Val)
  <2>1. i + 2 \in 1..(Len(s) + 1) /\ j - 1 \in 0..Len(s) /\ (j - 1) - (i + 2) < j - i /\ "list" \in Kinds
    BY <1>3 DEF Kinds
  <2> QED BY <2>1 DEF Agree, Simpler, Valued
<1>4. FactorOf(s, in, f, i, j) = FactorOf(s, in, g, i, j)
  BY <1>1, <1>2, <1>3 DEF FactorOf
<1>5. i \in Int /\ j \in Int
  OBVIOUS
<1>6. CASE FactorOf(s, in, f, i, j) = {}
  BY <1>4, <1>6 DEF Valued
<1>7. CASE i = j /\ FactorOf(s, in, f, i, j) = Atom(s[i], in)
  BY <1>4, <1>7, AtomIsAValue DEF Valued
<1>8. CASE i < j /\ FactorOf(s, in, f, i, j) = Negated(f[<<"factor", i + 1, j>>])
  BY <1>1, <1>4, <1>8, NegatedIsAValue DEF Valued
<1>9. CASE i < j /\ FactorOf(s, in, f, i, j) = f[<<"sum", i + 1, j - 1>>]
  BY <1>2, <1>4, <1>9 DEF Valued
<1>10. CASE /\ i + 1 < j /\ s[i] \in DOMAIN Arity
            /\ FactorOf(s, in, f, i, j) = Called(s[i], f[<<"list", i + 2, j - 1>>])
  BY <1>3, <1>4, <1>10, CalledIsAValue DEF Valued
<1>11. PICK e : e = FactorOf(s, in, f, i, j)
  OBVIOUS
<1>12. \/ e = {}
       \/ i = j /\ e = Atom(s[i], in)
       \/ i < j /\ e = Negated(f[<<"factor", i + 1, j>>])
       \/ i < j /\ e = f[<<"sum", i + 1, j - 1>>]
       \/ i + 1 < j /\ s[i] \in DOMAIN Arity /\ e = Called(s[i], f[<<"list", i + 2, j - 1>>])
  BY <1>11 DEF FactorOf
<1> QED BY <1>6, <1>7, <1>8, <1>9, <1>10, <1>11, <1>12

(* So do those of every part of a text.                                    *)
LEMMA ReadingIsLocal ==
  ASSUME NEW s, Len(s) \in Nat, NEW in \in Vectors, NEW f, NEW g, NEW k \in Kinds,
         NEW i \in 1..(Len(s) + 1), NEW j \in 0..Len(s), Agree(s, f, g, k, i, j)
  PROVE  /\ Reading(s, in, f, <<k, i, j>>) = Reading(s, in, g, <<k, i, j>>)
         /\ Valued(k, Reading(s, in, f, <<k, i, j>>))
<1>1. PICK q : q = <<k, i, j>>
  OBVIOUS
<1>2. q[1] = k /\ q[2] = i /\ q[3] = j
  BY <1>1
<1>3. CASE k = "sum"
  BY <1>1, <1>2, <1>3, SumAgrees DEF Reading
<1>4. CASE k = "product"
  BY <1>1, <1>2, <1>4, ProductAgrees DEF Reading
<1>5. CASE k = "factor"
  BY <1>1, <1>2, <1>5, FactorAgrees DEF Reading
<1>6. CASE k = "list"
  BY <1>1, <1>2, <1>6, ListAgrees DEF Reading
<1> QED BY <1>3, <1>4, <1>5, <1>6 DEF Kinds

(* The parts of a text, the shorter and the simpler first.                 *)
Span(s, k, i, j) == 4 * (j - i + Len(s) + 1) + Level(k)

(* What a reading is made of has the smaller span.                         *)
LEMMA SimplerIsShorter ==
  ASSUME NEW s, Len(s) \in Nat, NEW k \in Kinds, NEW i \in 1..(Len(s) + 1), NEW j \in 0..Len(s)
  PROVE  /\ Span(s, k, i, j) \in Nat /\ Span(s, k, i, j) < 8 * (Len(s) + 2)
         /\ \A l \in Kinds, from \in 1..(Len(s) + 1), to \in 0..Len(s) :
              Simpler(k, i, j, l, from, to) => Span(s, k, i, j) < Span(s, l, from, to)
<1>1. \A l \in Kinds : Level(l) \in 0..3
  BY DEF Kinds, Level
<1>2. PICK a \in 0..3 : a = Level(k)
  BY <1>1
<1>3. PICK n \in Nat : n = Len(s)
  OBVIOUS
<1>4. ASSUME NEW l \in Kinds, NEW from \in 1..(n + 1), NEW to \in 0..n, Simpler(k, i, j, l, from, to)
      PROVE  Span(s, k, i, j) < Span(s, l, from, to)
  <2>1. PICK b \in 0..3 : b = Level(l)
    BY <1>1
  <2>2. j - i < to - from \/ (j - i = to - from /\ a < b)
    BY <1>2, <1>4, <2>1 DEF Simpler
  <2>3. 4 * (j - i + n + 1) + a < 4 * (to - from + n + 1) + b
    BY <1>3, <2>2
  <2> QED BY <1>2, <1>3, <2>1, <2>3 DEF Span
<1>5. 4 * (j - i + n + 1) + a \in Nat /\ 4 * (j - i + n + 1) + a < 8 * (n + 2)
  BY <1>3
<1> QED BY <1>2, <1>3, <1>4, <1>5 DEF Span

AreReadings(r, s, in, m) ==
  \A k \in Kinds, i \in 1..(Len(s) + 1), j \in 0..Len(s) : Span(s, k, i, j) < m =>
    r[<<k, i, j>>] = Reading(s, in, r, <<k, i, j>>) /\ Valued(k, r[<<k, i, j>>])

(* A table of the readings exists, those of the small parts first.         *)
LEMMA ReadingsExist ==
  ASSUME NEW s, Len(s) \in Nat, NEW in \in Vectors, NEW m \in Nat
  PROVE  \E r : AreReadings(r, s, in, m)
<1> DEFINE S == {n \in Nat : \E r : AreReadings(r, s, in, n)}
<1>1. 0 \in S
  <2>1. ASSUME NEW k \in Kinds, NEW i \in 1..(Len(s) + 1), NEW j \in 0..Len(s)
        PROVE  ~(Span(s, k, i, j) < 0)
    <3>1. PICK a \in Nat : a = Span(s, k, i, j)
      BY SimplerIsShorter
    <3> QED BY <3>1
  <2>2. AreReadings(<<>>, s, in, 0)
    BY <2>1 DEF AreReadings
  <2> QED BY <2>2
<1>2. ASSUME NEW n \in Nat, n \in S PROVE n + 1 \in S
  <2>1. PICK f : AreReadings(f, s, in, n)
    BY <1>2
  <2> DEFINE D == Kinds \X (1..(Len(s) + 1)) \X (0..Len(s))
             g == [q \in D |-> IF Span(s, q[1], q[2], q[3]) = n THEN Reading(s, in, f, q) ELSE f[q]]
  <2>2. ASSUME NEW k \in Kinds, NEW i \in 1..(Len(s) + 1), NEW j \in 0..Len(s)
        PROVE  g[<<k, i, j>>] =
                 IF Span(s, k, i, j) = n THEN Reading(s, in, f, <<k, i, j>>) ELSE f[<<k, i, j>>]
    <3>1. <<k, i, j>> \in D /\ <<k, i, j>>[1] = k /\ <<k, i, j>>[2] = i /\ <<k, i, j>>[3] = j
      OBVIOUS
    <3> QED BY <3>1
  <2> HIDE DEF g
  <2>3. ASSUME NEW k \in Kinds, NEW i \in 1..(Len(s) + 1), NEW j \in 0..Len(s), Span(s, k, i, j) < n + 1
        PROVE  g[<<k, i, j>>] = Reading(s, in, g, <<k, i, j>>) /\ Valued(k, g[<<k, i, j>>])
    <3>1. PICK a \in Nat : a = Span(s, k, i, j)
      BY SimplerIsShorter
    <3>2. ASSUME NEW l \in Kinds, NEW x \in 1..(Len(s) + 1), NEW y \in 0..Len(s), Simpler(l, x, y, k, i, j)
          PROVE  f[<<l, x, y>>] = g[<<l, x, y>>] /\ Valued(l, f[<<l, x, y>>])
      <4>1. PICK b \in Nat : b = Span(s, l, x, y)
        BY SimplerIsShorter
      <4>2. b < a
        BY <3>1, <3>2, <4>1, SimplerIsShorter
      <4>3. b < n
        BY <2>3, <3>1, <4>2
      <4> QED BY <2>1, <2>2, <4>1, <4>3 DEF AreReadings
    <3>3. Agree(s, f, g, k, i, j)
      BY <3>2 DEF Agree
    <3>4. /\ Reading(s, in, f, <<k, i, j>>) = Reading(s, in, g, <<k, i, j>>)
          /\ Valued(k, Reading(s, in, f, <<k, i, j>>))
      BY <3>3, ReadingIsLocal
    <3>5. CASE a = n
      BY <2>2, <3>1, <3>4, <3>5
    <3>6. CASE a # n
      <4>1. a < n
        BY <2>3, <3>1, <3>6
      <4>2. f[<<k, i, j>>] = Reading(s, in, f, <<k, i, j>>)
        BY <2>1, <3>1, <4>1 DEF AreReadings
      <4> QED BY <2>2, <3>1, <3>4, <3>6, <4>2
    <3> QED BY <3>5, <3>6
  <2>4. AreReadings(g, s, in, n + 1)
    BY <2>3 DEF AreReadings
  <2> QED BY <2>4
<1> HIDE DEF S
<1>3. Nat \subseteq S
  BY <1>1, <1>2, Induction
<1> QED BY <1>3 DEF S

(* The table of the reference has, at each place, the readings there, and  *)
(* they are values.                                                        *)
LEMMA ReadingsIs ==
  ASSUME NEW s, Len(s) \in Nat, NEW in \in Vectors, NEW k \in Kinds,
         NEW i \in 1..(Len(s) + 1), NEW j \in 0..Len(s)
  PROVE  /\ Readings(s, in)[<<k, i, j>>] = Reading(s, in, Readings(s, in), <<k, i, j>>)
         /\ Valued(k, Readings(s, in)[<<k, i, j>>])
<1> DEFINE D == Kinds \X (1..(Len(s) + 1)) \X (0..Len(s))
           Is(r) == r = [q \in D |-> Reading(s, in, r, q)]
           R == CHOOSE r : Is(r)
<1>1. PICK m \in Nat : m = 8 * (Len(s) + 2)
  OBVIOUS
<1>2. PICK f : AreReadings(f, s, in, m)
  BY ReadingsExist
<1>3. ASSUME NEW l \in Kinds, NEW x \in 1..(Len(s) + 1), NEW y \in 0..Len(s)
      PROVE  f[<<l, x, y>>] = Reading(s, in, f, <<l, x, y>>) /\ Valued(l, f[<<l, x, y>>])
  <2>1. Span(s, l, x, y) < m
    BY <1>1, SimplerIsShorter
  <2> QED BY <1>2, <2>1 DEF AreReadings
<1> DEFINE g == [q \in D |-> f[q]]
<1>4. ASSUME NEW l \in Kinds, NEW x \in 1..(Len(s) + 1), NEW y \in 0..Len(s)
      PROVE  g[<<l, x, y>>] = f[<<l, x, y>>] /\ g[<<l, x, y>>] = Reading(s, in, g, <<l, x, y>>)
  <2>1. \A a \in Kinds, b \in 1..(Len(s) + 1), c \in 0..Len(s) : g[<<a, b, c>>] = f[<<a, b, c>>]
    OBVIOUS
  <2> HIDE DEF g
  <2>2. Agree(s, f, g, l, x, y)
    BY <1>3, <2>1 DEF Agree
  <2>3. /\ Reading(s, in, f, <<l, x, y>>) = Reading(s, in, g, <<l, x, y>>)
        /\ Valued(l, Reading(s, in, f, <<l, x, y>>))
    BY <2>2, ReadingIsLocal
  <2> QED BY <1>3, <2>1, <2>3
<1>5. Is(g)
  <2>1. ASSUME NEW q \in D PROVE f[q] = Reading(s, in, g, q)
    <3>1. PICK l \in Kinds, x \in 1..(Len(s) + 1), y \in 0..Len(s) : q = <<l, x, y>>
      OBVIOUS
    <3> HIDE DEF g
    <3> QED BY <1>4, <3>1
  <2> QED BY <2>1
<1>6. Is(R)
  <2> HIDE DEF Is
  <2> QED BY <1>5
<1>7. Readings(s, in) = R
  BY DEF Readings
<1>8. PICK r : r = R
  OBVIOUS
<1>9. \A l \in Kinds, x \in 1..(Len(s) + 1), y \in 0..Len(s) :
        r[<<l, x, y>>] = Reading(s, in, r, <<l, x, y>>)
  <2>1. r = [q \in D |-> Reading(s, in, r, q)]
    BY <1>6, <1>8
  <2> QED BY <2>1
<1> HIDE DEF R
<1> DEFINE S == {n \in Nat : AreReadings(r, s, in, n)}
<1>10. 0 \in S
  <2>1. ASSUME NEW l \in Kinds, NEW x \in 1..(Len(s) + 1), NEW y \in 0..Len(s)
        PROVE  ~(Span(s, l, x, y) < 0)
    <3>1. PICK a \in Nat : a = Span(s, l, x, y)
      BY SimplerIsShorter
    <3> QED BY <3>1
  <2> QED BY <2>1 DEF AreReadings
<1>11. ASSUME NEW n \in Nat, n \in S PROVE n + 1 \in S
  <2>1. ASSUME NEW l \in Kinds, NEW x \in 1..(Len(s) + 1), NEW y \in 0..Len(s), Span(s, l, x, y) < n + 1
        PROVE  Valued(l, r[<<l, x, y>>])
    <3>1. PICK a \in Nat : a = Span(s, l, x, y)
      BY SimplerIsShorter
    <3>2. ASSUME NEW c \in Kinds, NEW d \in 1..(Len(s) + 1), NEW e \in 0..Len(s), Simpler(c, d, e, l, x, y)
          PROVE  Valued(c, r[<<c, d, e>>])
      <4>1. PICK b \in Nat : b = Span(s, c, d, e)
        BY SimplerIsShorter
      <4>2. b < a
        BY <3>1, <3>2, <4>1, SimplerIsShorter
      <4>3. b < n
        BY <2>1, <3>1, <4>2
      <4> QED BY <1>11, <4>1, <4>3 DEF AreReadings
    <3>3. Agree(s, r, r, l, x, y)
      BY <3>2 DEF Agree
    <3> QED BY <1>9, <3>3, ReadingIsLocal
  <2> QED BY <1>9, <2>1 DEF AreReadings
<1> HIDE DEF S
<1>12. Nat \subseteq S
  BY <1>10, <1>11, Induction
<1>13. AreReadings(r, s, in, m)
  BY <1>12 DEF S
<1>14. Span(s, k, i, j) < m
  BY <1>1, SimplerIsShorter
<1> QED BY <1>7, <1>8, <1>13, <1>14 DEF AreReadings

-------------------------------------------------------------------------------
(* The parser emits what the readings say.                                 *)

(* Sequences of values are sequences of values, however they are put       *)
(* together.                                                               *)
LEMMA SequencesOfValues ==
  ASSUME NEW a \in Val, NEW b \in Val
  PROVE  /\ <<>> \in Seq(Val) /\ <<a>> \in Seq(Val) /\ <<a, b>> \in Seq(Val)
         /\ <<a>> \o <<>> = <<a>> /\ <<a>> \o <<b>> = <<a, b>>
<1>1. <<>> \in Seq(Val) /\ <<a, b>> \in Seq(Val)
  OBVIOUS
<1>2. PICK x \in Seq(Val) : x = <<a>>
  <2>1. <<a>> \in Seq(Val)
    OBVIOUS
  <2> QED BY <2>1
<1>3. x \o <<>> = x
  BY ConcatEmptySeq
<1>4. Append(x, b) = x \o <<b>>
  BY AppendIsConcat
<1>5. Append(x, b) = <<a, b>>
  <2>1. PICK y \in Seq(Val) : y = Append(x, b) /\ Len(y) = 2 /\ y[1] = a /\ y[2] = b
    <3>1. Len(x) = 1 /\ x[1] = a
      BY <1>2
    <3>2. PICK z : z = Append(x, b)
      OBVIOUS
    <3>3. z \in Seq(Val) /\ Len(z) = Len(x) + 1 /\ (\A i \in 1..Len(x) : z[i] = x[i]) /\ z[Len(x) + 1] = b
      BY <3>2, AppendProperties
    <3>4. Len(z) = 2 /\ z[1] = a /\ z[2] = b
      BY <3>1, <3>3
    <3> QED BY <3>2, <3>3, <3>4
  <2>2. PICK z \in Seq(Val) : z = <<a, b>>
    BY <1>1
  <2>3. Len(z) = 2 /\ z[1] = a /\ z[2] = b
    BY <2>2
  <2>4. \A i \in 1..Len(y) : i = 1 \/ i = 2
    BY <2>1
  <2>5. y = z
    BY <2>1, <2>3, <2>4, SeqEqual
  <2> QED BY <2>1, <2>2, <2>5
<1> QED BY <1>1, <1>2, <1>3, <1>4, <1>5

(* An operation takes what is on the stack for what it gives.              *)
LEMMA OpTurns ==
  ASSUME NEW op \in OpNames, NEW in, NEW a \in Seq(Val), Len(a) = Operands(op)
  PROVE  Turns(<<Instr(op, 0)>>, in, a, <<Apply(op, a)>>)
<1>1. PICK v \in Val : v = Apply(op, a)
  BY ApplyIsAValue
<1>2. <<v>> \in Seq(Val)
  OBVIOUS
<1>3. PICK ins \in Instrs : ins = Instr(op, 0)
  BY OpInstr
<1>4. \A st \in Seq(Val) : After(ins, in, st \o a) = st \o <<v>> /\ Fits(ins, st \o a)
  BY <1>1, <1>3, OpAfter
<1> QED BY <1>1, <1>2, <1>3, <1>4, OneTurns

(* A code and an operation on what it makes.                               *)
LEMMA ThenOpTurns ==
  ASSUME NEW op \in OpNames, NEW in, NEW c \in Seq(Instrs), NEW a, NEW b \in Seq(Val),
         Len(b) = Operands(op), Turns(c, in, a, b)
  PROVE  Turns(Append(c, Instr(op, 0)), in, a, <<Apply(op, b)>>)
<1>1. PICK ins \in Instrs : ins = Instr(op, 0)
  BY OpInstr
<1>2. PICK d \in Seq(Instrs) : d = <<ins>>
  <2>1. <<ins>> \in Seq(Instrs)
    OBVIOUS
  <2> QED BY <2>1
<1>3. Turns(d, in, b, <<Apply(op, b)>>)
  BY <1>1, <1>2, OpTurns
<1>4. Turns(c \o d, in, a, <<Apply(op, b)>>)
  BY <1>3, ThenTurns
<1>5. Append(c, ins) = c \o d
  BY <1>2, AppendIsConcat
<1> QED BY <1>1, <1>4, <1>5

(* The right operand, and the operator.                                    *)
LEMMA SymbolTurns ==
  ASSUME NEW op \in Symbols, NEW in, NEW c \in Seq(Instrs), NEW a \in Val, NEW b \in Val,
         Turns(c, in, <<>>, <<b>>)
  PROVE  Turns(Append(c, Instr(op, 0)), in, <<a>>, <<Apply(op, <<a, b>>)>>)
<1>1. PICK e \in Seq(Val) : e = <<>>
  BY SequencesOfValues
<1>2. PICK x \in Seq(Val) : x = <<a>>
  BY SequencesOfValues
<1>3. PICK y \in Seq(Val) : y = <<b>>
  BY SequencesOfValues
<1>4. PICK z \in Seq(Val) : z = <<a, b>>
  BY SequencesOfValues
<1>5. Turns(c, in, x \o e, x \o y)
  BY <1>1, <1>3, UnderTurns
<1>6. x \o e = x /\ x \o y = z
  BY <1>1, <1>2, <1>3, <1>4, SequencesOfValues
<1>7. op \in OpNames /\ Operands(op) = 2 /\ Len(z) = 2
  BY <1>4, OperandsOfOps DEF OpNames
<1>8. Turns(Append(c, Instr(op, 0)), in, x, <<Apply(op, z)>>)
  BY <1>5, <1>6, <1>7, ThenOpTurns
<1> QED BY <1>2, <1>4, <1>8

(* A sign, a call and the arguments of a call.                             *)
LEMMA NegTurns ==
  ASSUME NEW in, NEW c \in Seq(Instrs), NEW b \in Val, Turns(c, in, <<>>, <<b>>)
  PROVE  Turns(Append(c, Instr("neg", 0)), in, <<>>, <<Apply("neg", <<b>>)>>)
<1>1. PICK y \in Seq(Val) : y = <<b>>
  BY SequencesOfValues
<1>2. Len(y) = 1 /\ Operands("neg") = 1 /\ "neg" \in OpNames
  BY <1>1, OperandsOfOps DEF OpNames
<1> QED BY <1>1, <1>2, ThenOpTurns

LEMMA NamedTurns ==
  ASSUME NEW in, NEW c \in Seq(Instrs), NEW name \in DOMAIN Arity, NEW l \in Seq(Val),
         Len(l) = Arity[name], Turns(c, in, <<>>, l)
  PROVE  Turns(Append(c, Instr(name, 0)), in, <<>>, <<Apply(name, l)>>)
<1>1. name \in OpNames /\ Operands(name) = Arity[name]
  BY DEF OpNames, Operands, Arity
<1> QED BY <1>1, ThenOpTurns

LEMMA ConsIs ==
  ASSUME NEW a \in Val, NEW l \in Seq(Val)
  PROVE  Cons(a, l) \in Seq(Val) /\ Len(Cons(a, l)) = Len(l) + 1
<1>1. PICK x \in Seq(Val) : x = <<a>>
  BY SequencesOfValues
<1>2. x \o l \in Seq(Val) /\ Len(x \o l) = Len(x) + Len(l) /\ Len(x) = 1 /\ Len(l) \in Nat
  BY <1>1, ConcatProperties, LenProperties
<1> QED BY <1>1, <1>2 DEF Cons

LEMMA ListTurns ==
  ASSUME NEW in, NEW c \in Seq(Instrs), NEW d \in Seq(Instrs), NEW a \in Val, NEW l \in Seq(Val),
         NEW w, w = Cons(a, l), Turns(c, in, <<>>, <<a>>), Turns(d, in, <<>>, l)
  PROVE  Turns(c \o d, in, <<>>, w)
<1>1. PICK e \in Seq(Val) : e = <<>>
  BY SequencesOfValues
<1>2. PICK x \in Seq(Val) : x = <<a>>
  BY SequencesOfValues
<1>3. Turns(d, in, x \o e, x \o l)
  BY <1>1, UnderTurns
<1>4. x \o e = x
  BY <1>1, <1>2, SequencesOfValues
<1>5. Turns(c \o d, in, e, x \o l)
  BY <1>1, <1>2, <1>3, <1>4, ThenTurns
<1> QED BY <1>1, <1>2, <1>5 DEF Cons

(* A number and a name make a value of nothing.                            *)
LEMMA ConstTurns ==
  ASSUME NEW in, NEW n \in Int
  PROVE  <<Instr("const", n)>> \in Seq(Instrs) /\ Turns(<<Instr("const", n)>>, in, <<>>, <<Number(n)>>)
<1>1. PICK ins \in Instrs : ins = Instr("const", n)
  BY DEF Instr, Instrs
<1>2. PICK v \in Val : v = Number(n)
  BY Numbers
<1>3. PICK e \in Seq(Val) : e = <<>>
  BY SequencesOfValues
<1>4. PICK x \in Seq(Val) : x = <<v>>
  BY SequencesOfValues
<1>5. \A st \in Seq(Val) : After(ins, in, st \o e) = st \o x /\ Fits(ins, st \o e)
  <2>1. ASSUME NEW st \in Seq(Val) PROVE After(ins, in, st \o e) = st \o x /\ Fits(ins, st \o e)
    <3>1. st \o e = st
      BY <1>3, ConcatEmptySeq
    <3> QED BY <1>1, <1>2, <1>4, <3>1, ConstAfter
  <2> QED BY <2>1
<1>6. Turns(<<ins>>, in, e, x)
  BY <1>5, OneTurns
<1>7. <<ins>> \in Seq(Instrs)
  OBVIOUS
<1> QED BY <1>1, <1>2, <1>3, <1>4, <1>6, <1>7

LEMMA LoadTurns ==
  ASSUME NEW in \in Vectors, NEW n \in 1..Params
  PROVE  <<Instr("load", n)>> \in Seq(Instrs) /\ Turns(<<Instr("load", n)>>, in, <<>>, <<Number(in[n])>>)
<1>1. PICK ins \in Instrs : ins = Instr("load", n)
  BY DEF Instr, Instrs
<1>2. PICK v \in Val : v = Number(in[n])
  BY Numbers DEF Vectors
<1>3. PICK e \in Seq(Val) : e = <<>>
  BY <1>2, SequencesOfValues
<1>4. PICK x \in Seq(Val) : x = <<v>>
  BY SequencesOfValues
<1>5. \A st \in Seq(Val) : After(ins, in, st \o e) = st \o x /\ Fits(ins, st \o e)
  <2>1. ASSUME NEW st \in Seq(Val) PROVE After(ins, in, st \o e) = st \o x /\ Fits(ins, st \o e)
    <3>1. st \o e = st
      BY <1>3, ConcatEmptySeq
    <3> QED BY <1>1, <1>2, <1>4, <3>1, LoadAfter
  <2> QED BY <2>1
<1>6. Turns(<<ins>>, in, e, x)
  BY <1>5, OneTurns
<1>7. <<ins>> \in Seq(Instrs)
  OBVIOUS
<1> QED BY <1>1, <1>2, <1>3, <1>4, <1>6, <1>7

(* The tables of the parser and of the reference, of one text.             *)
Tables(s, in, p, r) ==
  /\ Len(s) \in Nat /\ in \in Vectors
  /\ \A k \in Rules, i \in 1..(Len(s) + 1) :
       p[<<k, i>>] = Rule(s, p, <<k, i>>) /\ Moved(s, k, i, p[<<k, i>>])
  /\ \A k \in Kinds, i \in 1..(Len(s) + 1), j \in 0..Len(s) :
       r[<<k, i, j>>] = Reading(s, in, r, <<k, i, j>>) /\ Valued(k, r[<<k, i, j>>])

(* The tables of the model are such tables, and what stands in them.       *)
LEMMA TablesAre ==
  ASSUME NEW s, Len(s) \in Nat, NEW in \in Vectors
  PROVE  Tables(s, in, Parse(s), Readings(s, in))
<1>1. PICK p : p = Parse(s)
  OBVIOUS
<1>2. PICK r : r = Readings(s, in)
  OBVIOUS
<1>3. ASSUME NEW k \in Rules, NEW i \in 1..(Len(s) + 1)
      PROVE  p[<<k, i>>] = Rule(s, p, <<k, i>>) /\ Moved(s, k, i, p[<<k, i>>])
  BY <1>1, ParseIs
<1>4. ASSUME NEW k \in Kinds, NEW i \in 1..(Len(s) + 1), NEW j \in 0..Len(s)
      PROVE  r[<<k, i, j>>] = Reading(s, in, r, <<k, i, j>>) /\ Valued(k, r[<<k, i, j>>])
  BY <1>2, ReadingsIs
<1> QED BY <1>1, <1>2, <1>3, <1>4 DEF Tables

LEMMA TheReading ==
  ASSUME NEW s, NEW in, NEW p, NEW r, Tables(s, in, p, r),
         NEW i \in 1..(Len(s) + 1), NEW j \in 0..Len(s), NEW k \in Kinds
  PROVE  r[<<k, i, j>>] = Reading(s, in, r, <<k, i, j>>) /\ Valued(k, r[<<k, i, j>>])
BY DEF Tables

LEMMA TheSumOf ==
  ASSUME NEW s, NEW in, NEW p, NEW r, Tables(s, in, p, r),
         NEW i \in 1..(Len(s) + 1), NEW j \in 0..Len(s)
  PROVE  r[<<"sum", i, j>>] = SumOf(s, r, i, j) /\ r[<<"sum", i, j>>] \subseteq Val
<1>1. "sum" \in Kinds
  BY DEF Kinds
<1>2. PICK q : q = <<"sum", i, j>>
  OBVIOUS
<1>3. r[q] = Reading(s, in, r, q) /\ Valued("sum", r[q])
  BY <1>1, <1>2, TheReading
<1>4. Reading(s, in, r, q) = SumOf(s, r, i, j)
  BY <1>2 DEF Reading
<1>5. r[q] \subseteq Val
  BY <1>3 DEF Valued
<1> QED BY <1>2, <1>3, <1>4, <1>5

LEMMA TheProductOf ==
  ASSUME NEW s, NEW in, NEW p, NEW r, Tables(s, in, p, r),
         NEW i \in 1..(Len(s) + 1), NEW j \in 0..Len(s)
  PROVE  r[<<"product", i, j>>] = ProductOf(s, r, i, j) /\ r[<<"product", i, j>>] \subseteq Val
<1>1. "product" \in Kinds
  BY DEF Kinds
<1>2. PICK q : q = <<"product", i, j>>
  OBVIOUS
<1>3. r[q] = Reading(s, in, r, q) /\ Valued("product", r[q])
  BY <1>1, <1>2, TheReading
<1>4. Reading(s, in, r, q) = ProductOf(s, r, i, j)
  BY <1>2 DEF Reading
<1>5. r[q] \subseteq Val
  BY <1>3 DEF Valued
<1> QED BY <1>2, <1>3, <1>4, <1>5

LEMMA TheFactorOf ==
  ASSUME NEW s, NEW in, NEW p, NEW r, Tables(s, in, p, r),
         NEW i \in 1..(Len(s) + 1), NEW j \in 0..Len(s)
  PROVE  r[<<"factor", i, j>>] = FactorOf(s, in, r, i, j) /\ r[<<"factor", i, j>>] \subseteq Val
<1>1. "factor" \in Kinds
  BY DEF Kinds
<1>2. PICK q : q = <<"factor", i, j>>
  OBVIOUS
<1>3. r[q] = Reading(s, in, r, q) /\ Valued("factor", r[q])
  BY <1>1, <1>2, TheReading
<1>4. Reading(s, in, r, q) = FactorOf(s, in, r, i, j)
  BY <1>2 DEF Reading
<1>5. r[q] \subseteq Val
  BY <1>3 DEF Valued
<1> QED BY <1>2, <1>3, <1>4, <1>5

LEMMA TheListOf ==
  ASSUME NEW s, NEW in, NEW p, NEW r, Tables(s, in, p, r),
         NEW i \in 1..(Len(s) + 1), NEW j \in 0..Len(s)
  PROVE  r[<<"list", i, j>>] = ListOf(s, r, i, j) /\ r[<<"list", i, j>>] \subseteq Seq(Val)
<1>1. "list" \in Kinds
  BY DEF Kinds
<1>2. PICK q : q = <<"list", i, j>>
  OBVIOUS
<1>3. r[q] = Reading(s, in, r, q) /\ Valued("list", r[q])
  BY <1>1, <1>2, TheReading
<1>4. Reading(s, in, r, q) = ListOf(s, r, i, j)
  BY <1>2 DEF Reading
<1>5. r[q] \subseteq Seq(Val)
  BY <1>3 DEF Valued
<1> QED BY <1>2, <1>3, <1>4, <1>5

LEMMA TheReadings ==
  ASSUME NEW s, NEW in, NEW p, NEW r, Tables(s, in, p, r),
         NEW i \in 1..(Len(s) + 1), NEW j \in 0..Len(s)
  PROVE  /\ r[<<"sum", i, j>>] = SumOf(s, r, i, j) /\ r[<<"sum", i, j>>] \subseteq Val
         /\ r[<<"product", i, j>>] = ProductOf(s, r, i, j) /\ r[<<"product", i, j>>] \subseteq Val
         /\ r[<<"factor", i, j>>] = FactorOf(s, in, r, i, j) /\ r[<<"factor", i, j>>] \subseteq Val
         /\ r[<<"list", i, j>>] = ListOf(s, r, i, j) /\ r[<<"list", i, j>>] \subseteq Seq(Val)
BY TheSumOf, TheProductOf, TheFactorOf, TheListOf

LEMMA TheRules ==
  ASSUME NEW s, NEW in, NEW p, NEW r, Tables(s, in, p, r), NEW i \in 1..(Len(s) + 1)
  PROVE  /\ p[<<"expr", i>>] = Expr(s, p, i) /\ p[<<"sum", i>>] = Sum(s, p, i)
         /\ p[<<"term", i>>] = Term(s, p, i) /\ p[<<"product", i>>] = Product(s, p, i)
         /\ p[<<"factor", i>>] = Factor(s, p, i) /\ p[<<"args", i>>] = Args(s, p, i)
         /\ \A k \in Rules : Moved(s, k, i, p[<<k, i>>])
<1>1. ASSUME NEW k \in Rules
      PROVE  p[<<k, i>>] = Rule(s, p, <<k, i>>) /\ Moved(s, k, i, p[<<k, i>>])
  BY DEF Tables
<1>2. {"expr", "sum", "term", "product", "factor", "args"} \subseteq Rules
  BY DEF Rules
<1>3. p[<<"expr", i>>] = Expr(s, p, i)
  BY <1>1, <1>2, RuleOf
<1>4. p[<<"sum", i>>] = Sum(s, p, i)
  BY <1>1, <1>2, RuleOf
<1>5. p[<<"term", i>>] = Term(s, p, i)
  BY <1>1, <1>2, RuleOf
<1>6. p[<<"product", i>>] = Product(s, p, i)
  BY <1>1, <1>2, RuleOf
<1>7. p[<<"factor", i>>] = Factor(s, p, i)
  BY <1>1, <1>2, RuleOf
<1>8. p[<<"args", i>>] = Args(s, p, i)
  BY <1>1, <1>2, RuleOf
<1> QED BY <1>1, <1>3, <1>4, <1>5, <1>6, <1>7, <1>8
LEMMA TheSumRule ==
  ASSUME NEW s, NEW in, NEW p, NEW r, Tables(s, in, p, r), NEW i \in 1..(Len(s) + 1)
  PROVE  p[<<"sum", i>>] = Sum(s, p, i)
BY TheRules
LEMMA TheParse ==
  ASSUME NEW s, NEW in, NEW p, NEW r, Tables(s, in, p, r), NEW i \in 1..(Len(s) + 1),
         NEW k \in Rules, NEW t, t = p[<<k, i>>]
  PROVE  /\ t \in Parses /\ t.code \in Seq(Instrs) /\ Len(t.code) \in Nat
         /\ t.ok => t.at \in i..(Len(s) + 1) /\ (k \notin Tails => t.at > i)
<1>1. Moved(s, k, i, t)
  BY TheRules
<1>2. t \in Parses /\ t.code \in Seq(Instrs)
  BY <1>1, ParseFields DEF Moved
<1>3. t.ok => t.at \in i..(Len(s) + 1) /\ (k \notin Tails => t.at > i)
  <2>1. Len(s) \in Nat
    BY DEF Tables
  <2> QED BY <1>1, <2>1 DEF Moved
<1> QED BY <1>2, <1>3, LenProperties

(* The factors of the reference, one by one.                               *)
LEMMA AtomFactor ==
  ASSUME NEW s, NEW in, NEW r, NEW i \in Int
  PROVE  FactorOf(s, in, r, i, i) = Atom(s[i], in)
BY DEF FactorOf

LEMMA NegatedFactor ==
  ASSUME NEW s, NEW in, NEW r, NEW i \in Int, NEW j \in Int, i < j, s[i] = "-"
  PROVE  FactorOf(s, in, r, i, j) = Negated(r[<<"factor", i + 1, j>>])
<1>1. ~(i > j) /\ i # j
  OBVIOUS
<1>2. s[i] # "(" /\ s[i] \notin DOMAIN Arity
  BY DEF Arity
<1> QED BY <1>1, <1>2 DEF FactorOf

LEMMA ClosedFactor ==
  ASSUME NEW s, NEW in, NEW r, NEW i \in Int, NEW j \in Int, i < j, s[i] = "(", s[j] = ")"
  PROVE  FactorOf(s, in, r, i, j) = r[<<"sum", i + 1, j - 1>>]
<1>1. ~(i > j) /\ i # j
  OBVIOUS
<1>2. s[i] # "-" /\ s[i] \notin DOMAIN Arity
  BY DEF Arity
<1> QED BY <1>1, <1>2 DEF FactorOf

LEMMA CalledFactor ==
  ASSUME NEW s, NEW in, NEW r, NEW i \in Int, NEW j \in Int, i + 1 < j,
         s[i] \in DOMAIN Arity, s[i + 1] = "(", s[j] = ")"
  PROVE  FactorOf(s, in, r, i, j) = Called(s[i], r[<<"list", i + 2, j - 1>>])
<1>1. ~(i > j) /\ i # j
  OBVIOUS
<1>2. s[i] # "-" /\ s[i] # "("
  BY DEF Arity
<1> QED BY <1>1, <1>2 DEF FactorOf

(* What an accepted rule has emitted: no more than it has read, and what   *)
(* one of the readings of what it has read says.                           *)
Means(in, code, vs) == \E v \in vs : Turns(code, in, <<>>, <<v>>)
Extends(in, code, vs, ws) == \A v \in vs : \E w \in ws : Turns(code, in, <<v>>, <<w>>)

Said(in, r, k, i, t) ==
  /\ k = "expr"   => Means(in, t.code, r[<<"sum", i, t.at - 1>>])
  /\ k = "term"   => Means(in, t.code, r[<<"product", i, t.at - 1>>])
  /\ k = "factor" => Means(in, t.code, r[<<"factor", i, t.at - 1>>])
  /\ k = "args"   => \E l \in r[<<"list", i, t.at - 1>>] :
                       Len(l) = t.argc /\ Turns(t.code, in, <<>>, l)
  /\ k \in Tails  => \A h \in 1..(i - 1) :
                       Extends(in, t.code, r[<<k, h, i - 1>>], r[<<k, h, t.at - 1>>])

Says(in, r, k, i, t) == t.ok => Len(t.code) <= t.at - i /\ Said(in, r, k, i, t)

SoonerSays(s, in, p, r, rule, at) ==
  \A k \in Rules, i \in 1..(Len(s) + 1) : Sooner(k, i, rule, at) => Says(in, r, k, i, p[<<k, i>>])

(* If the rules it refers to emit readings, so does a factor,              *)
LEMMA FactorSays ==
  ASSUME NEW s, NEW in, NEW p, NEW r, Tables(s, in, p, r), NEW i \in 1..(Len(s) + 1),
         SoonerSays(s, in, p, r, "factor", i)
  PROVE  Says(in, r, "factor", i, p[<<"factor", i>>])
<1>1. PICK t : t = p[<<"factor", i>>]
  OBVIOUS
<1> SUFFICES ASSUME t.ok
             PROVE  Len(t.code) <= t.at - i /\ Means(in, t.code, r[<<"factor", i, t.at - 1>>])
  BY <1>1 DEF Says, Said, Tails
<1>2. Len(s) \in Nat /\ in \in Vectors /\ i \in Nat /\ i \in Int
  BY DEF Tables
<1>3. t = Factor(s, p, i)
  BY <1>1, TheRules
<1>4. t \in Parses /\ t.at \in (i + 1)..(Len(s) + 1)
  <2>1. "factor" \in Rules /\ "factor" \notin Tails
    BY DEF Rules, Tails
  <2>2. t \in Parses /\ t.at \in i..(Len(s) + 1) /\ t.at > i
    BY <1>1, <2>1, TheParse
  <2> QED BY <1>2, <2>2
<1>5. PICK j \in Nat : j = t.at - 1 /\ j \in i..Len(s) /\ j \in 0..Len(s) /\ j \in Int
  BY <1>2, <1>4
<1>6. i \in 1..Len(s) /\ Tok(s, i) = s[i] /\ i + 1 \in 1..(Len(s) + 1)
  BY <1>2, <1>5 DEF Tok
<1>7. r[<<"factor", i, j>>] = FactorOf(s, in, r, i, j)
  BY <1>5, TheReadings
<1>8. ASSUME NEW k \in {"expr", "factor", "args"}, NEW h \in (i + 1)..(Len(s) + 1)
      PROVE  Says(in, r, k, h, p[<<k, h>>])
  <2>1. k \in Rules /\ h \in 1..(Len(s) + 1) /\ h > i
    BY <1>2, <1>8 DEF Rules
  <2> QED BY <2>1 DEF SoonerSays, Sooner
<1>9. CASE s[i] = "("
  <2>1. PICK e : e = p[<<"expr", i + 1>>]
    OBVIOUS
  <2>2. t = Expect(s, e, ")")
    BY <1>2, <1>3, <1>6, <1>9, <2>1, ParenFactor
  <2>3. e \in Parses /\ e.code \in Seq(Instrs) /\ Len(e.code) \in Nat
        /\ (e.ok => e.at \in (i + 2)..(Len(s) + 1))
    <3>1. "expr" \in Rules /\ "expr" \notin Tails
      BY DEF Rules, Tails
    <3> QED BY <1>2, <1>6, <2>1, <3>1, TheParse
  <2>4. e.ok /\ Tok(s, e.at) = ")" /\ t.at = e.at + 1 /\ t.code = e.code
    BY <2>2, <2>3, ExpectIs
  <2>5. e.at = j /\ i < j /\ s[j] = ")"
    <3>1. e.at = j /\ i < j
      BY <1>2, <1>4, <1>5, <2>3, <2>4
    <3> QED BY <1>5, <2>4, <3>1 DEF Tok
  <2>6. Says(in, r, "expr", i + 1, e)
    BY <1>2, <1>6, <1>8, <2>1
  <2>7. Len(e.code) <= e.at - (i + 1) /\ Means(in, e.code, r[<<"sum", i + 1, e.at - 1>>])
    BY <2>4, <2>6 DEF Says, Said
  <2>8. FactorOf(s, in, r, i, j) = r[<<"sum", i + 1, j - 1>>]
    <3>1. i \in Int /\ j \in Int /\ i < j /\ s[i] = "(" /\ s[j] = ")"
      BY <1>2, <1>5, <1>9, <2>5
    <3> QED BY <3>1, ClosedFactor
  <2>9. Len(t.code) <= t.at - i
    <3>1. PICK n \in Nat : n = Len(e.code)
      BY <2>3
    <3>2. n <= j - (i + 1)
      BY <2>5, <2>7, <3>1
    <3>3. n <= (j + 1) - i
      BY <1>2, <3>2
    <3> QED BY <2>4, <2>5, <3>1, <3>3
  <2> QED BY <1>5, <1>7, <2>4, <2>5, <2>7, <2>8, <2>9
<1>10. CASE s[i] = "-"
  <2>1. PICK f : f = p[<<"factor", i + 1>>]
    OBVIOUS
  <2>2. t = Emit(f, Instr("neg", 0))
    BY <1>2, <1>3, <1>6, <1>10, <2>1, MinusFactor
  <2>3. f \in Parses /\ f.code \in Seq(Instrs) /\ Len(f.code) \in Nat
        /\ (f.ok => f.at \in (i + 2)..(Len(s) + 1))
    <3>1. "factor" \in Rules /\ "factor" \notin Tails
      BY DEF Rules, Tails
    <3> QED BY <1>2, <1>6, <2>1, <3>1, TheParse
  <2>4. PICK ins \in Instrs : ins = Instr("neg", 0)
    BY OpInstr, OperandsOfOps
  <2>5. f.ok /\ t.at = f.at /\ t.code = Append(f.code, ins)
    BY <2>2, <2>3, <2>4, EmitIs
  <2>6. Says(in, r, "factor", i + 1, f)
    BY <1>2, <1>6, <1>8, <2>1
  <2>7. Len(f.code) <= f.at - (i + 1) /\ Means(in, f.code, r[<<"factor", i + 1, f.at - 1>>])
    BY <2>5, <2>6 DEF Says, Said
  <2>8. f.at - 1 = j /\ i < j
    BY <1>2, <1>5, <2>3, <2>5
  <2>9. PICK b \in r[<<"factor", i + 1, j>>] : Turns(f.code, in, <<>>, <<b>>)
    BY <2>7, <2>8 DEF Means
  <2>10. b \in Val
    <3>1. r[<<"factor", i + 1, j>>] \subseteq Val
      BY <1>5, <1>6, TheReadings
    <3> QED BY <2>9, <3>1
  <2>11. Turns(t.code, in, <<>>, <<Apply("neg", <<b>>)>>)
    BY <2>3, <2>4, <2>5, <2>9, <2>10, NegTurns
  <2>12. r[<<"factor", i, j>>] = Negated(r[<<"factor", i + 1, j>>])
    BY <1>2, <1>5, <1>7, <1>10, <2>8, NegatedFactor
  <2>13. Apply("neg", <<b>>) \in r[<<"factor", i, j>>]
    BY <2>9, <2>12 DEF Negated
  <2>14. Len(t.code) = Len(f.code) + 1
    BY <2>3, <2>4, <2>5, AppendProperties
  <2>15. Len(t.code) <= t.at - i
    <3>1. PICK x \in Nat : x = Len(f.code)
      BY <2>3
    <3>2. PICK w \in Int : w = t.at /\ w = f.at
      BY <1>2, <2>3, <2>5
    <3>3. x <= w - (i + 1)
      BY <2>7, <3>1, <3>2
    <3>4. x + 1 <= w - i
      BY <1>2, <3>3
    <3> QED BY <2>14, <3>1, <3>2, <3>4
  <2> QED BY <1>5, <2>11, <2>13, <2>15 DEF Means
<1>11. CASE s[i] \in DOMAIN Literals
  <2>1. PICK n \in Int : n = Literals[s[i]]
    BY <1>11, SandboxAssumption
  <2>2. PICK c \in Seq(Instrs) : c = <<Instr("const", n)>> /\ Turns(c, in, <<>>, <<Number(n)>>)
    BY ConstTurns
  <2>3. t = Parsed(i + 1, c)
    BY <1>2, <1>3, <1>6, <1>11, <2>1, <2>2, NumberFactor
  <2>4. t.at = i + 1 /\ t.code = c
    <3>1. i + 1 \in Nat
      BY <1>2
    <3> QED BY <2>3, <3>1, ParsedIs
  <2>5. j = i
    BY <1>2, <1>5, <2>4
  <2>6. Number(n) \in r[<<"factor", i, j>>]
    BY <1>2, <1>7, <1>11, <2>1, <2>5, AtomFactor DEF Atom
  <2>7. Len(c) = 1
    BY <2>2
  <2>8. Len(t.code) <= t.at - i
    BY <1>2, <2>4, <2>7
  <2> QED BY <1>5, <2>2, <2>4, <2>6, <2>8 DEF Means
<1>12. CASE s[i] \in DOMAIN Arity \/ Contains(Names, s[i])
  <2>1. t = Identifier(s, p, i)
    BY <1>2, <1>3, <1>6, <1>12, WordFactor
  <2>2. CASE Tok(s, i + 1) = "("
    <3>1. i + 1 <= Len(s) /\ s[i + 1] = "("
      BY <1>2, <2>2, TokAt
    <3>2. i + 2 \in 1..(Len(s) + 1) /\ i + 2 \in (i + 1)..(Len(s) + 1)
      BY <1>2, <3>1
    <3>3. PICK a : a = p[<<"args", i + 2>>]
      OBVIOUS
    <3>4. a \in Parses /\ a.code \in Seq(Instrs) /\ Len(a.code) \in Nat
          /\ (a.ok => a.at \in (i + 3)..(Len(s) + 1))
      <4>1. "args" \in Rules /\ "args" \notin Tails
        BY DEF Rules, Tails
      <4> QED BY <1>2, <3>2, <3>3, <4>1, TheParse
    <3>5. PICK e : e = Expect(s, a, ")")
      OBVIOUS
    <3>6. e \in Parses /\ (e.ok <=> a.ok /\ Tok(s, a.at) = ")")
          /\ (e.ok => e.at = a.at + 1 /\ e.code = a.code /\ e.argc = a.argc)
      BY <3>4, <3>5, ExpectIs
    <3>7. t = IF ~e.ok THEN e
              ELSE IF s[i] \in DOMAIN Arity /\ Arity[s[i]] = a.argc
              THEN Parsed(e.at, Append(e.code, Instr(s[i], 0)))
              ELSE Fail(a.at)
      BY <2>1, <2>2, <3>3, <3>5 DEF Identifier, Call
    <3>8. a.at \in Nat /\ ~Fail(a.at).ok
      BY <3>4, FailIs, ParseFields
    <3>9. e.ok /\ s[i] \in DOMAIN Arity /\ Arity[s[i]] = a.argc
      BY <3>7, <3>8
    <3>10. PICK name \in DOMAIN Arity : name = s[i]
      BY <3>9
    <3>11. PICK ins \in Instrs : ins = Instr(name, 0)
      <4>1. name \in OpNames
        BY DEF OpNames
      <4> QED BY <4>1, OpInstr
    <3>12. PICK c \in Seq(Instrs) : c = Append(a.code, ins) /\ Len(c) = Len(a.code) + 1
      <4>1. Append(a.code, ins) \in Seq(Instrs) /\ Len(Append(a.code, ins)) = Len(a.code) + 1
        BY <3>4, AppendProperties
      <4> QED BY <4>1
    <3>13. t = Parsed(a.at + 1, c)
      BY <3>6, <3>7, <3>9, <3>10, <3>11, <3>12
    <3>14. t.at = a.at + 1 /\ t.code = c
      <4>1. a.at + 1 \in Nat
        BY <3>8
      <4> QED BY <3>13, <4>1, ParsedIs
    <3>15. a.at = j /\ i + 1 < j
      BY <1>2, <1>5, <3>4, <3>6, <3>8, <3>9, <3>14
    <3>16. s[j] = ")"
      BY <1>5, <3>6, <3>9, <3>15 DEF Tok
    <3>17. Says(in, r, "args", i + 2, a)
      BY <1>8, <3>2, <3>3
    <3>18. Len(a.code) <= a.at - (i + 2)
      BY <3>6, <3>9, <3>17 DEF Says
    <3>19. PICK l \in r[<<"list", i + 2, a.at - 1>>] : Len(l) = a.argc /\ Turns(a.code, in, <<>>, l)
      BY <3>6, <3>9, <3>17 DEF Says, Said
    <3>20. l \in r[<<"list", i + 2, j - 1>>] /\ l \in Seq(Val)
      <4>1. j - 1 \in 0..Len(s)
        BY <1>2, <1>5, <3>15
      <4> QED BY <3>2, <3>15, <3>19, <4>1, TheReadings
    <3>21. Turns(c, in, <<>>, <<Apply(name, l)>>)
      BY <3>4, <3>9, <3>10, <3>11, <3>12, <3>19, <3>20, NamedTurns
    <3>22. FactorOf(s, in, r, i, j) = Called(s[i], r[<<"list", i + 2, j - 1>>])
      BY <1>2, <1>5, <3>1, <3>9, <3>15, <3>16, CalledFactor
    <3>23. Apply(name, l) \in r[<<"factor", i, j>>]
      BY <1>7, <3>9, <3>10, <3>19, <3>20, <3>22 DEF Called
    <3>24. Len(t.code) <= t.at - i
      <4>1. PICK x \in Nat : x = Len(c)
        BY <3>12, LenProperties
      <4>2. PICK y \in Int : y = a.at
        BY <3>8
      <4>3. PICK z \in Nat : z = Len(a.code)
        BY <3>4
      <4>4. x = z + 1 /\ z <= y - (i + 2)
        BY <3>12, <3>18, <4>1, <4>2, <4>3
      <4>5. x <= (y + 1) - i
        BY <1>2, <4>4
      <4> QED BY <3>14, <4>1, <4>2, <4>5
    <3> QED BY <1>5, <3>14, <3>21, <3>23, <3>24 DEF Means
  <2>3. CASE Tok(s, i + 1) # "(" /\ Contains(Names, s[i])
    <3>1. PICK n \in 1..Params : n = (CHOOSE k \in DOMAIN Names : Names[k] = s[i]) /\ Names[n] = s[i]
      BY <2>3, NameInstr
    <3>2. PICK c \in Seq(Instrs) : c = <<Instr("load", n)>> /\ Turns(c, in, <<>>, <<Number(in[n])>>)
      BY <1>2, LoadTurns
    <3>3. t = Parsed(i + 1, c)
      BY <2>1, <2>3, <3>1, <3>2 DEF Identifier
    <3>4. t.at = i + 1 /\ t.code = c
      <4>1. i + 1 \in Nat
        BY <1>2
      <4> QED BY <3>3, <4>1, ParsedIs
    <3>5. j = i
      BY <1>2, <1>5, <3>4
    <3>6. DOMAIN Names = 1..Params
      BY SandboxAssumption, LenProperties
    <3>7. Number(in[n]) \in r[<<"factor", i, j>>]
      BY <1>2, <1>7, <3>1, <3>5, <3>6, AtomFactor DEF Atom
    <3>8. Len(c) = 1
      BY <3>2
    <3>9. Len(t.code) <= t.at - i
      BY <1>2, <3>4, <3>8
    <3> QED BY <1>5, <3>2, <3>4, <3>7, <3>9 DEF Means
  <2>4. CASE Tok(s, i + 1) # "(" /\ ~Contains(Names, s[i])
    <3>1. t = Fail(i + 1) /\ i + 1 \in Nat
      BY <1>2, <2>1, <2>4 DEF Identifier
    <3> QED BY <3>1, FailIs
  <2> QED BY <2>2, <2>3, <2>4
<1>13. CASE s[i] \notin {"(", "-"} \cup DOMAIN Literals /\ ~(s[i] \in DOMAIN Arity \/ Contains(Names, s[i]))
  <2>1. t = Fail(i)
    BY <1>2, <1>3, <1>6, <1>13, NoFactor
  <2> QED BY <1>2, <2>1, FailIs
<1> QED BY <1>9, <1>10, <1>11, <1>12, <1>13

(* and the rest of a product, to which a product to its left is extended,  *)
LEMMA ProductSays ==
  ASSUME NEW s, NEW in, NEW p, NEW r, Tables(s, in, p, r), NEW i \in 1..(Len(s) + 1),
         SoonerSays(s, in, p, r, "product", i)
  PROVE  Says(in, r, "product", i, p[<<"product", i>>])
<1>1. PICK t : t = p[<<"product", i>>]
  OBVIOUS
<1> SUFFICES ASSUME t.ok
             PROVE  /\ Len(t.code) <= t.at - i
                    /\ \A h \in 1..(i - 1) :
                         Extends(in, t.code, r[<<"product", h, i - 1>>], r[<<"product", h, t.at - 1>>])
  BY <1>1 DEF Says, Said, Tails
<1>2. Len(s) \in Nat /\ in \in Vectors /\ i \in Nat /\ i \in Int
  BY DEF Tables
<1>3. t = Product(s, p, i)
  BY <1>1, TheRules
<1>4. CASE Tok(s, i) \notin {"*", "/"}
  <2>1. PICK c \in Seq(Instrs) : c = <<>>
    BY EmptySeq
  <2>2. t = Parsed(i, c)
    BY <1>3, <1>4, <2>1 DEF Product
  <2>3. t.at = i /\ t.code = c
    BY <1>2, <2>2, ParsedIs
  <2>4. Len(t.code) <= t.at - i
    BY <1>2, <2>1, <2>3
  <2>5. ASSUME NEW h \in 1..(i - 1)
        PROVE  Extends(in, t.code, r[<<"product", h, i - 1>>], r[<<"product", h, t.at - 1>>])
    <3>1. h \in 1..(Len(s) + 1) /\ i - 1 \in 0..Len(s)
      BY <1>2
    <3>2. r[<<"product", h, i - 1>>] \subseteq Val
      BY <3>1, TheReadings
    <3>3. ASSUME NEW v \in r[<<"product", h, i - 1>>] PROVE Turns(c, in, <<v>>, <<v>>)
      <4>1. <<v>> \in Seq(Val)
        BY <3>2
      <4> QED BY <2>1, <4>1, NoneTurns
    <3> QED BY <2>3, <3>3 DEF Extends
  <2> QED BY <2>4, <2>5
<1>5. CASE Tok(s, i) \in {"*", "/"}
  <2>1. i \in 1..Len(s) /\ Tok(s, i) = s[i] /\ i + 1 \in 1..(Len(s) + 1) /\ s[i] \in {"*", "/"}
    BY <1>2, <1>5 DEF Tok
  <2>2. PICK f : f = p[<<"factor", i + 1>>]
    OBVIOUS
  <2>3. PICK op \in Symbols : op = s[i]
    BY <2>1 DEF Symbols
  <2>4. PICK ins \in Instrs : ins = Instr(op, 0)
    BY <2>3, OpInstr DEF OpNames
  <2>5. PICK q : q = p[<<"product", f.at>>]
    OBVIOUS
  <2>6. t = Joined(Emit(f, ins), q)
    BY <1>3, <1>5, <2>1, <2>2, <2>3, <2>4, <2>5 DEF Product
  <2>7. f \in Parses /\ f.code \in Seq(Instrs) /\ Len(f.code) \in Nat
        /\ (f.ok => f.at \in (i + 2)..(Len(s) + 1))
    <3>1. "factor" \in Rules /\ "factor" \notin Tails
      BY DEF Rules, Tails
    <3>2. /\ f \in Parses /\ f.code \in Seq(Instrs) /\ Len(f.code) \in Nat
          /\ f.ok => f.at \in (i + 1)..(Len(s) + 1) /\ f.at > i + 1
      BY <2>1, <2>2, <3>1, TheParse
    <3> QED BY <1>2, <3>2
  <2>8. PICK e \in Parses : e = Emit(f, ins)
    BY <2>7, EmitIs
  <2>9. e.ok = f.ok /\ e.at = f.at /\ (f.ok => e.code = Append(f.code, ins)) /\ (~f.ok => e = f)
    BY <2>7, <2>8, EmitIs
  <2>10. f.ok
    <3>1. ASSUME ~f.ok PROVE FALSE
      <4>1. t = f
        BY <2>6, <2>8, <2>9, <3>1 DEF Joined
      <4> QED BY <3>1, <4>1
    <3> QED BY <3>1
  <2>11. f.at \in 1..(Len(s) + 1) /\ f.at > i
    BY <1>2, <2>7, <2>10
  <2>12. q \in Parses /\ q.code \in Seq(Instrs) /\ Len(q.code) \in Nat
         /\ (q.ok => q.at \in f.at..(Len(s) + 1))
    <3>1. "product" \in Rules
      BY DEF Rules
    <3> QED BY <2>5, <2>11, <3>1, TheParse
  <2>13. t.ok = q.ok /\ t.at = q.at /\ t.code = e.code \o q.code
    BY <2>6, <2>8, <2>9, <2>10, <2>12, JoinedIs
  <2>14. Says(in, r, "factor", i + 1, f)
    <3>1. "factor" \in Rules /\ i + 1 > i
      BY <1>2 DEF Rules
    <3> QED BY <2>1, <2>2, <3>1 DEF SoonerSays, Sooner
  <2>15. Len(f.code) <= f.at - (i + 1) /\ Means(in, f.code, r[<<"factor", i + 1, f.at - 1>>])
    BY <2>10, <2>14 DEF Says, Said
  <2>16. Says(in, r, "product", f.at, q)
    <3>1. "product" \in Rules
      BY DEF Rules
    <3> QED BY <2>5, <2>11, <3>1 DEF SoonerSays, Sooner
  <2>17. /\ Len(q.code) <= q.at - f.at
         /\ \A h \in 1..(f.at - 1) :
              Extends(in, q.code, r[<<"product", h, f.at - 1>>], r[<<"product", h, q.at - 1>>])
    BY <2>13, <2>16 DEF Says, Said, Tails
  <2>18. e.code \in Seq(Instrs) /\ Len(e.code) = Len(f.code) + 1
    <3>1. PICK c \in Seq(Instrs) : c = f.code
      BY <2>7
    <3>2. Append(c, ins) \in Seq(Instrs) /\ Len(Append(c, ins)) = Len(c) + 1
      BY AppendProperties
    <3> QED BY <2>9, <2>10, <3>1, <3>2
  <2>19. Len(t.code) <= t.at - i
    <3>1. Len(t.code) = Len(e.code) + Len(q.code)
      <4>1. PICK c \in Seq(Instrs) : c = e.code
        BY <2>18
      <4>2. PICK d \in Seq(Instrs) : d = q.code
        BY <2>12
      <4>3. Len(c \o d) = Len(c) + Len(d)
        BY ConcatProperties
      <4> QED BY <2>13, <4>1, <4>2, <4>3
    <3>2. PICK x \in Nat : x = Len(f.code)
      BY <2>7
    <3>3. PICK y \in Nat : y = Len(q.code)
      BY <2>12
    <3>4. PICK m \in Nat : m = f.at
      BY <2>11
    <3>5. PICK n \in Nat : n = q.at
      BY <2>12, ParseFields
    <3>6. x <= m - (i + 1) /\ y <= n - m /\ Len(t.code) = x + 1 + y
      BY <2>15, <2>17, <2>18, <3>1, <3>2, <3>3, <3>4, <3>5
    <3>7. x + 1 + y <= n - i
      BY <1>2, <3>6
    <3> QED BY <2>13, <3>5, <3>6, <3>7
  <2>20. ASSUME NEW h \in 1..(i - 1)
         PROVE  Extends(in, t.code, r[<<"product", h, i - 1>>], r[<<"product", h, t.at - 1>>])
    <3>1. h \in 1..(Len(s) + 1) /\ h \in Int /\ i - 1 \in 0..Len(s) /\ h \in 1..(f.at - 1)
      BY <1>2, <2>11
    <3>2. PICK j \in Int : j = f.at - 1 /\ j \in 0..Len(s) /\ i \in (h + 1)..(j - 1)
      BY <1>2, <2>7, <2>10, <3>1
    <3>3. PICK b \in r[<<"factor", i + 1, j>>] : Turns(f.code, in, <<>>, <<b>>)
      BY <2>15, <3>2 DEF Means
    <3>4. b \in Val
      <4>1. r[<<"factor", i + 1, j>>] \subseteq Val
        BY <2>1, <3>2, TheReadings
      <4> QED BY <3>3, <4>1
    <3>5. ASSUME NEW v \in r[<<"product", h, i - 1>>]
          PROVE  \E w \in r[<<"product", h, q.at - 1>>] : Turns(t.code, in, <<v>>, <<w>>)
      <4>1. v \in Val
        <5>1. r[<<"product", h, i - 1>>] \subseteq Val
          BY <3>1, TheReadings
        <5> QED BY <5>1
      <4>2. PICK u \in Val : u = Apply(op, <<v, b>>)
        BY <3>4, <4>1, TwoValues
      <4>3. Turns(e.code, in, <<v>>, <<u>>)
        BY <2>4, <2>7, <2>9, <2>10, <3>3, <3>4, <4>1, <4>2, SymbolTurns
      <4>4. u \in r[<<"product", h, j>>]
        <5>1. u \in Both(s[i], r[<<"product", h, i - 1>>], r[<<"factor", i + 1, j>>])
          BY <2>3, <3>3, <3>5, <4>2 DEF Both
        <5>2. u \in ProductOf(s, r, h, j)
          BY <2>1, <3>1, <3>2, <5>1, ProductHas
        <5>3. r[<<"product", h, j>>] = ProductOf(s, r, h, j)
          BY <3>1, <3>2, TheReadings
        <5> QED BY <5>2, <5>3
      <4>5. Extends(in, q.code, r[<<"product", h, j>>], r[<<"product", h, q.at - 1>>])
        BY <2>17, <3>1, <3>2
      <4>6. PICK w \in r[<<"product", h, q.at - 1>>] : Turns(q.code, in, <<u>>, <<w>>)
        BY <4>4, <4>5 DEF Extends
      <4>7. Turns(t.code, in, <<v>>, <<w>>)
        BY <2>12, <2>13, <2>18, <4>3, <4>6, ThenTurns
      <4> QED BY <4>6, <4>7
    <3> QED BY <2>13, <3>5 DEF Extends
  <2> QED BY <2>19, <2>20
<1> QED BY <1>4, <1>5

(* and a product from its first factor on,                                 *)
LEMMA TermSays ==
  ASSUME NEW s, NEW in, NEW p, NEW r, Tables(s, in, p, r), NEW i \in 1..(Len(s) + 1),
         SoonerSays(s, in, p, r, "term", i)
  PROVE  Says(in, r, "term", i, p[<<"term", i>>])
<1>1. PICK t : t = p[<<"term", i>>]
  OBVIOUS
<1> SUFFICES ASSUME t.ok
             PROVE  Len(t.code) <= t.at - i /\ Means(in, t.code, r[<<"product", i, t.at - 1>>])
  BY <1>1 DEF Says, Said, Tails
<1>2. Len(s) \in Nat /\ in \in Vectors /\ i \in Nat /\ i \in Int
  BY DEF Tables
<1>3. t = Term(s, p, i)
  BY <1>1, TheRules
<1>4. PICK f : f = p[<<"factor", i>>]
  OBVIOUS
<1>5. PICK q : q = p[<<"product", f.at>>]
  OBVIOUS
<1>6. t = Joined(f, q)
  BY <1>3, <1>4, <1>5 DEF Term
<1>7. f.ok
  <2>1. ASSUME ~f.ok PROVE FALSE
    <3>1. t = f
      BY <1>6, <2>1 DEF Joined
    <3> QED BY <2>1, <3>1
  <2> QED BY <2>1
<1>8. f \in Parses /\ f.code \in Seq(Instrs) /\ Len(f.code) \in Nat /\ f.at \in (i + 1)..(Len(s) + 1)
  <2>1. "factor" \in Rules /\ "factor" \notin Tails
    BY DEF Rules, Tails
  <2>2. /\ f \in Parses /\ f.code \in Seq(Instrs) /\ Len(f.code) \in Nat
        /\ f.ok => f.at \in i..(Len(s) + 1) /\ f.at > i
    BY <1>4, <2>1, TheParse
  <2> QED BY <1>2, <1>7, <2>2
<1>9. f.at \in 1..(Len(s) + 1) /\ f.at > i
  BY <1>2, <1>8
<1>10. q \in Parses /\ q.code \in Seq(Instrs) /\ Len(q.code) \in Nat
  <2>1. "product" \in Rules
    BY DEF Rules
  <2> QED BY <1>5, <1>9, <2>1, TheParse
<1>11. t.ok = q.ok /\ t.at = q.at /\ t.code = f.code \o q.code
  BY <1>6, <1>7, <1>8, <1>10, JoinedIs
<1>12. Says(in, r, "factor", i, f)
  <2>1. "factor" \in Rules /\ Rank("factor") < Rank("term")
    BY DEF Rules, Rank, Tails
  <2> QED BY <1>4, <2>1 DEF SoonerSays, Sooner
<1>13. Len(f.code) <= f.at - i /\ Means(in, f.code, r[<<"factor", i, f.at - 1>>])
  BY <1>7, <1>12 DEF Says, Said
<1>14. Says(in, r, "product", f.at, q)
  <2>1. "product" \in Rules
    BY DEF Rules
  <2> QED BY <1>5, <1>9, <2>1 DEF SoonerSays, Sooner
<1>15. /\ Len(q.code) <= q.at - f.at
       /\ \A h \in 1..(f.at - 1) :
            Extends(in, q.code, r[<<"product", h, f.at - 1>>], r[<<"product", h, q.at - 1>>])
  BY <1>11, <1>14 DEF Says, Said, Tails
<1>16. Len(t.code) <= t.at - i
  <2>1. Len(t.code) = Len(f.code) + Len(q.code)
    BY <1>8, <1>10, <1>11, ConcatProperties
  <2>2. PICK x \in Nat : x = Len(f.code)
    BY <1>8
  <2>3. PICK y \in Nat : y = Len(q.code)
    BY <1>10
  <2>4. PICK m \in Nat : m = f.at
    BY <1>9
  <2>5. PICK n \in Nat : n = q.at
    BY <1>10, ParseFields
  <2>6. x <= m - i /\ y <= n - m /\ Len(t.code) = x + y
    BY <1>13, <1>15, <2>1, <2>2, <2>3, <2>4, <2>5
  <2>7. x + y <= n - i
    BY <1>2, <2>6
  <2> QED BY <1>11, <2>5, <2>6, <2>7
<1>17. PICK j \in Int : j = f.at - 1 /\ j \in 0..Len(s) /\ i \in 1..j
  BY <1>2, <1>8
<1>18. PICK v \in r[<<"factor", i, j>>] : Turns(f.code, in, <<>>, <<v>>)
  BY <1>13, <1>17 DEF Means
<1>19. v \in r[<<"product", i, j>>]
  <2>1. r[<<"product", i, j>>] = ProductOf(s, r, i, j)
    BY <1>17, TheReadings
  <2> QED BY <1>18, <2>1 DEF ProductOf
<1>20. Extends(in, q.code, r[<<"product", i, j>>], r[<<"product", i, q.at - 1>>])
  BY <1>15, <1>17
<1>21. PICK w \in r[<<"product", i, q.at - 1>>] : Turns(q.code, in, <<v>>, <<w>>)
  BY <1>19, <1>20 DEF Extends
<1>22. Turns(t.code, in, <<>>, <<w>>)
  BY <1>8, <1>10, <1>11, <1>18, <1>21, ThenTurns
<1> QED BY <1>11, <1>16, <1>21, <1>22 DEF Means

(* and the rest of a sum,                                                  *)
LEMMA SumSays ==
  ASSUME NEW s, NEW in, NEW p, NEW r, Tables(s, in, p, r), NEW i \in 1..(Len(s) + 1),
         SoonerSays(s, in, p, r, "sum", i)
  PROVE  Says(in, r, "sum", i, p[<<"sum", i>>])
<1>1. PICK t : t = p[<<"sum", i>>]
  OBVIOUS
<1> SUFFICES ASSUME t.ok
             PROVE  /\ Len(t.code) <= t.at - i
                    /\ \A h \in 1..(i - 1) :
                         Extends(in, t.code, r[<<"sum", h, i - 1>>], r[<<"sum", h, t.at - 1>>])
  BY <1>1 DEF Says, Said, Tails
<1>2. Len(s) \in Nat /\ in \in Vectors /\ i \in Nat /\ i \in Int
  BY DEF Tables
<1>3. t = Sum(s, p, i)
  BY <1>1, TheRules
<1>4. CASE Tok(s, i) \notin {"+", "-"}
  <2>1. PICK c \in Seq(Instrs) : c = <<>>
    BY EmptySeq
  <2>2. t = Parsed(i, c)
    BY <1>3, <1>4, <2>1 DEF Sum
  <2>3. t.at = i /\ t.code = c
    BY <1>2, <2>2, ParsedIs
  <2>4. Len(t.code) <= t.at - i
    BY <1>2, <2>1, <2>3
  <2>5. ASSUME NEW h \in 1..(i - 1)
        PROVE  Extends(in, t.code, r[<<"sum", h, i - 1>>], r[<<"sum", h, t.at - 1>>])
    <3>1. h \in 1..(Len(s) + 1) /\ i - 1 \in 0..Len(s)
      BY <1>2
    <3>2. r[<<"sum", h, i - 1>>] \subseteq Val
      BY <3>1, TheReadings
    <3>3. ASSUME NEW v \in r[<<"sum", h, i - 1>>] PROVE Turns(c, in, <<v>>, <<v>>)
      <4>1. <<v>> \in Seq(Val)
        BY <3>2
      <4> QED BY <2>1, <4>1, NoneTurns
    <3> QED BY <2>3, <3>3 DEF Extends
  <2> QED BY <2>4, <2>5
<1>5. CASE Tok(s, i) \in {"+", "-"}
  <2>1. i \in 1..Len(s) /\ Tok(s, i) = s[i] /\ i + 1 \in 1..(Len(s) + 1) /\ s[i] \in {"+", "-"}
    BY <1>2, <1>5 DEF Tok
  <2>2. PICK f : f = p[<<"term", i + 1>>]
    OBVIOUS
  <2>3. PICK op \in Symbols : op = s[i]
    BY <2>1 DEF Symbols
  <2>4. PICK ins \in Instrs : ins = Instr(op, 0)
    BY <2>3, OpInstr DEF OpNames
  <2>5. PICK q : q = p[<<"sum", f.at>>]
    OBVIOUS
  <2>6. t = Joined(Emit(f, ins), q)
    BY <1>3, <1>5, <2>1, <2>2, <2>3, <2>4, <2>5 DEF Sum
  <2>7. f \in Parses /\ f.code \in Seq(Instrs) /\ Len(f.code) \in Nat
        /\ (f.ok => f.at \in (i + 2)..(Len(s) + 1))
    <3>1. "term" \in Rules /\ "term" \notin Tails
      BY DEF Rules, Tails
    <3>2. /\ f \in Parses /\ f.code \in Seq(Instrs) /\ Len(f.code) \in Nat
          /\ f.ok => f.at \in (i + 1)..(Len(s) + 1) /\ f.at > i + 1
      BY <2>1, <2>2, <3>1, TheParse
    <3> QED BY <1>2, <3>2
  <2>8. PICK e \in Parses : e = Emit(f, ins)
    BY <2>7, EmitIs
  <2>9. e.ok = f.ok /\ e.at = f.at /\ (f.ok => e.code = Append(f.code, ins)) /\ (~f.ok => e = f)
    BY <2>7, <2>8, EmitIs
  <2>10. f.ok
    <3>1. ASSUME ~f.ok PROVE FALSE
      <4>1. t = f
        BY <2>6, <2>8, <2>9, <3>1 DEF Joined
      <4> QED BY <3>1, <4>1
    <3> QED BY <3>1
  <2>11. f.at \in 1..(Len(s) + 1) /\ f.at > i
    BY <1>2, <2>7, <2>10
  <2>12. q \in Parses /\ q.code \in Seq(Instrs) /\ Len(q.code) \in Nat
         /\ (q.ok => q.at \in f.at..(Len(s) + 1))
    <3>1. "sum" \in Rules
      BY DEF Rules
    <3> QED BY <2>5, <2>11, <3>1, TheParse
  <2>13. t.ok = q.ok /\ t.at = q.at /\ t.code = e.code \o q.code
    BY <2>6, <2>8, <2>9, <2>10, <2>12, JoinedIs
  <2>14. Says(in, r, "term", i + 1, f)
    <3>1. "term" \in Rules /\ i + 1 > i
      BY <1>2 DEF Rules
    <3> QED BY <2>1, <2>2, <3>1 DEF SoonerSays, Sooner
  <2>15. Len(f.code) <= f.at - (i + 1) /\ Means(in, f.code, r[<<"product", i + 1, f.at - 1>>])
    BY <2>10, <2>14 DEF Says, Said
  <2>16. Says(in, r, "sum", f.at, q)
    <3>1. "sum" \in Rules
      BY DEF Rules
    <3> QED BY <2>5, <2>11, <3>1 DEF SoonerSays, Sooner
  <2>17. /\ Len(q.code) <= q.at - f.at
         /\ \A h \in 1..(f.at - 1) :
              Extends(in, q.code, r[<<"sum", h, f.at - 1>>], r[<<"sum", h, q.at - 1>>])
    BY <2>13, <2>16 DEF Says, Said, Tails
  <2>18. e.code \in Seq(Instrs) /\ Len(e.code) = Len(f.code) + 1
    <3>1. PICK c \in Seq(Instrs) : c = f.code
      BY <2>7
    <3>2. Append(c, ins) \in Seq(Instrs) /\ Len(Append(c, ins)) = Len(c) + 1
      BY AppendProperties
    <3> QED BY <2>9, <2>10, <3>1, <3>2
  <2>19. Len(t.code) <= t.at - i
    <3>1. Len(t.code) = Len(e.code) + Len(q.code)
      <4>1. PICK c \in Seq(Instrs) : c = e.code
        BY <2>18
      <4>2. PICK d \in Seq(Instrs) : d = q.code
        BY <2>12
      <4>3. Len(c \o d) = Len(c) + Len(d)
        BY ConcatProperties
      <4> QED BY <2>13, <4>1, <4>2, <4>3
    <3>2. PICK x \in Nat : x = Len(f.code)
      BY <2>7
    <3>3. PICK y \in Nat : y = Len(q.code)
      BY <2>12
    <3>4. PICK m \in Nat : m = f.at
      BY <2>11
    <3>5. PICK n \in Nat : n = q.at
      BY <2>12, ParseFields
    <3>6. x <= m - (i + 1) /\ y <= n - m /\ Len(t.code) = x + 1 + y
      BY <2>15, <2>17, <2>18, <3>1, <3>2, <3>3, <3>4, <3>5
    <3>7. x + 1 + y <= n - i
      BY <1>2, <3>6
    <3> QED BY <2>13, <3>5, <3>6, <3>7
  <2>20. ASSUME NEW h \in 1..(i - 1)
         PROVE  Extends(in, t.code, r[<<"sum", h, i - 1>>], r[<<"sum", h, t.at - 1>>])
    <3>1. h \in 1..(Len(s) + 1) /\ h \in Int /\ i - 1 \in 0..Len(s) /\ h \in 1..(f.at - 1)
      BY <1>2, <2>11
    <3>2. PICK j \in Int : j = f.at - 1 /\ j \in 0..Len(s) /\ i \in (h + 1)..(j - 1)
      BY <1>2, <2>7, <2>10, <3>1
    <3>3. PICK b \in r[<<"product", i + 1, j>>] : Turns(f.code, in, <<>>, <<b>>)
      BY <2>15, <3>2 DEF Means
    <3>4. b \in Val
      <4>1. r[<<"product", i + 1, j>>] \subseteq Val
        BY <2>1, <3>2, TheReadings
      <4> QED BY <3>3, <4>1
    <3>5. ASSUME NEW v \in r[<<"sum", h, i - 1>>]
          PROVE  \E w \in r[<<"sum", h, q.at - 1>>] : Turns(t.code, in, <<v>>, <<w>>)
      <4>1. v \in Val
        <5>1. r[<<"sum", h, i - 1>>] \subseteq Val
          BY <3>1, TheReadings
        <5> QED BY <5>1
      <4>2. PICK u \in Val : u = Apply(op, <<v, b>>)
        BY <3>4, <4>1, TwoValues
      <4>3. Turns(e.code, in, <<v>>, <<u>>)
        BY <2>4, <2>7, <2>9, <2>10, <3>3, <3>4, <4>1, <4>2, SymbolTurns
      <4>4. u \in r[<<"sum", h, j>>]
        <5>1. u \in Both(s[i], r[<<"sum", h, i - 1>>], r[<<"product", i + 1, j>>])
          BY <2>3, <3>3, <3>5, <4>2 DEF Both
        <5>2. u \in SumOf(s, r, h, j)
          BY <2>1, <3>1, <3>2, <5>1, SumHas
        <5>3. r[<<"sum", h, j>>] = SumOf(s, r, h, j)
          BY <3>1, <3>2, TheReadings
        <5> QED BY <5>2, <5>3
      <4>5. Extends(in, q.code, r[<<"sum", h, j>>], r[<<"sum", h, q.at - 1>>])
        BY <2>17, <3>1, <3>2
      <4>6. PICK w \in r[<<"sum", h, q.at - 1>>] : Turns(q.code, in, <<u>>, <<w>>)
        BY <4>4, <4>5 DEF Extends
      <4>7. Turns(t.code, in, <<v>>, <<w>>)
        BY <2>12, <2>13, <2>18, <4>3, <4>6, ThenTurns
      <4> QED BY <4>6, <4>7
    <3> QED BY <2>13, <3>5 DEF Extends
  <2> QED BY <2>19, <2>20
<1> QED BY <1>4, <1>5

(* and a sum from its first product on,                                    *)
LEMMA ExprSays ==
  ASSUME NEW s, NEW in, NEW p, NEW r, Tables(s, in, p, r), NEW i \in 1..(Len(s) + 1),
         SoonerSays(s, in, p, r, "expr", i)
  PROVE  Says(in, r, "expr", i, p[<<"expr", i>>])
<1>1. PICK t : t = p[<<"expr", i>>]
  OBVIOUS
<1> SUFFICES ASSUME t.ok
             PROVE  Len(t.code) <= t.at - i /\ Means(in, t.code, r[<<"sum", i, t.at - 1>>])
  BY <1>1 DEF Says, Said, Tails
<1>2. Len(s) \in Nat /\ in \in Vectors /\ i \in Nat /\ i \in Int
  BY DEF Tables
<1>3. t = Expr(s, p, i)
  BY <1>1, TheRules
<1>4. PICK f : f = p[<<"term", i>>]
  OBVIOUS
<1>5. PICK q : q = p[<<"sum", f.at>>]
  OBVIOUS
<1>6. t = Joined(f, q)
  BY <1>3, <1>4, <1>5 DEF Expr
<1>7. f.ok
  <2>1. ASSUME ~f.ok PROVE FALSE
    <3>1. t = f
      BY <1>6, <2>1 DEF Joined
    <3> QED BY <2>1, <3>1
  <2> QED BY <2>1
<1>8. f \in Parses /\ f.code \in Seq(Instrs) /\ Len(f.code) \in Nat /\ f.at \in (i + 1)..(Len(s) + 1)
  <2>1. "term" \in Rules /\ "term" \notin Tails
    BY DEF Rules, Tails
  <2>2. /\ f \in Parses /\ f.code \in Seq(Instrs) /\ Len(f.code) \in Nat
        /\ f.ok => f.at \in i..(Len(s) + 1) /\ f.at > i
    BY <1>4, <2>1, TheParse
  <2> QED BY <1>2, <1>7, <2>2
<1>9. f.at \in 1..(Len(s) + 1) /\ f.at > i
  BY <1>2, <1>8
<1>10. q \in Parses /\ q.code \in Seq(Instrs) /\ Len(q.code) \in Nat
  <2>1. "sum" \in Rules
    BY DEF Rules
  <2> QED BY <1>5, <1>9, <2>1, TheParse
<1>11. t.ok = q.ok /\ t.at = q.at /\ t.code = f.code \o q.code
  BY <1>6, <1>7, <1>8, <1>10, JoinedIs
<1>12. Says(in, r, "term", i, f)
  <2>1. "term" \in Rules /\ Rank("term") < Rank("expr")
    BY DEF Rules, Rank, Tails
  <2> QED BY <1>4, <2>1 DEF SoonerSays, Sooner
<1>13. Len(f.code) <= f.at - i /\ Means(in, f.code, r[<<"product", i, f.at - 1>>])
  BY <1>7, <1>12 DEF Says, Said
<1>14. Says(in, r, "sum", f.at, q)
  <2>1. "sum" \in Rules
    BY DEF Rules
  <2> QED BY <1>5, <1>9, <2>1 DEF SoonerSays, Sooner
<1>15. /\ Len(q.code) <= q.at - f.at
       /\ \A h \in 1..(f.at - 1) :
            Extends(in, q.code, r[<<"sum", h, f.at - 1>>], r[<<"sum", h, q.at - 1>>])
  BY <1>11, <1>14 DEF Says, Said, Tails
<1>16. Len(t.code) <= t.at - i
  <2>1. Len(t.code) = Len(f.code) + Len(q.code)
    BY <1>8, <1>10, <1>11, ConcatProperties
  <2>2. PICK x \in Nat : x = Len(f.code)
    BY <1>8
  <2>3. PICK y \in Nat : y = Len(q.code)
    BY <1>10
  <2>4. PICK m \in Nat : m = f.at
    BY <1>9
  <2>5. PICK n \in Nat : n = q.at
    BY <1>10, ParseFields
  <2>6. x <= m - i /\ y <= n - m /\ Len(t.code) = x + y
    BY <1>13, <1>15, <2>1, <2>2, <2>3, <2>4, <2>5
  <2>7. x + y <= n - i
    BY <1>2, <2>6
  <2> QED BY <1>11, <2>5, <2>6, <2>7
<1>17. PICK j \in Int : j = f.at - 1 /\ j \in 0..Len(s) /\ i \in 1..j
  BY <1>2, <1>8
<1>18. PICK v \in r[<<"product", i, j>>] : Turns(f.code, in, <<>>, <<v>>)
  BY <1>13, <1>17 DEF Means
<1>19. v \in r[<<"sum", i, j>>]
  <2>1. r[<<"sum", i, j>>] = SumOf(s, r, i, j)
    BY <1>17, TheReadings
  <2> QED BY <1>18, <2>1 DEF SumOf
<1>20. Extends(in, q.code, r[<<"sum", i, j>>], r[<<"sum", i, q.at - 1>>])
  BY <1>15, <1>17
<1>21. PICK w \in r[<<"sum", i, q.at - 1>>] : Turns(q.code, in, <<v>>, <<w>>)
  BY <1>19, <1>20 DEF Extends
<1>22. Turns(t.code, in, <<>>, <<w>>)
  BY <1>8, <1>10, <1>11, <1>18, <1>21, ThenTurns
<1> QED BY <1>11, <1>16, <1>21, <1>22 DEF Means

(* and the arguments of a call.                                            *)
LEMMA ArgsSays ==
  ASSUME NEW s, NEW in, NEW p, NEW r, Tables(s, in, p, r), NEW i \in 1..(Len(s) + 1),
         SoonerSays(s, in, p, r, "args", i)
  PROVE  Says(in, r, "args", i, p[<<"args", i>>])
<1>1. PICK t : t = p[<<"args", i>>]
  OBVIOUS
<1> SUFFICES ASSUME t.ok
             PROVE  /\ Len(t.code) <= t.at - i
                    /\ \E l \in r[<<"list", i, t.at - 1>>] : Len(l) = t.argc /\ Turns(t.code, in, <<>>, l)
  BY <1>1 DEF Says, Said, Tails
<1>2. Len(s) \in Nat /\ in \in Vectors /\ i \in Nat /\ i \in Int
  BY DEF Tables
<1>3. t = Args(s, p, i)
  BY <1>1, TheRules
<1>4. PICK e : e = p[<<"expr", i>>]
  OBVIOUS
<1>5. e \in Parses /\ e.code \in Seq(Instrs) /\ Len(e.code) \in Nat
      /\ (e.ok => e.at \in (i + 1)..(Len(s) + 1))
  <2>1. "expr" \in Rules /\ "expr" \notin Tails
    BY DEF Rules, Tails
  <2>2. /\ e \in Parses /\ e.code \in Seq(Instrs) /\ Len(e.code) \in Nat
        /\ e.ok => e.at \in i..(Len(s) + 1) /\ e.at > i
    BY <1>4, <2>1, TheParse
  <2> QED BY <1>2, <2>2
<1>6. Says(in, r, "expr", i, e)
  <2>1. "expr" \in Rules /\ Rank("expr") < Rank("args")
    BY DEF Rules, Rank, Tails
  <2> QED BY <1>4, <2>1 DEF SoonerSays, Sooner
<1>7. e.ok => Len(e.code) <= e.at - i /\ Means(in, e.code, r[<<"sum", i, e.at - 1>>])
  BY <1>6 DEF Says, Said
<1>8. CASE ~e.ok \/ Tok(s, e.at) # Comma
  <2>1. PICK n \in Nat : n = 1
    OBVIOUS
  <2>2. t = [e EXCEPT !.argc = n]
    BY <1>3, <1>4, <1>8, <2>1 DEF Args
  <2>3. e.ok /\ t.at = e.at /\ t.code = e.code /\ t.argc = 1
    BY <1>5, <2>1, <2>2, ArgcSet
  <2>4. PICK j \in Int : j = e.at - 1 /\ j \in 0..Len(s)
    BY <1>2, <1>5, <2>3
  <2>5. PICK v \in r[<<"sum", i, j>>] : Turns(e.code, in, <<>>, <<v>>)
    BY <1>7, <2>3, <2>4 DEF Means
  <2>6. r[<<"list", i, j>>] = ListOf(s, r, i, j)
    BY <2>4, TheReadings
  <2>7. <<v>> \in r[<<"list", i, j>>]
    BY <2>5, <2>6 DEF ListOf, Single
  <2>8. Len(<<v>>) = 1
    OBVIOUS
  <2> QED BY <1>7, <2>3, <2>4, <2>5, <2>7, <2>8
<1>9. CASE e.ok /\ Tok(s, e.at) = Comma
  <2>1. PICK n \in Nat : n = Len(s)
    BY <1>2
  <2>2. PICK j : j = e.at
    OBVIOUS
  <2>3. j \in (i + 1)..(n + 1) /\ Tok(s, j) = Comma
    BY <1>5, <1>9, <2>2, <2>1
  <2>4. n \in Nat /\ i \in Int /\ 1 <= i
    BY <1>2
  <2>5. j \in Int /\ i < j /\ j <= n + 1 /\ j \in Nat
    BY <2>3, <2>4
  <2>6. j <= n /\ s[j] = Comma
    <3>1. Tok(s, j) # "end" /\ Len(s) \in Nat
      BY <1>2, <2>3, CommaIsNoEnd
    <3>2. j <= Len(s) /\ Tok(s, j) = s[j]
      BY <2>5, <3>1, TokAt
    <3> QED BY <2>3, <3>2, <2>1
  <2>7. j = e.at /\ j \in (i + 1)..n /\ s[j] = Comma
    BY <2>5, <2>6, <2>2, <2>4
  <2>8. j + 1 \in 1..(Len(s) + 1) /\ j + 1 > i /\ j - 1 \in 0..Len(s) /\ j \in Int
    <3>1. j + 1 \in 1..(n + 1) /\ j + 1 > i /\ j - 1 \in 0..n /\ j \in Int
      BY <2>5, <2>6, <2>4
    <3> QED BY <3>1, <2>1
  <2>9. PICK m : m = p[<<"args", j + 1>>]
    OBVIOUS
  <2>10. m \in Parses /\ m.code \in Seq(Instrs) /\ Len(m.code) \in Nat
        /\ (m.ok => m.at \in (j + 2)..(Len(s) + 1))
    <3>1. "args" \in Rules /\ "args" \notin Tails
      BY DEF Rules, Tails
    <3>2. /\ m \in Parses /\ m.code \in Seq(Instrs) /\ Len(m.code) \in Nat
          /\ m.ok => m.at \in (j + 1)..(Len(s) + 1) /\ m.at > j + 1
      BY <2>8, <2>9, <3>1, TheParse
    <3>3. i + 1 <= j /\ n \in Nat
      BY <2>5, <2>4
    <3>4. m.ok => m.at \in (j + 1)..(n + 1) /\ m.at > j + 1
      BY <3>2, <2>1
    <3>5. m.ok => m.at \in (j + 2)..(n + 1)
      BY <2>5, <3>3, <3>4
    <3> QED BY <3>2, <3>5, <2>1
  <2>11. PICK u \in Parses : u = Joined(e, m)
    BY <1>5, <2>10, JoinedIs
  <2>12. u.ok = m.ok /\ u.at = m.at /\ u.code = e.code \o m.code
    BY <1>5, <1>9, <2>10, <2>11, JoinedIs
  <2>13. PICK y \in Nat : y = m.argc + 1
    BY <2>10, ParseFields
  <2>14. t = [u EXCEPT !.argc = y]
    BY <1>3, <1>4, <1>9, <2>7, <2>9, <2>11, <2>13 DEF Args
  <2>15. m.ok /\ t.at = m.at /\ t.code = e.code \o m.code /\ t.argc = m.argc + 1
    BY <2>12, <2>13, <2>14, ArgcSet
  <2>16. Says(in, r, "args", j + 1, m)
    <3>1. "args" \in Rules
      BY DEF Rules
    <3> QED BY <2>8, <2>9, <3>1 DEF SoonerSays, Sooner
  <2>17. PICK k \in Int : k = m.at - 1 /\ k \in 0..Len(s) /\ j \in i..k
    <3>1. PICK x : x = m.at
      OBVIOUS
    <3>2. x \in (j + 2)..(n + 1) /\ i < j /\ i \in Int /\ 1 <= i /\ n \in Nat
      BY <2>10, <2>15, <2>5, <2>4, <3>1, <2>1
    <3>3. x - 1 \in 0..n /\ j \in i..(x - 1) /\ x - 1 \in Int
      BY <2>5, <3>2
    <3> QED BY <3>1, <3>3, <2>1
  <2>18. Len(m.code) <= m.at - (j + 1)
    BY <2>15, <2>16 DEF Says
  <2>19. PICK l \in r[<<"list", j + 1, k>>] : Len(l) = m.argc /\ Turns(m.code, in, <<>>, l)
    BY <2>15, <2>16, <2>17 DEF Says, Said
  <2>20. l \in Seq(Val)
    <3>1. r[<<"list", j + 1, k>>] \subseteq Seq(Val)
      BY <2>8, <2>17, TheReadings
    <3> QED BY <2>19, <3>1
  <2>21. PICK v \in r[<<"sum", i, j - 1>>] : Turns(e.code, in, <<>>, <<v>>)
    BY <1>7, <1>9, <2>7 DEF Means
  <2>22. v \in Val
    <3>1. r[<<"sum", i, j - 1>>] \subseteq Val
      BY <2>8, TheReadings
    <3> QED BY <2>21, <3>1
  <2>23. PICK w : w = Cons(v, l)
    OBVIOUS
  <2>24. Turns(t.code, in, <<>>, w) /\ Len(w) = t.argc
    <3>1. PICK c \in Seq(Instrs) : c = e.code
      BY <1>5
    <3>2. PICK d \in Seq(Instrs) : d = m.code
      BY <2>10
    <3>3. PICK b \in Val : b = v
      BY <2>22
    <3>4. PICK z \in Seq(Val) : z = l
      BY <2>20
    <3>5. Turns(c, in, <<>>, <<b>>) /\ Turns(d, in, <<>>, z)
      BY <2>19, <2>21, <3>1, <3>2, <3>3, <3>4
    <3>6. w = Cons(b, z)
      BY <2>23, <3>3, <3>4
    <3>7. Turns(c \o d, in, <<>>, w) /\ Len(w) = Len(l) + 1
      <4>1. Len(Cons(b, z)) = Len(z) + 1
        BY ConsIs
      <4>2. Turns(c \o d, in, <<>>, w)
        BY <3>5, <3>6, ListTurns
      <4> QED BY <3>4, <3>6, <4>1, <4>2
    <3>8. t.code = c \o d
      BY <2>15, <3>1, <3>2
    <3>9. Len(w) = t.argc
      BY <2>15, <2>19, <3>7
    <3> QED BY <3>7, <3>8, <3>9
  <2>25. w \in ListOf(s, r, i, k)
    <3>1. w \in Listed(r[<<"sum", i, j - 1>>], r[<<"list", j + 1, k>>])
      BY <2>19, <2>21, <2>23 DEF Listed
    <3>2. s[j] \in {Comma}
      BY <2>7
    <3> QED BY <1>2, <2>17, <3>1, <3>2, ListHas
  <2>26. w \in r[<<"list", i, k>>]
    <3>1. r[<<"list", i, k>>] = ListOf(s, r, i, k)
      BY <2>17, TheReadings
    <3> QED BY <2>25, <3>1
  <2>27. Len(t.code) <= t.at - i
    <3>1. PICK c \in Seq(Instrs) : c = e.code
      BY <1>5
    <3>2. PICK d \in Seq(Instrs) : d = m.code
      BY <2>10
    <3>3. PICK x \in Nat : x = Len(c)
      BY LenProperties
    <3>4. PICK z \in Nat : z = Len(d)
      BY LenProperties
    <3>5. Len(c \o d) = x + z
      BY <3>3, <3>4, ConcatProperties
    <3>6. m.at = k + 1
      <4>1. PICK w1 \in Int : w1 = m.at
        BY <2>10, <2>15
      <4>2. k = w1 - 1
        BY <2>17, <4>1
      <4>3. w1 = k + 1
        BY <4>2
      <4> QED BY <4>1, <4>3
    <3>7. x <= j - i
      BY <1>7, <1>9, <2>2, <3>1, <3>3
    <3>8. z <= (k + 1) - (j + 1)
      BY <2>18, <3>2, <3>4, <3>6
    <3>9. x + z <= (k + 1) - i
      BY <2>5, <2>4, <3>7, <3>8
    <3> QED BY <2>15, <3>1, <3>2, <3>5, <3>6, <3>9
  <2> QED BY <2>15, <2>17, <2>24, <2>26, <2>27
<1> QED BY <1>8, <1>9

LEMMA RuleSays ==
  ASSUME NEW s, NEW in, NEW p, NEW r, Tables(s, in, p, r), NEW k \in Rules, NEW i \in 1..(Len(s) + 1),
         SoonerSays(s, in, p, r, k, i)
  PROVE  Says(in, r, k, i, p[<<k, i>>])
<1>1. CASE k = "expr"
  BY <1>1, ExprSays
<1>2. CASE k = "sum"
  BY <1>2, SumSays
<1>3. CASE k = "term"
  BY <1>3, TermSays
<1>4. CASE k = "product"
  BY <1>4, ProductSays
<1>5. CASE k = "factor"
  BY <1>5, FactorSays
<1>6. CASE k = "args"
  BY <1>6, ArgsSays
<1> QED BY <1>1, <1>2, <1>3, <1>4, <1>5, <1>6 DEF Rules

(* Soundness: whatever the parser accepts it emits as one of its readings. *)
LEMMA ParserSays ==
  ASSUME NEW s, NEW in, NEW p, NEW r, Tables(s, in, p, r), NEW k \in Rules, NEW i \in 1..(Len(s) + 1)
  PROVE  Says(in, r, k, i, p[<<k, i>>])
<1>1. Len(s) \in Nat
  BY DEF Tables
<1> DEFINE S == {n \in Nat : \A rule \in Rules, at \in 1..(Len(s) + 1) :
                   Ahead(s, rule, at) = n => Says(in, r, rule, at, p[<<rule, at>>])}
<1>2. ASSUME NEW n \in Nat, \A m \in Nat : m < n => m \in S PROVE n \in S
  <2>1. ASSUME NEW rule \in Rules, NEW at \in 1..(Len(s) + 1), Ahead(s, rule, at) = n
        PROVE  Says(in, r, rule, at, p[<<rule, at>>])
    <3>1. ASSUME NEW l \in Rules, NEW h \in 1..(Len(s) + 1), Sooner(l, h, rule, at)
          PROVE  Says(in, r, l, h, p[<<l, h>>])
      <4>1. PICK m \in Nat : m = Ahead(s, l, h)
        BY <1>1, SoonerIsAhead
      <4>2. m < n
        BY <1>1, <2>1, <3>1, <4>1, SoonerIsAhead
      <4>3. m \in S
        BY <1>2, <4>2
      <4> QED BY <4>1, <4>3
    <3>2. SoonerSays(s, in, p, r, rule, at)
      BY <3>1 DEF SoonerSays
    <3> QED BY <3>2, RuleSays
  <2> QED BY <2>1
<1> HIDE DEF S
<1>3. Nat \subseteq S
  BY <1>2, StrongInduction
<1>4. PICK n \in Nat : n = Ahead(s, k, i)
  BY <1>1, SoonerIsAhead
<1> QED BY <1>3, <1>4 DEF S

-------------------------------------------------------------------------------
(* The expressions of a text, and what the compiler makes of each.         *)

(* One token more of the expressions, and f has those closed so far and    *)
(* the open one.                                                           *)
CutBy(part, token) ==
  IF token = Semicolon THEN [segs |-> Closed(part), cur |-> <<>>]
  ELSE [part EXCEPT !.cur = Append(@, token)]
Cuts(f, s, m) ==
  f = [k \in 0..m |-> IF k = 0 THEN [segs |-> <<>>, cur |-> <<>>]
                      ELSE CutBy(f[k - 1], s[k])]

(* A text can be cut token by token.                                       *)
LEMMA CutsExist ==
  ASSUME NEW s, NEW m \in Nat
  PROVE  \E f : Cuts(f, s, m)
<1>. DEFINE S == {n \in Nat : \E f : Cuts(f, s, n)}
<1>1. 0 \in S
  <2>1. Cuts([n \in 0..0 |-> [segs |-> <<>>, cur |-> <<>>]], s, 0)
    BY DEF Cuts
  <2> QED BY <2>1
<1>2. ASSUME NEW n \in Nat, n \in S PROVE n + 1 \in S
  <2>1. PICK f : Cuts(f, s, n)
    BY <1>2
  <2>. DEFINE g == [k \in 0..(n + 1) |->
                 IF k = n + 1 THEN CutBy(f[n], s[n + 1]) ELSE f[k]]
  <2>2. ASSUME NEW k \in 0..(n + 1)
        PROVE  g[k] = IF k = 0 THEN [segs |-> <<>>, cur |-> <<>>] ELSE CutBy(g[k - 1], s[k])
    <3>1. CASE k = n + 1
      <4>1. k # 0 /\ k - 1 = n /\ g[k - 1] = f[n]
        BY <3>1
      <4> QED BY <3>1, <4>1
    <3>2. CASE k # n + 1
      <4>1. k \in 0..n /\ g[k] = f[k]
        BY <3>2
      <4>2. f[k] = IF k = 0 THEN [segs |-> <<>>, cur |-> <<>>] ELSE CutBy(f[k - 1], s[k])
        BY <2>1, <4>1 DEF Cuts
      <4>3. k # 0 => g[k - 1] = f[k - 1]
        BY <4>1
      <4> QED BY <4>1, <4>2, <4>3
    <3> QED BY <3>1, <3>2
  <2>3. Cuts(g, s, n + 1)
    BY <2>2 DEF Cuts
  <2> QED BY <2>3
<1>3. Nat \subseteq S
  <2> HIDE DEF S
  <2> QED BY <1>1, <1>2, Induction
<1> QED BY <1>3

(* The expressions of a text are no longer than it is.                     *)
LEMMA SplitIs ==
  ASSUME NEW s \in Seq(Tokens)
  PROVE  /\ Split(s) \in Seq(Seq(Tokens))
         /\ \A k \in 1..Len(Split(s)) : Split(s)[k] \in Seq(Tokens) /\ Len(Split(s)[k]) <= Len(s)
<1>1. PICK m \in Nat : m = Len(s) /\ \A n \in 1..m : s[n] \in Tokens
  BY LenProperties, ElementOfSeq
<1>2. PICK f : Cuts(f, s, m) /\ Split(s) = Closed(f[m])
  <2> DEFINE Is(f) == f = [n \in 0..Len(s) |->
                IF n = 0 THEN [segs |-> <<>>, cur |-> <<>>]
                ELSE IF s[n] = Semicolon THEN [segs |-> Closed(f[n - 1]), cur |-> <<>>]
                ELSE [f[n - 1] EXCEPT !.cur = Append(@, s[n])]]
             P == CHOOSE f : Is(f)
  <2>1. \E f : Is(f)
    BY <1>1, CutsExist DEF Cuts, CutBy
  <2>2. Split(s) = Closed(P[Len(s)])
    BY DEF Split
  <2>3. Is(P)
    <3> HIDE DEF Is
    <3> QED BY <2>1
  <2>4. Cuts(P, s, m)
    BY <1>1, <2>3 DEF Cuts, CutBy
  <2> QED BY <1>1, <2>2, <2>4
<1> DEFINE Short(c, n) == c \in Seq(Tokens) /\ Len(c) <= n
           Cut(q, n) == /\ q = [segs |-> q.segs, cur |-> q.cur]
                        /\ q.segs \in Seq(Seq(Tokens)) /\ Short(q.cur, n)
                        /\ \A k \in 1..Len(q.segs) : Short(q.segs[k], n)
           All(g, n) == g \in Seq(Seq(Tokens)) /\ \A k \in 1..Len(g) : Short(g[k], n)
           S == {n \in Nat : n <= m => Cut(f[n], n)}
<1>3. ASSUME NEW g, NEW c, NEW n \in Nat, All(g, n), Short(c, n)
      PROVE  All(Append(g, c), n)
  <2>1. Append(g, c) \in Seq(Seq(Tokens)) /\ Len(Append(g, c)) = Len(g) + 1 /\ Len(g) \in Nat
        /\ (\A k \in 1..Len(g) : Append(g, c)[k] = g[k]) /\ Append(g, c)[Len(g) + 1] = c
    BY <1>3, AppendProperties, LenProperties
  <2>2. ASSUME NEW k \in 1..(Len(g) + 1) PROVE Short(Append(g, c)[k], n)
    <3> HIDE DEF Short, All
    <3>1. CASE k = Len(g) + 1
      BY <1>3, <2>1, <3>1
    <3>2. CASE k # Len(g) + 1
      <4>1. PICK h \in Nat : h = Len(g)
        BY <2>1
      <4>2. k \in 1..h
        BY <3>2, <4>1
      <4>3. Short(g[k], n)
        BY <1>3, <4>1, <4>2 DEF All
      <4> QED BY <2>1, <4>1, <4>2, <4>3
    <3> QED BY <3>1, <3>2
  <2> QED BY <2>1, <2>2
<1>4. ASSUME NEW q, NEW n \in Nat, Cut(q, n) PROVE All(Closed(q), n)
  <2>1. CASE q.cur = <<>>
    BY <1>4, <2>1 DEF Closed
  <2>2. CASE q.cur # <<>>
    <3>1. All(q.segs, n) /\ Short(q.cur, n)
      BY <1>4
    <3>2. Closed(q) = Append(q.segs, q.cur)
      BY <2>2 DEF Closed
    <3> HIDE DEF All, Short, Cut
    <3> QED BY <1>3, <3>1, <3>2
  <2> QED BY <2>1, <2>2
<1>5. 0 \in S
  <2>1. f[0] = [segs |-> <<>>, cur |-> <<>>]
    BY <1>1, <1>2 DEF Cuts, CutBy
  <2>2. Len(<<>>) = 0 /\ <<>> \in Seq(Tokens) /\ <<>> \in Seq(Seq(Tokens))
    OBVIOUS
  <2>3. Cut(f[0], 0)
    BY <2>1, <2>2
  <2> QED BY <2>3
<1>6. ASSUME NEW n \in Nat, n \in S PROVE n + 1 \in S
  <2>1. SUFFICES ASSUME n + 1 <= m PROVE Cut(f[n + 1], n + 1)
    OBVIOUS
  <2>2. n + 1 \in 1..m /\ n + 1 \in 0..m /\ (n + 1) - 1 = n /\ n + 1 # 0
    BY <1>1, <2>1
  <2>3. PICK q : q = f[n] /\ Cut(q, n)
    BY <1>6, <2>2
  <2>4. PICK t \in Tokens : t = s[n + 1]
    BY <1>1, <2>2
  <2>5. f[n + 1] = IF t = Semicolon THEN [segs |-> Closed(q), cur |-> <<>>]
                   ELSE [q EXCEPT !.cur = Append(@, t)]
    <3>1. f[n + 1] = CutBy(f[(n + 1) - 1], s[n + 1])
      BY <1>2, <2>2 DEF Cuts
    <3>2. f[n + 1] = CutBy(q, t)
      BY <2>2, <2>3, <2>4, <3>1
    <3> QED BY <3>2 DEF CutBy
  <2>6. \A c : Short(c, n) => Short(c, n + 1)
    <3> TAKE c
    <3> HAVE Short(c, n)
    <3>1. Len(c) \in Nat
      BY LenProperties
    <3> QED BY <3>1
  <2>7. CASE t = Semicolon
    <3>1. PICK g : g = Closed(q) /\ All(g, n)
      BY <1>4, <2>3
    <3>2. f[n + 1] = [segs |-> g, cur |-> <<>>]
      BY <2>5, <2>7, <3>1
    <3>3. Short(<<>>, n + 1)
      OBVIOUS
    <3>4. All(g, n + 1)
      BY <2>6, <3>1
    <3> QED BY <3>2, <3>3, <3>4
  <2>8. CASE t # Semicolon
    <3>1. PICK c \in Seq(Tokens) : c = Append(q.cur, t) /\ Len(c) = Len(q.cur) + 1
      <4>1. q.cur \in Seq(Tokens)
        BY <2>3
      <4>2. Append(q.cur, t) \in Seq(Tokens) /\ Len(Append(q.cur, t)) = Len(q.cur) + 1
        BY <4>1, AppendProperties
      <4> QED BY <4>2
    <3>2. f[n + 1] = [segs |-> q.segs, cur |-> c]
      BY <2>3, <2>5, <2>8, <3>1
    <3>3. Short(c, n + 1)
      <4>1. Len(q.cur) \in Nat /\ Len(q.cur) <= n
        BY <2>3, LenProperties
      <4> QED BY <3>1, <4>1
    <3>4. All(q.segs, n + 1)
      BY <2>3, <2>6
    <3> QED BY <3>2, <3>3, <3>4
  <2> QED BY <2>7, <2>8
<1> HIDE DEF S
<1>7. Nat \subseteq S
  BY <1>5, <1>6, Induction
<1>8. Cut(f[m], m)
  <2> HIDE DEF Cut
  <2> QED BY <1>1, <1>7 DEF S
<1>9. All(Split(s), m)
  <2> HIDE DEF All, Cut, Short
  <2> QED BY <1>1, <1>2, <1>4, <1>8
<1> QED BY <1>1, <1>9

(* The code of an accepted expression makes of nothing what one of its     *)
(* readings says.                                                          *)
LEMMA ChannelMeans ==
  ASSUME NEW g, Len(g) \in Nat, NEW in \in Vectors, ParseChannel(g).ok
  PROVE  /\ ParseChannel(g).code \in Seq(Instrs) /\ Len(ParseChannel(g).code) <= Len(g)
         /\ \E v \in Read(g, in) : v \in Val /\ Turns(ParseChannel(g).code, in, <<>>, <<v>>)
<1>1. PICK p : p = Parse(g)
  OBVIOUS
<1>2. PICK r : r = Readings(g, in)
  OBVIOUS
<1>3. Tables(g, in, p, r)
  BY <1>1, <1>2, TablesAre
<1>4. PICK t : t = p[<<"expr", 1>>]
  OBVIOUS
<1>5. 1 \in 1..(Len(g) + 1) /\ "expr" \in Rules /\ "expr" \notin Tails
  BY DEF Rules, Tails
<1>6. t \in Parses /\ t.code \in Seq(Instrs) /\ (t.ok => t.at \in 1..(Len(g) + 1) /\ t.at > 1)
  BY <1>3, <1>4, <1>5, TheParse
<1>7. t.at \in Nat
  BY <1>6, ParseFields
<1>8. ParseChannel(g) = IF t.ok /\ t.at # Len(g) + 1 THEN Fail(t.at) ELSE t
  BY <1>1, <1>4 DEF ParseChannel
<1>9. ParseChannel(g) = t /\ t.ok /\ t.at = Len(g) + 1
  BY <1>7, <1>8, FailIs
<1>10. Says(in, r, "expr", 1, t)
  BY <1>3, <1>4, <1>5, ParserSays
<1>11. Len(t.code) <= t.at - 1 /\ Means(in, t.code, r[<<"sum", 1, t.at - 1>>])
  BY <1>9, <1>10 DEF Says, Said
<1>12. PICK j \in 0..Len(g) : j = t.at - 1 /\ j = Len(g)
  BY <1>9
<1>13. PICK v \in r[<<"sum", 1, j>>] : Turns(t.code, in, <<>>, <<v>>)
  BY <1>11, <1>12 DEF Means
<1>14. v \in Val
  <2>1. r[<<"sum", 1, j>>] \subseteq Val
    BY <1>3, <1>5, TheReadings
  <2> QED BY <1>13, <2>1
<1>15. v \in Read(g, in)
  BY <1>2, <1>12, <1>13 DEF Read
<1> QED BY <1>6, <1>9, <1>11, <1>12, <1>13, <1>14, <1>15

(* A run of a code that makes one value of nothing.                        *)
LEMMA TurnsTrace ==
  ASSUME NEW c, NEW in, NEW v, <<v>> \in Seq(Val), Turns(c, in, <<>>, <<v>>)
  PROVE  \E f : Trace(f, c, in, <<>>) /\ f[Len(c)] = <<v>>
<1>1. PICK e \in Seq(Val) : e = <<>>
  BY EmptySeq
<1>2. PICK f : Trace(f, c, in, e \o e) /\ f[Len(c)] = e \o <<v>>
  BY <1>1 DEF Turns
<1>3. e \o e = <<>> /\ e \o <<v>> = <<v>>
  BY <1>1, ConcatEmptySeq
<1> QED BY <1>2, <1>3

(* A compiled program has the code of each of its expressions.             *)
LEMMA CompiledIs ==
  ASSUME NEW s \in Seq(Tokens), NEW n \in Nat, NEW p \in Compiled(s, n)
  PROVE  /\ Len(Split(s)) = n /\ DOMAIN p = 1..n
         /\ \A k \in 1..n : ParseChannel(Split(s)[k]).ok /\ p[k] = ParseChannel(Split(s)[k]).code
<1>1. PICK g \in Seq(Seq(Tokens)) : g = Split(s)
  BY SplitIs
<1>2. DOMAIN g = 1..Len(g)
  BY LenProperties
<1>3. Len(g) = n /\ (\A k \in DOMAIN g : ParseChannel(g[k]).ok)
      /\ p = [k \in DOMAIN g |-> ParseChannel(g[k]).code]
  BY <1>1 DEF Compiled
<1> QED BY <1>1, <1>2, <1>3

(* A channel of a compiled program makes one of the values its expression  *)
(* has.                                                                    *)
LEMMA ProgramTraces ==
  ASSUME NEW s \in Seq(Tokens), NEW n \in Nat, NEW p \in Compiled(s, n), NEW in \in Vectors,
         NEW k \in 1..n
  PROVE  /\ p[k] \in Seq(Instrs) /\ Len(p[k]) <= Len(Split(s)[k])
         /\ \E v \in Read(Split(s)[k], in) : v \in Val /\ Turns(p[k], in, <<>>, <<v>>)
         /\ \E f, v : v \in Val /\ Trace(f, p[k], in, <<>>) /\ f[Len(p[k])] = <<v>>
<1>1. PICK g : g = Split(s)[k]
  OBVIOUS
<1>2. ParseChannel(g).ok /\ p[k] = ParseChannel(g).code /\ Len(Split(s)) = n
  BY <1>1, CompiledIs
<1>3. Len(g) \in Nat
  BY <1>1, <1>2, SplitIs, LenProperties
<1>4. PICK c : c = p[k]
  OBVIOUS
<1>5. c \in Seq(Instrs) /\ Len(c) <= Len(g) /\ \E v \in Read(g, in) : v \in Val /\ Turns(c, in, <<>>, <<v>>)
  BY <1>2, <1>3, <1>4, ChannelMeans
<1>6. PICK v \in Read(g, in) : v \in Val /\ Turns(c, in, <<>>, <<v>>)
  BY <1>5
<1>7. <<v>> \in Seq(Val)
  BY <1>6
<1>8. \E f : Trace(f, c, in, <<>>) /\ f[Len(c)] = <<v>>
  BY <1>6, <1>7, TurnsTrace
<1> QED BY <1>1, <1>4, <1>5, <1>6, <1>8

-------------------------------------------------------------------------------
(* What the limits do to a compiled program.                               *)

(* The limits are numbers and the inputs are vectors.                      *)
LEMMA SandboxConstants ==
  Channels \in Nat /\ MaxOps \in Nat /\ MaxStack \in Nat /\ Fuel \in Nat /\ Inputs \subseteq Vectors
BY SandboxAssumption DEF Vectors

(* A compiled program that does not fit the limits is refused, and no      *)
(* other: the trace of each channel is that of a machine that no limit has *)
(* stopped.                                                                *)
LEMMA LimitsRefuse ==
  ASSUME source \in Seq(Tokens)
  PROVE  RefusedForLimitsOnly
<1> SUFFICES ASSUME NEW p \in Compiled(source, Channels), NEW in \in Inputs, NEW k \in 1..Channels,
                    NEW o \in 1..MaxOps, NEW d \in 1..MaxStack
             PROVE  (EvalChannel(p[k], in, Limits(o, d)).status = "ok")
                      <=> Len(p[k]) <= o /\ \A n \in DOMAIN p[k] : Heights(p[k])[n] <= d
  BY DEF RefusedForLimitsOnly, Limits
<1>1. in \in Vectors /\ o \in Nat /\ d \in Nat /\ Channels \in Nat
  BY SandboxConstants
<1>2. PICK c \in Seq(Instrs) :
        c = p[k] /\ \E f, v : v \in Val /\ Trace(f, c, in, <<>>) /\ f[Len(c)] = <<v>>
  <2>1. /\ p[k] \in Seq(Instrs)
        /\ \E f, v : v \in Val /\ Trace(f, p[k], in, <<>>) /\ f[Len(p[k])] = <<v>>
    BY <1>1, ProgramTraces
  <2> QED BY <2>1
<1>3. PICK f, v : Trace(f, c, in, <<>>) /\ f[Len(c)] = <<v>>
  BY <1>2
<1>4. DOMAIN c = 1..Len(c) /\ Len(c) \in Nat
  BY LenProperties
<1>5. \A n \in 1..Len(c) : Len(f[n]) = Heights(c)[n]
  <2>1. \A n \in 1..Len(c) : n \in 0..Len(c)
    BY <1>4
  <2> QED BY <1>3, <2>1, TraceHeights
<1>6. Within(f, Len(c), o, d) <=> Len(c) <= o /\ \A n \in DOMAIN c : Heights(c)[n] <= d
  BY <1>4, <1>5 DEF Within
<1>7. IF Within(f, Len(c), o, d)
      THEN EvalChannel(c, in, Limits(o, d)) = [status |-> "ok", ops |-> Len(c), stack |-> <<v>>]
      ELSE EvalChannel(c, in, Limits(o, d)).status \in {"budget", "overflow"}
  BY <1>1, <1>3, EvalFollows
<1>8. (EvalChannel(c, in, Limits(o, d)).status = "ok") <=> Within(f, Len(c), o, d)
  BY <1>7
<1> QED BY <1>2, <1>6, <1>8

-------------------------------------------------------------------------------
(* The two engines.                                                        *)

(* The answers so far, with that of one more channel.                      *)
Answered(acc, m) ==
  IF acc.ok /\ m.status = "ok"
  THEN [ok |-> TRUE, fuel |-> m.fuel, out |-> Append(acc.out, m.stack[1])]
  ELSE [acc EXCEPT !.ok = FALSE]

(* f has what the engine has answered after so many channels.             *)
Answers(f, program, in, m) ==
  f = [k \in 0..m |-> IF k = 0 THEN [ok |-> TRUE, fuel |-> Fuel, out |-> <<>>]
                      ELSE Answered(f[k - 1], WasmCall(program[k], in, f[k - 1].fuel))]

(* The answers of a call, channel by channel, exist,                       *)
LEMMA AnswersExist ==
  ASSUME NEW program, NEW in, NEW m \in Nat
  PROVE  \E f : Answers(f, program, in, m)
<1>. DEFINE S == {n \in Nat : \E f : Answers(f, program, in, n)}
<1>1. 0 \in S
  <2>1. Answers([n \in 0..0 |-> [ok |-> TRUE, fuel |-> Fuel, out |-> <<>>]], program, in, 0)
    BY DEF Answers
  <2> QED BY <2>1
<1>2. ASSUME NEW n \in Nat, n \in S PROVE n + 1 \in S
  <2>1. PICK f : Answers(f, program, in, n)
    BY <1>2
  <2>. DEFINE g == [k \in 0..(n + 1) |->
                 IF k = n + 1 THEN Answered(f[n], WasmCall(program[n + 1], in, f[n].fuel)) ELSE f[k]]
  <2>2. ASSUME NEW k \in 0..(n + 1)
        PROVE  g[k] = IF k = 0 THEN [ok |-> TRUE, fuel |-> Fuel, out |-> <<>>]
                      ELSE Answered(g[k - 1], WasmCall(program[k], in, g[k - 1].fuel))
    <3>1. CASE k = n + 1
      <4>1. k # 0 /\ k - 1 = n /\ g[k - 1] = f[n]
        BY <3>1
      <4> QED BY <3>1, <4>1
    <3>2. CASE k # n + 1
      <4>1. k \in 0..n /\ g[k] = f[k]
        BY <3>2
      <4>2. f[k] = IF k = 0 THEN [ok |-> TRUE, fuel |-> Fuel, out |-> <<>>]
                    ELSE Answered(f[k - 1], WasmCall(program[k], in, f[k - 1].fuel))
        BY <2>1, <4>1 DEF Answers
      <4>3. k # 0 => g[k - 1] = f[k - 1]
        BY <4>1
      <4> QED BY <4>1, <4>2, <4>3
    <3> QED BY <3>1, <3>2
  <2>3. Answers(g, program, in, n + 1)
    BY <2>2 DEF Answers
  <2> QED BY <2>3
<1>3. Nat \subseteq S
  <2> HIDE DEF S
  <2> QED BY <1>1, <1>2, Induction
<1> QED BY <1>3

(* and are what the engine gives.                                          *)
LEMMA WasmAnswers ==
  ASSUME NEW program, NEW in, Len(program) \in Nat
  PROVE  \E f : Answers(f, program, in, Len(program)) /\ WasmEval(program, in) = f[Len(program)]
<1> DEFINE Is(f) == f = [n \in 0..Len(program) |->
        IF n = 0 THEN [ok |-> TRUE, fuel |-> Fuel, out |-> <<>>]
        ELSE LET acc == f[n - 1]
                 m   == WasmCall(program[n], in, acc.fuel)
             IN  IF acc.ok /\ m.status = "ok"
                 THEN [ok |-> TRUE, fuel |-> m.fuel, out |-> Append(acc.out, m.stack[1])]
                 ELSE [acc EXCEPT !.ok = FALSE]]
           P == CHOOSE f : Is(f)
<1>1. \E f : Is(f)
  <2>1. PICK f : Answers(f, program, in, Len(program))
    BY AnswersExist
  <2>2. Is(f)
    BY <2>1 DEF Answers, Answered
  <2> QED BY <2>2
<1>2. WasmEval(program, in) = P[Len(program)]
  BY DEF WasmEval
<1>3. Is(P)
  <2> HIDE DEF Is
  <2> QED BY <1>1
<1>4. Answers(P, program, in, Len(program))
  BY <1>3 DEF Answers, Answered
<1> QED BY <1>2, <1>4

(* A channel that the interpreter finishes, and that meets only operands   *)
(* both engines treat alike, has the same result on either engine.         *)
LEMMA ChannelAgrees ==
  ASSUME NEW c \in Seq(Instrs), NEW in \in Vectors, NEW o \in Nat, NEW d \in Nat, NEW f, NEW v,
         Trace(f, c, in, <<>>), f[Len(c)] = <<v>>,
         EvalChannel(c, in, Limits(o, d)).status = "ok", FedAlike(c, in, Limits(o, d))
  PROVE  /\ EvalChannel(c, in, Limits(o, d)).stack[1] = v
         /\ \A x \in Nat : WasmCall(c, in, x).status = "ok" =>
              WasmCall(c, in, x).stack[1] = v /\ WasmCall(c, in, x).fuel \in Nat
<1>1. PICK m \in Nat : m = Len(c) /\ DOMAIN c = 1..m
  BY LenProperties
<1>2. Within(f, m, o, d) /\ EvalChannel(c, in, Limits(o, d)) = [status |-> "ok", ops |-> m, stack |-> <<v>>]
  <2>1. IF Within(f, m, o, d)
        THEN EvalChannel(c, in, Limits(o, d)) = [status |-> "ok", ops |-> m, stack |-> <<v>>]
        ELSE EvalChannel(c, in, Limits(o, d)).status \in {"budget", "overflow"}
    BY <1>1, EvalFollows
  <2> QED BY <2>1
<1>3. ASSUME NEW n \in 1..m PROVE MetAlike(c[n], f[n - 1])
  <2>1. n \in DOMAIN c /\ n - 1 \in 0..m
    BY <1>1
  <2>2. Within(f, n - 1, o, d)
    BY <1>2 DEF Within
  <2>3. Machines(c, in, Limits(o, d))[n - 1] = MachineAt(n - 1, f[n - 1])
    BY <1>1, <2>1, <2>2, MachineFollows
  <2>4. Machines(c, in, Limits(o, d))[n - 1].stack = f[n - 1]
    BY <2>3 DEF MachineAt
  <2> QED BY <2>1, <2>4 DEF FedAlike, MetAlike
<1>4. <<v>>[1] = v
  OBVIOUS
<1> QED BY <1>1, <1>2, <1>3, <1>4, CallFollows

(* Channel by channel, the answers of the engines are the same.            *)
LEMMA EnginesAnswerAlike ==
  ASSUME source \in Seq(Tokens)
  PROVE  EnginesAgree
<1> DEFINE lim == Limits(MaxOps, MaxStack)
<1> SUFFICES ASSUME NEW p \in Compiled(source, Channels), NEW in \in Inputs,
                    Run(p, in, lim).ok, WasmEval(p, in).ok,
                    \A k \in DOMAIN p : FedAlike(p[k], in, lim)
             PROVE  Detect(p, in) = WasmDetect(p, in)
  BY DEF EnginesAgree, Limits
<1>1. /\ in \in Vectors /\ MaxOps \in Nat /\ MaxStack \in Nat /\ Channels \in Nat /\ Fuel \in Nat
  BY SandboxConstants
<1>2. PICK m : m = [k \in DOMAIN p |-> EvalChannel(p[k], in, lim)]
  OBVIOUS
<1>3. DOMAIN p = 1..Channels /\ DOMAIN m = 1..Channels
  BY <1>1, <1>2, CompiledIs
<1>4. /\ \A k \in DOMAIN m : m[k].status = "ok"
      /\ Run(p, in, lim) = [ok |-> TRUE, out |-> [k \in DOMAIN m |-> m[k].stack[1]]]
  <2>1. Run(p, in, lim) =
          IF \A k \in DOMAIN m : m[k].status = "ok"
          THEN [ok |-> TRUE, out |-> [k \in DOMAIN m |-> m[k].stack[1]]]
          ELSE [ok |-> FALSE, out |-> <<>>]
    BY <1>2 DEF Run
  <2> QED BY <2>1
<1>5. ASSUME NEW k \in 1..Channels
      PROVE  \A x \in Nat : WasmCall(p[k], in, x).status = "ok" =>
               /\ WasmCall(p[k], in, x).stack[1] = m[k].stack[1]
               /\ WasmCall(p[k], in, x).fuel \in Nat
  <2>1. PICK c \in Seq(Instrs) :
          c = p[k] /\ \E f, v : v \in Val /\ Trace(f, c, in, <<>>) /\ f[Len(c)] = <<v>>
    <3>1. /\ p[k] \in Seq(Instrs)
          /\ \E f, v : v \in Val /\ Trace(f, p[k], in, <<>>) /\ f[Len(p[k])] = <<v>>
      BY <1>1, ProgramTraces
    <3> QED BY <3>1
  <2>2. PICK f, v : Trace(f, c, in, <<>>) /\ f[Len(c)] = <<v>>
    BY <2>1
  <2>3. m[k] = EvalChannel(c, in, lim) /\ m[k].status = "ok" /\ FedAlike(c, in, lim)
    BY <1>2, <1>3, <1>4, <2>1
  <2>4. /\ EvalChannel(c, in, lim).stack[1] = v
        /\ \A x \in Nat : WasmCall(c, in, x).status = "ok" =>
             WasmCall(c, in, x).stack[1] = v /\ WasmCall(c, in, x).fuel \in Nat
    BY <1>1, <2>2, <2>3, ChannelAgrees
  <2> QED BY <2>1, <2>3, <2>4
<1>6. Len(p) = Channels
  <2>1. p = [k \in DOMAIN Split(source) |-> ParseChannel(Split(source)[k]).code]
    BY DEF Compiled
  <2> QED BY <1>1, <1>3, <2>1
<1>7. PICK f : Answers(f, p, in, Channels) /\ WasmEval(p, in) = f[Channels]
  BY <1>1, <1>6, WasmAnswers
<1> DEFINE Good(q, n) == /\ q = [ok |-> q.ok, fuel |-> q.fuel, out |-> q.out]
                         /\ q.ok => /\ q.fuel \in Nat /\ q.out = [k \in 1..n |-> m[k].stack[1]]
           S == {n \in Nat : n <= Channels => Good(f[n], n)}
<1>8. 0 \in S
  <2>1. f[0] = [ok |-> TRUE, fuel |-> Fuel, out |-> <<>>]
    BY <1>1, <1>7 DEF Answers
  <2>2. <<>> = [k \in 1..0 |-> m[k].stack[1]]
    OBVIOUS
  <2> QED BY <1>1, <2>1, <2>2
<1>9. ASSUME NEW n \in Nat, n \in S PROVE n + 1 \in S
  <2>1. SUFFICES ASSUME n + 1 <= Channels PROVE Good(f[n + 1], n + 1)
    OBVIOUS
  <2>2. n + 1 \in 1..Channels /\ n + 1 \in 0..Channels /\ (n + 1) - 1 = n /\ n + 1 # 0 /\ n <= Channels
    BY <1>1, <2>1
  <2>3. PICK q : q = f[n] /\ Good(q, n)
    BY <1>9, <2>2
  <2>4. PICK w : w = WasmCall(p[n + 1], in, q.fuel)
    OBVIOUS
  <2>5. f[n + 1] = IF q.ok /\ w.status = "ok"
                   THEN [ok |-> TRUE, fuel |-> w.fuel, out |-> Append(q.out, w.stack[1])]
                   ELSE [q EXCEPT !.ok = FALSE]
    <3>1. f[n + 1] = Answered(f[n], WasmCall(p[n + 1], in, f[n].fuel))
      BY <1>7, <2>2 DEF Answers
    <3> QED BY <2>3, <2>4, <3>1 DEF Answered
  <2>6. CASE q.ok /\ w.status = "ok"
    <3>1. w.stack[1] = m[n + 1].stack[1] /\ w.fuel \in Nat
      BY <1>5, <2>2, <2>3, <2>4, <2>6
    <3>2. Append([k \in 1..n |-> m[k].stack[1]], m[n + 1].stack[1]) = [k \in 1..(n + 1) |-> m[k].stack[1]]
      OBVIOUS
    <3>3. f[n + 1] = [ok |-> TRUE, fuel |-> w.fuel, out |-> [k \in 1..(n + 1) |-> m[k].stack[1]]]
      <4>1. f[n + 1] = [ok |-> TRUE, fuel |-> w.fuel, out |-> Append(q.out, w.stack[1])]
        BY <2>5, <2>6
      <4>2. q.out = [k \in 1..n |-> m[k].stack[1]]
        BY <2>3, <2>6
      <4> QED BY <3>1, <3>2, <4>1, <4>2
    <3> QED BY <3>1, <3>3
  <2>7. CASE ~(q.ok /\ w.status = "ok")
    <3>1. f[n + 1] = [ok |-> FALSE, fuel |-> q.fuel, out |-> q.out]
      BY <2>3, <2>5, <2>7
    <3> QED BY <3>1
  <2> QED BY <2>6, <2>7
<1> HIDE DEF S
<1>10. Nat \subseteq S
  BY <1>8, <1>9, Induction
<1>11. Good(f[Channels], Channels)
  <2> HIDE DEF Good
  <2> QED BY <1>1, <1>10 DEF S
<1>12. WasmEval(p, in).ok /\ WasmEval(p, in).out = [k \in DOMAIN m |-> m[k].stack[1]]
  BY <1>3, <1>7, <1>11
<1>13. Run(p, in, lim).ok /\ Run(p, in, lim).out = [k \in DOMAIN m |-> m[k].stack[1]]
  BY <1>4
<1>14. Position(Run(p, in, lim)) = Position(WasmEval(p, in))
  BY <1>12, <1>13 DEF Position
<1> QED BY <1>14 DEF Detect, WasmDetect, Limits

-------------------------------------------------------------------------------
(* The parser accepts what has a reading.                                  *)

(* A rule has stopped there, and its code makes that of nothing; or it has *)
(* come there with a code that makes v of nothing, and goes on with q.     *)
Ends(in, t, at, st) == t.ok /\ t.at = at /\ Turns(t.code, in, <<>>, st)
GoesOn(in, t, at, q, v) ==
  \E c \in Seq(Instrs) : Turns(c, in, <<>>, <<v>>) /\ t = Joined(Parsed(at, c), q)

(* What the parser makes of the tokens from i to j, if they have a reading *)
(* and what follows them does not belong to it.                            *)
FactorReads(s, in, p, r, i, j) ==
  \A v \in r[<<"factor", i, j>>] : Tok(s, j + 1) # "(" => Ends(in, p[<<"factor", i>>], j + 1, <<v>>)

ProductReads(s, in, p, r, i, j) ==
  \A v \in r[<<"product", i, j>>] : Tok(s, j + 1) # "(" =>
    GoesOn(in, p[<<"term", i>>], j + 1, p[<<"product", j + 1>>], v)

SumReads(s, in, p, r, i, j) ==
  \A v \in r[<<"sum", i, j>>] : Tok(s, j + 1) \notin {"(", "*", "/"} =>
    GoesOn(in, p[<<"expr", i>>], j + 1, p[<<"sum", j + 1>>], v)

ListReads(s, in, p, r, i, j) ==
  \A l \in r[<<"list", i, j>>] : Tok(s, j + 1) = ")" =>
    Ends(in, p[<<"args", i>>], j + 1, l) /\ p[<<"args", i>>].argc = Len(l)

Reads(s, in, p, r, k, i, j) ==
  CASE k = "factor"  -> FactorReads(s, in, p, r, i, j)
    [] k = "product" -> ProductReads(s, in, p, r, i, j)
    [] k = "sum"     -> SumReads(s, in, p, r, i, j)
    [] k = "list"    -> ListReads(s, in, p, r, i, j)

SimplerReads(s, in, p, r, kind, from, to) ==
  \A k \in Kinds, i \in 1..(Len(s) + 1), j \in 0..Len(s) :
    Simpler(k, i, j, kind, from, to) => Reads(s, in, p, r, k, i, j)

(* Three rules in a row, and the first two as one.                         *)
Chained(x, e, y) == x.ok /\ e.ok /\ y.ok /\ y.code = x.code \o e.code

LEMMA JoinedTwice ==
  ASSUME NEW x \in Parses, NEW e \in Parses, NEW q \in Parses, NEW y \in Parses,
         Chained(x, e, y)
  PROVE  Joined(x, Joined(e, q)) = Joined(y, q)
<1>. USE DEF Chained
<1>1. PICK a \in Seq(Instrs) : a = x.code
  BY ParseFields
<1>2. PICK b \in Seq(Instrs) : b = e.code
  BY ParseFields
<1>3. PICK d \in Seq(Instrs) : d = q.code
  BY ParseFields
<1>4. q = [ok |-> q.ok, at |-> q.at, code |-> d, argc |-> q.argc]
  BY <1>3, ParseFields
<1>5. Joined(e, q) = [ok |-> q.ok, at |-> q.at, code |-> b \o d, argc |-> q.argc]
  BY <1>2, <1>3, <1>4 DEF Joined
<1>6. Joined(x, Joined(e, q)) = [ok |-> q.ok, at |-> q.at, code |-> a \o (b \o d), argc |-> q.argc]
  BY <1>1, <1>5 DEF Joined
<1>7. PICK c : c = y.code
  OBVIOUS
<1>8. Joined(y, q) = [ok |-> q.ok, at |-> q.at, code |-> c \o d, argc |-> q.argc]
  BY <1>3, <1>4, <1>7 DEF Joined
<1>9. (a \o b) \o d = a \o (b \o d)
  BY ConcatAssociative
<1> QED BY <1>1, <1>2, <1>6, <1>7, <1>8, <1>9

(* A rule that has stopped and the same in other words.                    *)
LEMMA JoinedSame ==
  ASSUME NEW t \in Parses, NEW q \in Parses, t.ok
  PROVE  Joined(t, q) = Joined(Parsed(t.at, t.code), q)
BY DEF Joined, Parsed

(* With no more to come, a rule that goes on ends.                         *)
LEMMA GoesOnEnds ==
  ASSUME NEW in, NEW t, NEW at \in Nat, NEW v, GoesOn(in, t, at, Parsed(at, <<>>), v)
  PROVE  Ends(in, t, at, <<v>>)
<1>1. PICK c \in Seq(Instrs) : Turns(c, in, <<>>, <<v>>) /\ t = Joined(Parsed(at, c), Parsed(at, <<>>))
  BY DEF GoesOn
<1>2. PICK x \in Parses : x = Parsed(at, c) /\ x.ok /\ x.code = c
  BY ParsedIs
<1>3. PICK y \in Parses : y = Parsed(at, <<>>) /\ y.ok /\ y.at = at /\ y.code = <<>>
  <2>1. PICK e \in Seq(Instrs) : e = <<>>
    BY EmptySeq
  <2> QED BY <2>1, ParsedIs
<1>4. t.ok /\ t.at = at /\ t.code = c \o <<>>
  <2>1. t = Joined(x, y)
    BY <1>1, <1>2, <1>3
  <2>2. Joined(x, y).ok = y.ok /\ Joined(x, y).at = y.at /\ Joined(x, y).code = x.code \o y.code
    BY <1>2, JoinedIs
  <2> QED BY <1>2, <1>3, <2>1, <2>2
<1>5. c \o <<>> = c
  BY ConcatEmptySeq
<1> QED BY <1>1, <1>4, <1>5 DEF Ends

(* No product goes on but with its operators, and no sum but with its own. *)
LEMMA NoMoreProduct ==
  ASSUME NEW s, NEW in, NEW p, NEW r, Tables(s, in, p, r), NEW i \in 1..(Len(s) + 1),
         Tok(s, i) \notin {"*", "/"}
  PROVE  p[<<"product", i>>] = Parsed(i, <<>>)
<1>1. p[<<"product", i>>] = Product(s, p, i)
  BY TheRules
<1> QED BY <1>1 DEF Product

LEMMA NoMoreSum ==
  ASSUME NEW s, NEW in, NEW p, NEW r, Tables(s, in, p, r), NEW i \in 1..(Len(s) + 1),
         Tok(s, i) \notin {"+", "-"}
  PROVE  p[<<"sum", i>>] = Parsed(i, <<>>)
<1>1. p[<<"sum", i>>] = Sum(s, p, i)
  BY TheRules
<1> QED BY <1>1 DEF Sum

(* A product and a sum end where nothing goes on with them.                *)
LEMMA TermEnds ==
  ASSUME NEW s, NEW in, NEW p, NEW r, Tables(s, in, p, r), NEW i \in 1..(Len(s) + 1),
         NEW j \in 0..Len(s), ProductReads(s, in, p, r, i, j), NEW v \in r[<<"product", i, j>>],
         Tok(s, j + 1) \notin {"(", "*", "/"}
  PROVE  Ends(in, p[<<"term", i>>], j + 1, <<v>>)
<1>1. j + 1 \in 1..(Len(s) + 1) /\ j + 1 \in Nat
  BY DEF Tables
<1>2. p[<<"product", j + 1>>] = Parsed(j + 1, <<>>)
  BY <1>1, NoMoreProduct
<1>3. GoesOn(in, p[<<"term", i>>], j + 1, p[<<"product", j + 1>>], v)
  BY DEF ProductReads
<1> QED BY <1>1, <1>2, <1>3, GoesOnEnds

LEMMA ExprEnds ==
  ASSUME NEW s, NEW in, NEW p, NEW r, Tables(s, in, p, r), NEW i \in 1..(Len(s) + 1),
         NEW j \in 0..Len(s), SumReads(s, in, p, r, i, j), NEW v \in r[<<"sum", i, j>>],
         Tok(s, j + 1) \notin {"(", "*", "/", "+", "-"}
  PROVE  Ends(in, p[<<"expr", i>>], j + 1, <<v>>)
<1>1. j + 1 \in 1..(Len(s) + 1) /\ j + 1 \in Nat
  BY DEF Tables
<1>2. p[<<"sum", j + 1>>] = Parsed(j + 1, <<>>)
  BY <1>1, NoMoreSum
<1>3. GoesOn(in, p[<<"expr", i>>], j + 1, p[<<"sum", j + 1>>], v)
  BY DEF SumReads
<1> QED BY <1>1, <1>2, <1>3, GoesOnEnds

(* What the parser makes of a sign, a parenthesis and a call whose inside  *)
(* it has read.                                                            *)
LEMMA ReadNumber ==
  ASSUME NEW s, NEW in, NEW p, NEW r, Tables(s, in, p, r), NEW i \in 1..Len(s),
         s[i] \in DOMAIN Literals
  PROVE  Ends(in, p[<<"factor", i>>], i + 1, <<Number(Literals[s[i]])>>)
<1>1. Len(s) \in Nat /\ i \in 1..(Len(s) + 1) /\ i \in Nat /\ i + 1 \in Nat /\ Tok(s, i) = s[i]
  BY DEF Tables, Tok
<1>2. PICK t : t = p[<<"factor", i>>]
  OBVIOUS
<1>3. t = Factor(s, p, i)
  BY <1>1, <1>2, TheRules
<1>4. PICK n \in Int : n = Literals[s[i]]
  BY SandboxAssumption
<1>5. PICK c \in Seq(Instrs) : c = <<Instr("const", n)>> /\ Turns(c, in, <<>>, <<Number(n)>>)
  BY ConstTurns
<1>6. t = Parsed(i + 1, c)
  BY <1>1, <1>3, <1>4, <1>5, NumberFactor
<1>7. t.ok /\ t.at = i + 1 /\ t.code = c
  BY <1>1, <1>6, ParsedIs
<1> QED BY <1>2, <1>4, <1>5, <1>7 DEF Ends

LEMMA ReadName ==
  ASSUME NEW s, NEW in, NEW p, NEW r, Tables(s, in, p, r), NEW i \in 1..Len(s),
         NEW k \in DOMAIN Names, Names[k] = s[i], Tok(s, i + 1) # "("
  PROVE  Ends(in, p[<<"factor", i>>], i + 1, <<Number(in[k])>>)
<1>1. Len(s) \in Nat /\ i \in 1..(Len(s) + 1) /\ i \in Nat /\ i + 1 \in Nat /\ Tok(s, i) = s[i]
  BY DEF Tables, Tok
<1>2. DOMAIN Names = 1..Params /\ Len(Names) = Params /\ in \in Vectors
  BY SandboxAssumption, LenProperties DEF Tables
<1>3. Contains(Names, s[i])
  BY <1>2 DEF Contains
<1>4. PICK t : t = p[<<"factor", i>>]
  OBVIOUS
<1>5. t = Identifier(s, p, i)
  <2>1. t = Factor(s, p, i)
    BY <1>1, <1>4, TheRules
  <2> QED BY <1>1, <1>3, <2>1, WordFactor
<1>6. PICK n \in 1..Params : n = (CHOOSE l \in DOMAIN Names : Names[l] = s[i]) /\ Names[n] = s[i]
  BY <1>3, NameInstr
<1>7. n = k
  BY <1>2, <1>6, SandboxAssumption
<1>8. PICK c \in Seq(Instrs) : c = <<Instr("load", n)>> /\ Turns(c, in, <<>>, <<Number(in[n])>>)
  BY <1>2, LoadTurns
<1>9. t = Parsed(i + 1, c)
  BY <1>3, <1>5, <1>6, <1>8 DEF Identifier
<1>10. t.ok /\ t.at = i + 1 /\ t.code = c
  BY <1>1, <1>9, ParsedIs
<1> QED BY <1>4, <1>7, <1>8, <1>10 DEF Ends

LEMMA ReadNegated ==
  ASSUME NEW s, NEW in, NEW p, NEW r, Tables(s, in, p, r), NEW i \in 1..Len(s), NEW at \in Nat,
         s[i] = "-", NEW b \in Val, Ends(in, p[<<"factor", i + 1>>], at, <<b>>)
  PROVE  Ends(in, p[<<"factor", i>>], at, <<Apply("neg", <<b>>)>>)
<1>1. /\ Len(s) \in Nat /\ i \in 1..(Len(s) + 1) /\ i \in Nat /\ i + 1 \in 1..(Len(s) + 1)
      /\ Tok(s, i) = s[i]
  BY DEF Tables, Tok
<1>2. PICK t : t = p[<<"factor", i>>]
  OBVIOUS
<1>3. PICK f : f = p[<<"factor", i + 1>>]
  OBVIOUS
<1>4. t = Emit(f, Instr("neg", 0))
  <2>1. t = Factor(s, p, i)
    BY <1>1, <1>2, TheRules
  <2> QED BY <1>1, <1>3, <2>1, MinusFactor
<1>5. f.ok /\ f.at = at /\ Turns(f.code, in, <<>>, <<b>>)
  BY <1>3 DEF Ends
<1>6. f \in Parses /\ f.code \in Seq(Instrs)
  <2>1. "factor" \in Rules
    BY DEF Rules
  <2> QED BY <1>1, <1>3, <2>1, TheParse
<1>7. PICK ins \in Instrs : ins = Instr("neg", 0)
  BY OpInstr, OperandsOfOps
<1>8. t.ok = f.ok /\ t.at = f.at /\ t.code = Append(f.code, ins)
  BY <1>4, <1>5, <1>6, <1>7, EmitIs
<1>9. Turns(Append(f.code, ins), in, <<>>, <<Apply("neg", <<b>>)>>)
  BY <1>5, <1>6, <1>7, NegTurns
<1> QED BY <1>2, <1>5, <1>8, <1>9 DEF Ends

LEMMA ReadClosed ==
  ASSUME NEW s, NEW in, NEW p, NEW r, Tables(s, in, p, r), NEW i \in 1..Len(s), NEW j \in 1..Len(s),
         s[i] = "(", s[j] = ")", NEW v, Ends(in, p[<<"expr", i + 1>>], j, <<v>>)
  PROVE  Ends(in, p[<<"factor", i>>], j + 1, <<v>>)
<1>1. /\ Len(s) \in Nat /\ i \in 1..(Len(s) + 1) /\ i \in Nat /\ i + 1 \in 1..(Len(s) + 1)
      /\ Tok(s, i) = s[i] /\ Tok(s, j) = s[j]
  BY DEF Tables, Tok
<1>2. PICK t : t = p[<<"factor", i>>]
  OBVIOUS
<1>3. PICK e : e = p[<<"expr", i + 1>>]
  OBVIOUS
<1>4. t = Expect(s, e, ")")
  <2>1. t = Factor(s, p, i)
    BY <1>1, <1>2, TheRules
  <2> QED BY <1>1, <1>3, <2>1, ParenFactor
<1>5. e.ok /\ e.at = j /\ Turns(e.code, in, <<>>, <<v>>)
  BY <1>3 DEF Ends
<1>6. e \in Parses
  <2>1. "expr" \in Rules
    BY DEF Rules
  <2> QED BY <1>1, <1>3, <2>1, TheParse
<1>7. t.ok /\ t.at = e.at + 1 /\ t.code = e.code
  BY <1>1, <1>4, <1>5, <1>6, ExpectIs
<1> QED BY <1>2, <1>5, <1>7 DEF Ends

LEMMA ReadCall ==
  ASSUME NEW s, NEW in, NEW p, NEW r, Tables(s, in, p, r), NEW i \in 1..Len(s), NEW j \in 1..Len(s),
         i + 1 < j, s[i] \in DOMAIN Arity, s[i + 1] = "(", s[j] = ")", NEW l \in Seq(Val),
         Len(l) = Arity[s[i]], Ends(in, p[<<"args", i + 2>>], j, l), p[<<"args", i + 2>>].argc = Len(l)
  PROVE  Ends(in, p[<<"factor", i>>], j + 1, <<Apply(s[i], l)>>)
<1>1. /\ Len(s) \in Nat /\ i \in 1..(Len(s) + 1) /\ i \in Nat /\ i + 2 \in 1..(Len(s) + 1)
      /\ Tok(s, i) = s[i] /\ Tok(s, j) = s[j] /\ Tok(s, i + 1) = "(" /\ j + 1 \in Nat
  BY DEF Tables, Tok
<1>2. PICK t : t = p[<<"factor", i>>]
  OBVIOUS
<1>3. PICK a : a = p[<<"args", i + 2>>]
  OBVIOUS
<1>4. PICK e : e = Expect(s, a, ")")
  OBVIOUS
<1>5. PICK name \in DOMAIN Arity : name = s[i]
  OBVIOUS
<1>6. t = IF ~e.ok THEN e
          ELSE IF s[i] \in DOMAIN Arity /\ Arity[s[i]] = a.argc
          THEN Parsed(e.at, Append(e.code, Instr(s[i], 0)))
          ELSE Fail(a.at)
  <2>1. t = Factor(s, p, i)
    BY <1>1, <1>2, TheRules
  <2>2. t = Identifier(s, p, i)
    BY <1>1, <2>1, WordFactor
  <2> QED BY <1>1, <1>3, <1>4, <2>2 DEF Identifier, Call
<1>7. a.ok /\ a.at = j /\ Turns(a.code, in, <<>>, l) /\ a.argc = Len(l)
  BY <1>3 DEF Ends
<1>8. a \in Parses /\ a.code \in Seq(Instrs)
  <2>1. "args" \in Rules
    BY DEF Rules
  <2> QED BY <1>1, <1>3, <2>1, TheParse
<1>9. e.ok /\ e.at = j + 1 /\ e.code = a.code
  BY <1>1, <1>4, <1>7, <1>8, ExpectIs
<1>10. PICK ins \in Instrs : ins = Instr(name, 0)
  <2>1. name \in OpNames
    BY DEF OpNames
  <2> QED BY <2>1, OpInstr
<1>11. PICK c \in Seq(Instrs) : c = Append(a.code, ins)
  <2>1. Append(a.code, ins) \in Seq(Instrs)
    BY <1>8, AppendProperties
  <2> QED BY <2>1
<1>12. t = Parsed(j + 1, c)
  BY <1>5, <1>6, <1>7, <1>9, <1>10, <1>11
<1>13. t.ok /\ t.at = j + 1 /\ t.code = c
  BY <1>1, <1>12, ParsedIs
<1>14. Turns(c, in, <<>>, <<Apply(name, l)>>)
  BY <1>5, <1>7, <1>8, <1>10, <1>11, NamedTurns
<1> QED BY <1>2, <1>5, <1>13, <1>14 DEF Ends

(* If its parts are read, a factor is,                                     *)
LEMMA FactorIsRead ==
  ASSUME NEW s, NEW in, NEW p, NEW r, Tables(s, in, p, r), NEW i \in 1..(Len(s) + 1),
         NEW j \in 0..Len(s), SimplerReads(s, in, p, r, "factor", i, j)
  PROVE  FactorReads(s, in, p, r, i, j)
<1> SUFFICES ASSUME NEW v \in r[<<"factor", i, j>>], Tok(s, j + 1) # "("
             PROVE  Ends(in, p[<<"factor", i>>], j + 1, <<v>>)
  BY DEF FactorReads
<1>1. PICK n \in Nat : n = Len(s)
  BY DEF Tables
<1>2. i \in 1..(n + 1) /\ j \in 0..n /\ i \in Int /\ j \in Int /\ in \in Vectors /\ j + 1 \in Nat
  BY <1>1 DEF Tables
<1>3. r[<<"factor", i, j>>] = FactorOf(s, in, r, i, j)
  BY TheFactorOf
<1>4. v \in FactorOf(s, in, r, i, j)
  BY <1>3
<1>5. CASE i = j /\ FactorOf(s, in, r, i, j) = Atom(s[i], in)
  <2>1. i \in 1..Len(s)
    BY <1>1, <1>2, <1>5
  <2>2. v \in Atom(s[i], in)
    BY <1>4, <1>5
  <2>3. CASE s[i] \in DOMAIN Literals /\ v = Number(Literals[s[i]])
    BY <1>5, <2>1, <2>3, ReadNumber
  <2>4. CASE \E k \in DOMAIN Names : Names[k] = s[i] /\ v = Number(in[k])
    BY <1>5, <2>1, <2>4, ReadName
  <2> QED BY <1>2, <2>2, <2>3, <2>4, InAtom
<1>6. CASE i < j /\ s[i] = "-" /\ FactorOf(s, in, r, i, j) = Negated(r[<<"factor", i + 1, j>>])
  <2>1. i \in 1..Len(s) /\ i + 1 \in 1..(Len(s) + 1) /\ j - (i + 1) < j - i
    BY <1>1, <1>2, <1>6
  <2>2. PICK b \in r[<<"factor", i + 1, j>>] : v = Apply("neg", <<b>>)
    BY <1>4, <1>6 DEF Negated
  <2>3. b \in Val
    <3>1. r[<<"factor", i + 1, j>>] \subseteq Val
      BY <2>1, TheReadings
    <3> QED BY <2>2, <3>1
  <2>4. FactorReads(s, in, p, r, i + 1, j)
    <3>1. "factor" \in Kinds /\ Simpler("factor", i + 1, j, "factor", i, j)
      BY <2>1 DEF Kinds, Simpler
    <3>2. Reads(s, in, p, r, "factor", i + 1, j)
      BY <2>1, <3>1 DEF SimplerReads
    <3> QED BY <3>2 DEF Reads
  <2>5. Ends(in, p[<<"factor", i + 1>>], j + 1, <<b>>)
    BY <2>2, <2>4 DEF FactorReads
  <2> QED BY <1>2, <1>6, <2>1, <2>2, <2>3, <2>5, ReadNegated
<1>7. CASE i < j /\ s[i] = "(" /\ s[j] = ")" /\ FactorOf(s, in, r, i, j) = r[<<"sum", i + 1, j - 1>>]
  <2>1. i \in 1..Len(s) /\ j \in 1..Len(s) /\ i + 1 \in 1..(Len(s) + 1) /\ j - 1 \in 0..Len(s)
        /\ (j - 1) - (i + 1) < j - i /\ (j - 1) + 1 = j
    BY <1>1, <1>2, <1>7
  <2>2. SumReads(s, in, p, r, i + 1, j - 1)
    <3>1. "sum" \in Kinds /\ Simpler("sum", i + 1, j - 1, "factor", i, j)
      BY <2>1 DEF Kinds, Simpler
    <3>2. Reads(s, in, p, r, "sum", i + 1, j - 1)
      BY <2>1, <3>1 DEF SimplerReads
    <3> QED BY <3>2 DEF Reads
  <2>3. Tok(s, (j - 1) + 1) = ")"
    <3>1. Tok(s, j) = ")"
      BY <1>7, <2>1 DEF Tok
    <3> QED BY <2>1, <3>1
  <2>4. Ends(in, p[<<"expr", i + 1>>], (j - 1) + 1, <<v>>)
    BY <1>4, <1>7, <2>1, <2>2, <2>3, ExprEnds
  <2> QED BY <1>7, <2>1, <2>4, ReadClosed
<1>8. CASE /\ i + 1 < j /\ s[i] \in DOMAIN Arity /\ s[i + 1] = "(" /\ s[j] = ")"
           /\ FactorOf(s, in, r, i, j) = Called(s[i], r[<<"list", i + 2, j - 1>>])
  <2>1. i \in 1..Len(s) /\ j \in 1..Len(s) /\ i + 2 \in 1..(Len(s) + 1) /\ j - 1 \in 0..Len(s)
        /\ (j - 1) - (i + 2) < j - i /\ (j - 1) + 1 = j
    BY <1>1, <1>2, <1>8
  <2>2. PICK l \in r[<<"list", i + 2, j - 1>>] : Len(l) = Arity[s[i]] /\ v = Apply(s[i], l)
    BY <1>4, <1>8 DEF Called
  <2>3. l \in Seq(Val)
    <3>1. r[<<"list", i + 2, j - 1>>] \subseteq Seq(Val)
      BY <2>1, TheReadings
    <3> QED BY <2>2, <3>1
  <2>4. ListReads(s, in, p, r, i + 2, j - 1)
    <3>1. "list" \in Kinds /\ Simpler("list", i + 2, j - 1, "factor", i, j)
      BY <2>1 DEF Kinds, Simpler
    <3>2. Reads(s, in, p, r, "list", i + 2, j - 1)
      BY <2>1, <3>1 DEF SimplerReads
    <3> QED BY <3>2 DEF Reads
  <2>5. Tok(s, (j - 1) + 1) = ")"
    BY <1>8, <2>1 DEF Tok
  <2>6. Ends(in, p[<<"args", i + 2>>], j, l) /\ p[<<"args", i + 2>>].argc = Len(l)
    BY <2>1, <2>2, <2>4, <2>5 DEF ListReads
  <2> QED BY <1>8, <2>1, <2>2, <2>3, <2>6, ReadCall
<1>9. CASE FactorOf(s, in, r, i, j) = {}
  BY <1>4, <1>9
<1> QED
  <2>1. \/ FactorOf(s, in, r, i, j) = {}
        \/ /\ i = j
           /\ FactorOf(s, in, r, i, j) = Atom(s[i], in)
        \/ /\ i < j /\ s[i] = "-"
           /\ FactorOf(s, in, r, i, j) = Negated(r[<<"factor", i + 1, j>>])
        \/ /\ i < j /\ s[i] = "(" /\ s[j] = ")"
           /\ FactorOf(s, in, r, i, j) = r[<<"sum", i + 1, j - 1>>]
        \/ /\ i + 1 < j /\ s[i] \in DOMAIN Arity /\ s[i + 1] = "(" /\ s[j] = ")"
           /\ FactorOf(s, in, r, i, j) = Called(s[i], r[<<"list", i + 2, j - 1>>])
    <3>1. PICK e : e = FactorOf(s, in, r, i, j)
      OBVIOUS
    <3>2. \/ e = {}
          \/ i = j /\ e = Atom(s[i], in)
          \/ i < j /\ s[i] = "-" /\ e = Negated(r[<<"factor", i + 1, j>>])
          \/ i < j /\ s[i] = "(" /\ s[j] = ")" /\ e = r[<<"sum", i + 1, j - 1>>]
          \/ /\ i + 1 < j /\ s[i] \in DOMAIN Arity /\ s[i + 1] = "(" /\ s[j] = ")"
             /\ e = Called(s[i], r[<<"list", i + 2, j - 1>>])
      BY <3>1 DEF FactorOf
    <3> QED BY <3>1, <3>2
  <2> QED BY <2>1, <1>5, <1>6, <1>7, <1>8, <1>9

(* An operator between two operands that are read.                         *)
LEMMA ReadSymbol ==
  ASSUME NEW in, NEW op \in Symbols, NEW a \in Val, NEW b \in Val, NEW t, NEW f \in Parses, NEW q \in Parses,
         NEW k \in Nat, NEW at \in Nat, GoesOn(in, t, k, Joined(Emit(f, Instr(op, 0)), q), a),
         Ends(in, f, at, <<b>>)
  PROVE  GoesOn(in, t, at, q, Apply(op, <<a, b>>))
<1>1. PICK c \in Seq(Instrs) :
        /\ Turns(c, in, <<>>, <<a>>)
        /\ t = Joined(Parsed(k, c), Joined(Emit(f, Instr(op, 0)), q))
  BY DEF GoesOn
<1>2. PICK ins \in Instrs : ins = Instr(op, 0)
  BY OpInstr DEF OpNames
<1>3. f.ok /\ f.at = at /\ Turns(f.code, in, <<>>, <<b>>) /\ f.code \in Seq(Instrs)
  BY ParseFields DEF Ends
<1>4. PICK e \in Parses : e = Emit(f, ins) /\ e.ok /\ e.code = Append(f.code, ins)
  <2>1. Emit(f, ins) \in Parses /\ Emit(f, ins).ok = f.ok /\ Emit(f, ins).code = Append(f.code, ins)
    BY <1>3, EmitIs
  <2> QED BY <1>3, <2>1
<1>5. PICK d \in Seq(Instrs) : d = e.code
  BY ParseFields
<1>6. Turns(d, in, <<a>>, <<Apply(op, <<a, b>>)>>)
  BY <1>2, <1>3, <1>4, <1>5, SymbolTurns
<1>7. Turns(c \o d, in, <<>>, <<Apply(op, <<a, b>>)>>) /\ c \o d \in Seq(Instrs)
  BY <1>1, <1>6, ThenTurns, ConcatProperties
<1>8. PICK x \in Parses : x = Parsed(k, c) /\ x.ok /\ x.code = c
  BY ParsedIs
<1>9. PICK g \in Seq(Instrs) : g = c \o d
  BY <1>7
<1>10. PICK y \in Parses : y = Parsed(at, g) /\ y.ok /\ y.code = g
  BY ParsedIs
<1>11. Chained(x, e, y)
  BY <1>4, <1>5, <1>8, <1>9, <1>10 DEF Chained
<1>12. Joined(x, Joined(e, q)) = Joined(y, q)
  BY <1>11, JoinedTwice
<1> QED BY <1>1, <1>2, <1>4, <1>7, <1>8, <1>9, <1>10, <1>12 DEF GoesOn

(* and a product, by its last operator,                                    *)
LEMMA ProductIsRead ==
  ASSUME NEW s, NEW in, NEW p, NEW r, Tables(s, in, p, r), NEW i \in 1..(Len(s) + 1),
         NEW j \in 0..Len(s), SimplerReads(s, in, p, r, "product", i, j)
  PROVE  ProductReads(s, in, p, r, i, j)
<1> SUFFICES ASSUME NEW v \in r[<<"product", i, j>>], Tok(s, j + 1) # "("
             PROVE  GoesOn(in, p[<<"term", i>>], j + 1, p[<<"product", j + 1>>], v)
  BY DEF ProductReads
<1>1. PICK n \in Nat : n = Len(s)
  BY DEF Tables
<1>2. i \in 1..(n + 1) /\ j \in 0..n /\ i \in Int /\ j \in Int /\ j + 1 \in 1..(n + 1) /\ j + 1 \in Nat
  BY <1>1
<1>3. r[<<"product", i, j>>] = ProductOf(s, r, i, j)
  BY TheProductOf
<1>4. PICK q \in Parses : q = p[<<"product", j + 1>>]
  <2>1. "product" \in Rules
    BY DEF Rules
  <2> QED BY <1>1, <1>2, <2>1, TheParse
<1>5. PICK t : t = p[<<"term", i>>]
  OBVIOUS
<1>6. t = Joined(p[<<"factor", i>>], p[<<"product", p[<<"factor", i>>].at>>])
  <2>1. p[<<"term", i>>] = Term(s, p, i)
    BY TheRules
  <2> QED BY <1>5, <2>1 DEF Term
<1>7. ASSUME NEW h \in 1..(Len(s) + 1), j - h < j - i \/ h = i
      PROVE  FactorReads(s, in, p, r, h, j)
  <2>1. "factor" \in Kinds /\ Simpler("factor", h, j, "product", i, j)
    BY <1>7 DEF Kinds, Simpler, Level
  <2>2. Reads(s, in, p, r, "factor", h, j)
    BY <2>1 DEF SimplerReads
  <2> QED BY <2>2 DEF Reads
<1>8. ASSUME NEW h \in 1..(Len(s) + 1), NEW b \in r[<<"factor", h, j>>], FactorReads(s, in, p, r, h, j)
      PROVE  p[<<"factor", h>>] \in Parses /\ Ends(in, p[<<"factor", h>>], j + 1, <<b>>)
  <2>1. "factor" \in Rules
    BY DEF Rules
  <2> QED BY <1>8, <2>1, TheParse DEF FactorReads
<1>9. CASE v \in r[<<"factor", i, j>>]
  <2>1. PICK f \in Parses : f = p[<<"factor", i>>] /\ Ends(in, f, j + 1, <<v>>)
    BY <1>7, <1>8, <1>9
  <2>2. f.ok /\ f.at = j + 1 /\ Turns(f.code, in, <<>>, <<v>>) /\ f.code \in Seq(Instrs)
    BY <2>1, ParseFields DEF Ends
  <2>3. t = Joined(f, q)
    BY <1>4, <1>6, <2>1, <2>2
  <2>4. t = Joined(Parsed(j + 1, f.code), q)
    BY <2>2, <2>3, JoinedSame
  <2> QED BY <1>4, <1>5, <2>2, <2>4 DEF GoesOn
<1>10. CASE v \notin r[<<"factor", i, j>>]
  <2>1. PICK k \in (i + 1)..(j - 1) :
          /\ s[k] \in {"*", "/"}
          /\ Combines(v, s[k], r[<<"product", i, k - 1>>], r[<<"factor", k + 1, j>>])
    <3>1. v \in ProductOf(s, r, i, j) /\ i \in Int /\ j \in Int
      BY <1>2, <1>3
    <3> QED BY <1>10, <3>1, ProductMadeOf
  <2>2. PICK a \in r[<<"product", i, k - 1>>], b \in r[<<"factor", k + 1, j>>] : v = Apply(s[k], <<a, b>>)
    BY <2>1 DEF Combines
  <2>3. /\ k \in 1..(n + 1) /\ k <= n /\ k + 1 \in 1..(n + 1) /\ k - 1 \in 0..n /\ (k - 1) + 1 = k
        /\ (k - 1) - i < j - i /\ j - (k + 1) < j - i /\ k \in Nat
    BY <1>1, <1>2, <2>1
  <2>4. PICK op \in Symbols : op = s[k]
    BY <2>1 DEF Symbols
  <2>5. Tok(s, k) = s[k] /\ s[k] # "("
    BY <1>1, <2>1, <2>3 DEF Tok
  <2>6. a \in Val /\ b \in Val
    <3>1. r[<<"product", i, k - 1>>] \subseteq Val
      BY <1>1, <2>3, TheReadings
    <3>2. r[<<"factor", k + 1, j>>] \subseteq Val
      BY <1>1, <2>3, TheReadings
    <3> QED BY <2>2, <3>1, <3>2
  <2>7. ProductReads(s, in, p, r, i, k - 1)
    <3>1. "product" \in Kinds /\ Simpler("product", i, k - 1, "product", i, j)
      BY <2>3 DEF Kinds, Simpler
    <3>2. Reads(s, in, p, r, "product", i, k - 1)
      BY <1>1, <2>3, <3>1 DEF SimplerReads
    <3> QED BY <3>2 DEF Reads
  <2>8. GoesOn(in, t, k, p[<<"product", k>>], a)
    BY <1>5, <2>2, <2>3, <2>5, <2>7 DEF ProductReads
  <2>9. PICK f \in Parses : f = p[<<"factor", k + 1>>] /\ Ends(in, f, j + 1, <<b>>)
    BY <1>1, <1>7, <1>8, <2>2, <2>3
  <2>10. p[<<"product", k>>] = Joined(Emit(f, Instr(op, 0)), q)
    <3>1. p[<<"product", k>>] = Product(s, p, k)
      BY <1>1, <2>3, TheRules
    <3>2. f.at = j + 1
      BY <2>9 DEF Ends
    <3>3. Tok(s, k) \in {"*", "/"} /\ Tok(s, k) = op
      BY <2>1, <2>4, <2>5
    <3> QED BY <1>4, <2>9, <3>1, <3>2, <3>3 DEF Product
  <2>11. GoesOn(in, t, j + 1, q, Apply(op, <<a, b>>))
    BY <1>2, <2>3, <2>6, <2>8, <2>9, <2>10, ReadSymbol
  <2> QED BY <1>4, <1>5, <2>2, <2>4, <2>11
<1> QED BY <1>9, <1>10

(* and a sum, by its last operator,                                        *)
LEMMA SumIsRead ==
  ASSUME NEW s, NEW in, NEW p, NEW r, Tables(s, in, p, r), NEW i \in 1..(Len(s) + 1),
         NEW j \in 0..Len(s), SimplerReads(s, in, p, r, "sum", i, j)
  PROVE  SumReads(s, in, p, r, i, j)
<1>1. r[<<"sum", i, j>>] = SumOf(s, r, i, j)
  BY TheSumOf
<1> SUFFICES ASSUME NEW v \in r[<<"sum", i, j>>], Tok(s, j + 1) \notin {"(", "*", "/"}
             PROVE  GoesOn(in, p[<<"expr", i>>], j + 1, p[<<"sum", j + 1>>], v)
  BY DEF SumReads
<1>2. PICK n \in Nat : n = Len(s)
  BY DEF Tables
<1>3. i \in 1..(n + 1) /\ j \in 0..n /\ i \in Int /\ j \in Int /\ j + 1 \in 1..(n + 1) /\ j + 1 \in Nat
  BY <1>2
<1>4. PICK q \in Parses : q = p[<<"sum", j + 1>>]
  <2>1. "sum" \in Rules
    BY DEF Rules
  <2> QED BY <1>2, <1>3, <2>1, TheParse
<1>5. PICK t : t = p[<<"expr", i>>]
  OBVIOUS
<1>6. t = Joined(p[<<"term", i>>], p[<<"sum", p[<<"term", i>>].at>>])
  <2>1. p[<<"expr", i>>] = Expr(s, p, i)
    BY TheRules
  <2> QED BY <1>5, <2>1 DEF Expr
<1>7. ASSUME NEW h \in 1..(Len(s) + 1), j - h < j - i \/ h = i
      PROVE  ProductReads(s, in, p, r, h, j)
  <2>1. "product" \in Kinds /\ Simpler("product", h, j, "sum", i, j)
    BY <1>7 DEF Kinds, Simpler, Level
  <2>2. Reads(s, in, p, r, "product", h, j)
    BY <2>1 DEF SimplerReads
  <2> QED BY <2>2 DEF Reads
<1>8. ASSUME NEW h \in 1..(Len(s) + 1), NEW b \in r[<<"product", h, j>>], ProductReads(s, in, p, r, h, j)
      PROVE  p[<<"term", h>>] \in Parses /\ Ends(in, p[<<"term", h>>], j + 1, <<b>>)
  <2>1. "term" \in Rules
    BY DEF Rules
  <2>2. p[<<"term", h>>] \in Parses
    BY <2>1, TheParse
  <2> QED BY <1>8, <2>2, TermEnds
<1>9. CASE v \in r[<<"product", i, j>>]
  <2>1. PICK f \in Parses : f = p[<<"term", i>>] /\ Ends(in, f, j + 1, <<v>>)
    BY <1>7, <1>8, <1>9
  <2>2. f.ok /\ f.at = j + 1 /\ Turns(f.code, in, <<>>, <<v>>) /\ f.code \in Seq(Instrs)
    BY <2>1, ParseFields DEF Ends
  <2>3. t = Joined(f, q)
    BY <1>4, <1>6, <2>1, <2>2
  <2>4. t = Joined(Parsed(j + 1, f.code), q)
    BY <2>2, <2>3, JoinedSame
  <2> QED BY <1>4, <1>5, <2>2, <2>4 DEF GoesOn
<1>10. CASE v \notin r[<<"product", i, j>>]
  <2>1. PICK k \in (i + 1)..(j - 1) :
          /\ s[k] \in {"+", "-"}
          /\ Combines(v, s[k], r[<<"sum", i, k - 1>>], r[<<"product", k + 1, j>>])
    <3>1. v \in SumOf(s, r, i, j) /\ i \in Int /\ j \in Int
      BY <1>1, <1>3
    <3> QED BY <1>10, <3>1, SumMadeOf
  <2>2. PICK a \in r[<<"sum", i, k - 1>>], b \in r[<<"product", k + 1, j>>] : v = Apply(s[k], <<a, b>>)
    BY <2>1 DEF Combines
  <2>3. /\ k \in 1..(n + 1) /\ k <= n /\ k + 1 \in 1..(n + 1) /\ k - 1 \in 0..n /\ (k - 1) + 1 = k
        /\ (k - 1) - i < j - i /\ j - (k + 1) < j - i /\ k \in Nat
    BY <1>2, <1>3, <2>1
  <2>4. PICK op \in Symbols : op = s[k]
    BY <2>1 DEF Symbols
  <2>5. Tok(s, k) = s[k] /\ s[k] \notin {"(", "*", "/"}
    BY <1>2, <2>1, <2>3 DEF Tok
  <2>6. a \in Val /\ b \in Val
    <3>1. r[<<"sum", i, k - 1>>] \subseteq Val
      BY <1>2, <2>3, TheReadings
    <3>2. r[<<"product", k + 1, j>>] \subseteq Val
      BY <1>2, <2>3, TheReadings
    <3> QED BY <2>2, <3>1, <3>2
  <2>7. SumReads(s, in, p, r, i, k - 1)
    <3>1. "sum" \in Kinds /\ Simpler("sum", i, k - 1, "sum", i, j)
      BY <2>3 DEF Kinds, Simpler
    <3>2. Reads(s, in, p, r, "sum", i, k - 1)
      BY <1>2, <2>3, <3>1 DEF SimplerReads
    <3> QED BY <3>2 DEF Reads
  <2>8. GoesOn(in, t, k, p[<<"sum", k>>], a)
    BY <1>5, <2>2, <2>3, <2>5, <2>7 DEF SumReads
  <2>9. PICK f \in Parses : f = p[<<"term", k + 1>>] /\ Ends(in, f, j + 1, <<b>>)
    BY <1>2, <1>7, <1>8, <2>2, <2>3
  <2>10. p[<<"sum", k>>] = Joined(Emit(f, Instr(op, 0)), q)
    <3>1. p[<<"sum", k>>] = Sum(s, p, k)
      <4>1. k \in 1..(Len(s) + 1)
        BY <1>2, <2>3
      <4> QED BY <4>1, TheSumRule
    <3>2. f.at = j + 1
      BY <2>9 DEF Ends
    <3>3. Tok(s, k) \in {"+", "-"} /\ Tok(s, k) = op
      BY <2>1, <2>4, <2>5
    <3> QED BY <1>4, <2>9, <3>1, <3>2, <3>3 DEF Sum
  <2>11. GoesOn(in, t, j + 1, q, Apply(op, <<a, b>>))
    BY <1>3, <2>3, <2>6, <2>8, <2>9, <2>10, ReadSymbol
  <2> QED BY <1>4, <1>5, <2>2, <2>4, <2>11
<1> QED BY <1>9, <1>10

(* A comma is no other mark.                                               *)
LEMMA CommaIsNoMark == Comma \notin {"(", ")", "*", "/", "+", "-", "end"}
BY DEF Comma

(* and a list, by its first comma.                                         *)
LEMMA ListIsRead ==
  ASSUME NEW s, NEW in, NEW p, NEW r, Tables(s, in, p, r), NEW i \in 1..(Len(s) + 1),
         NEW j \in 0..Len(s), SimplerReads(s, in, p, r, "list", i, j)
  PROVE  ListReads(s, in, p, r, i, j)
<1> SUFFICES ASSUME NEW l \in r[<<"list", i, j>>], Tok(s, j + 1) = ")"
             PROVE  Ends(in, p[<<"args", i>>], j + 1, l) /\ p[<<"args", i>>].argc = Len(l)
  BY DEF ListReads
<1>1. PICK n \in Nat : n = Len(s)
  BY DEF Tables
<1>2. i \in 1..(n + 1) /\ j \in 0..n /\ i \in Int /\ j \in Int /\ j + 1 \in 1..(n + 1) /\ j + 1 \in Nat
  BY <1>1
<1>3. r[<<"list", i, j>>] = ListOf(s, r, i, j)
  BY TheListOf
<1>4. PICK t : t = p[<<"args", i>>]
  OBVIOUS
<1>5. PICK e \in Parses : e = p[<<"expr", i>>]
  <2>1. "expr" \in Rules
    BY DEF Rules
  <2> QED BY <2>1, TheParse
<1>6. t = Args(s, p, i)
  BY <1>4, TheRules
<1>7. CASE l \in Single(r[<<"sum", i, j>>])
  <2>1. PICK v \in r[<<"sum", i, j>>] : l = <<v>>
    BY <1>7 DEF Single
  <2>2. SumReads(s, in, p, r, i, j)
    <3>1. "sum" \in Kinds /\ Simpler("sum", i, j, "list", i, j)
      BY <1>2 DEF Kinds, Simpler, Level
    <3>2. Reads(s, in, p, r, "sum", i, j)
      BY <3>1 DEF SimplerReads
    <3> QED BY <3>2 DEF Reads
  <2>3. Ends(in, e, j + 1, <<v>>)
    BY <1>5, <2>2, ExprEnds
  <2>4. e.ok /\ e.at = j + 1 /\ Turns(e.code, in, <<>>, <<v>>)
    BY <2>3 DEF Ends
  <2>5. Tok(s, e.at) # Comma
    BY <2>4, CommaIsNoMark
  <2>6. PICK one \in Nat : one = 1
    OBVIOUS
  <2>7. t = [e EXCEPT !.argc = one]
    BY <1>5, <1>6, <2>5, <2>6 DEF Args
  <2>8. t.ok = e.ok /\ t.at = e.at /\ t.code = e.code /\ t.argc = 1
    BY <2>6, <2>7, ArgcSet
  <2>9. Len(l) = 1
    BY <2>1
  <2> QED BY <1>4, <2>1, <2>4, <2>8, <2>9 DEF Ends
<1>8. CASE l \notin Single(r[<<"sum", i, j>>])
  <2>1. PICK k \in i..j :
          s[k] \in {Comma} /\ l \in Listed(r[<<"sum", i, k - 1>>], r[<<"list", k + 1, j>>])
    <3>1. l \in ListOf(s, r, i, j) /\ i \in Int /\ j \in Int
      BY <1>2, <1>3
    <3> QED BY <1>8, <3>1, ListFrom
  <2>2. PICK a \in r[<<"sum", i, k - 1>>], more \in r[<<"list", k + 1, j>>] : l = Cons(a, more)
    BY <2>1, InListed
  <2>3. /\ k \in 1..(n + 1) /\ k <= n /\ k + 1 \in 1..(n + 1) /\ k - 1 \in 0..n /\ (k - 1) + 1 = k
        /\ (k - 1) - i < j - i /\ j - (k + 1) < j - i /\ k \in Nat
    BY <1>1, <1>2, <2>1
  <2>4. Tok(s, k) = Comma
    BY <1>1, <2>1, <2>3 DEF Tok
  <2>5. a \in Val /\ more \in Seq(Val)
    <3>1. r[<<"sum", i, k - 1>>] \subseteq Val
      BY <1>1, <2>3, TheReadings
    <3>2. r[<<"list", k + 1, j>>] \subseteq Seq(Val)
      BY <1>1, <2>3, TheReadings
    <3> QED BY <2>2, <3>1, <3>2
  <2>6. Ends(in, e, k, <<a>>)
    <3>1. "sum" \in Kinds /\ Simpler("sum", i, k - 1, "list", i, j)
      BY <2>3 DEF Kinds, Simpler
    <3>2. Reads(s, in, p, r, "sum", i, k - 1)
      BY <1>1, <2>3, <3>1 DEF SimplerReads
    <3>3. SumReads(s, in, p, r, i, k - 1)
      BY <3>2 DEF Reads
    <3>4. Tok(s, (k - 1) + 1) \notin {"(", "*", "/", "+", "-"}
      BY <2>3, <2>4, CommaIsNoMark
    <3>5. k - 1 \in 0..Len(s)
      BY <1>1, <2>3
    <3>6. Ends(in, p[<<"expr", i>>], (k - 1) + 1, <<a>>)
      BY <2>2, <3>3, <3>4, <3>5, ExprEnds
    <3> QED BY <1>5, <2>3, <3>6
  <2>7. PICK m \in Parses : m = p[<<"args", k + 1>>]
    <3>1. "args" \in Rules
      BY DEF Rules
    <3> QED BY <1>1, <2>3, <3>1, TheParse
  <2>8. Ends(in, m, j + 1, more) /\ m.argc = Len(more)
    <3>1. "list" \in Kinds /\ Simpler("list", k + 1, j, "list", i, j)
      BY <2>3 DEF Kinds, Simpler
    <3>2. Reads(s, in, p, r, "list", k + 1, j)
      BY <1>1, <2>3, <3>1 DEF SimplerReads
    <3>3. ListReads(s, in, p, r, k + 1, j)
      BY <3>2 DEF Reads
    <3> QED BY <2>2, <2>7, <3>3 DEF ListReads
  <2>9. e.ok /\ e.at = k /\ Turns(e.code, in, <<>>, <<a>>)
    BY <2>6 DEF Ends
  <2>10. m.ok /\ m.at = j + 1 /\ Turns(m.code, in, <<>>, more)
    BY <2>8 DEF Ends
  <2>11. PICK u \in Parses : u = Joined(e, m)
    BY JoinedIs
  <2>12. u.ok = m.ok /\ u.at = m.at /\ u.code = e.code \o m.code
    <3>1. Joined(e, m).ok = m.ok /\ Joined(e, m).at = m.at /\ Joined(e, m).code = e.code \o m.code
      BY <2>9, JoinedIs
    <3> QED BY <2>11, <3>1
  <2>13. PICK y \in Nat : y = m.argc + 1
    <3>1. PICK x \in Nat : x = m.argc
      BY ParseFields
    <3> QED BY <3>1
  <2>14. t = [u EXCEPT !.argc = y]
    BY <1>5, <1>6, <2>4, <2>7, <2>9, <2>11, <2>13 DEF Args
  <2>15. t.ok /\ t.at = j + 1 /\ t.code = e.code \o m.code /\ t.argc = Len(more) + 1
    <3>1. t.ok = u.ok /\ t.at = u.at /\ t.code = u.code /\ t.argc = y
      BY <2>14, ArgcSet
    <3> QED BY <2>8, <2>10, <2>12, <2>13, <3>1
  <2>16. PICK c \in Seq(Instrs) : c = e.code
    BY ParseFields
  <2>17. PICK d \in Seq(Instrs) : d = m.code
    BY ParseFields
  <2>18. Turns(c \o d, in, <<>>, l) /\ Len(l) = Len(more) + 1
    <3>1. Turns(c, in, <<>>, <<a>>) /\ Turns(d, in, <<>>, more)
      BY <2>9, <2>10, <2>16, <2>17
    <3>2. PICK x \in Val : x = a
      BY <2>5
    <3>3. PICK z \in Seq(Val) : z = more
      BY <2>5
    <3>4. Turns(c, in, <<>>, <<x>>) /\ Turns(d, in, <<>>, z)
      BY <3>1, <3>2, <3>3
    <3>5. PICK w : w = Cons(x, z)
      OBVIOUS
    <3>6. Turns(c \o d, in, <<>>, w)
      BY <3>4, <3>5, ListTurns
    <3>7. Len(w) = Len(z) + 1
      BY <3>5, ConsIs
    <3> QED BY <2>2, <3>2, <3>3, <3>5, <3>6, <3>7
  <2> QED BY <1>4, <2>15, <2>16, <2>17, <2>18 DEF Ends
<1> QED BY <1>7, <1>8

(* A part is read, if the parts it is made of are.                         *)
LEMMA KindIsRead ==
  ASSUME NEW s, NEW in, NEW p, NEW r, Tables(s, in, p, r), NEW k \in Kinds,
         NEW i \in 1..(Len(s) + 1), NEW j \in 0..Len(s), SimplerReads(s, in, p, r, k, i, j)
  PROVE  Reads(s, in, p, r, k, i, j)
<1>1. CASE k = "factor"
  BY <1>1, FactorIsRead DEF Reads
<1>2. CASE k = "product"
  BY <1>2, ProductIsRead DEF Reads
<1>3. CASE k = "sum"
  BY <1>3, SumIsRead DEF Reads
<1>4. CASE k = "list"
  BY <1>4, ListIsRead DEF Reads
<1> QED BY <1>1, <1>2, <1>3, <1>4 DEF Kinds

(* Completeness: whatever has a reading the parser accepts, and its code   *)
(* says each of the readings.                                              *)
LEMMA ParserReads ==
  ASSUME NEW s, NEW in, NEW p, NEW r, Tables(s, in, p, r), NEW k \in Kinds,
         NEW i \in 1..(Len(s) + 1), NEW j \in 0..Len(s)
  PROVE  Reads(s, in, p, r, k, i, j)
<1>1. Len(s) \in Nat
  BY DEF Tables
<1> DEFINE S == {n \in Nat : \A kind \in Kinds, from \in 1..(Len(s) + 1), to \in 0..Len(s) :
                   Span(s, kind, from, to) = n => Reads(s, in, p, r, kind, from, to)}
<1>2. ASSUME NEW n \in Nat, \A m \in Nat : m < n => m \in S PROVE n \in S
  <2>1. ASSUME NEW kind \in Kinds, NEW from \in 1..(Len(s) + 1), NEW to \in 0..Len(s),
               Span(s, kind, from, to) = n
        PROVE  Reads(s, in, p, r, kind, from, to)
    <3>1. ASSUME NEW l \in Kinds, NEW g \in 1..(Len(s) + 1), NEW h \in 0..Len(s),
                 Simpler(l, g, h, kind, from, to)
          PROVE  Reads(s, in, p, r, l, g, h)
      <4>1. PICK m \in Nat : m = Span(s, l, g, h)
        BY <1>1, SimplerIsShorter
      <4>2. m < n
        BY <1>1, <2>1, <3>1, <4>1, SimplerIsShorter
      <4>3. m \in S
        BY <1>2, <4>2
      <4> QED BY <4>1, <4>3
    <3>2. SimplerReads(s, in, p, r, kind, from, to)
      BY <3>1 DEF SimplerReads
    <3> QED BY <3>2, KindIsRead
  <2> QED BY <2>1
<1> HIDE DEF S
<1>3. Nat \subseteq S
  BY <1>2, StrongInduction
<1>4. PICK n \in Nat : n = Span(s, k, i, j)
  BY <1>1, SimplerIsShorter
<1> QED BY <1>3, <1>4 DEF S

(* An expression that has a reading is accepted, and its code says it.     *)
LEMMA ChannelIsRead ==
  ASSUME NEW g, Len(g) \in Nat, NEW in \in Vectors, NEW v \in Read(g, in)
  PROVE  ParseChannel(g).ok /\ Turns(ParseChannel(g).code, in, <<>>, <<v>>) /\ v \in Val
<1>1. PICK p : p = Parse(g)
  OBVIOUS
<1>2. PICK r : r = Readings(g, in)
  OBVIOUS
<1>3. Tables(g, in, p, r)
  BY <1>1, <1>2, TablesAre
<1>4. PICK n \in Nat : n = Len(g) /\ n \in 0..Len(g) /\ 1 \in 1..(Len(g) + 1)
  OBVIOUS
<1>5. v \in r[<<"sum", 1, n>>]
  BY <1>2, <1>4 DEF Read
<1>6. v \in Val
  <2>1. r[<<"sum", 1, n>>] \subseteq Val
    BY <1>3, <1>4, TheReadings
  <2> QED BY <1>5, <2>1
<1>7. SumReads(g, in, p, r, 1, n)
  <2>1. "sum" \in Kinds
    BY DEF Kinds
  <2>2. Reads(g, in, p, r, "sum", 1, n)
    BY <1>3, <1>4, <2>1, ParserReads
  <2> QED BY <2>2 DEF Reads
<1>8. Tok(g, n + 1) = "end"
  BY <1>4 DEF Tok
<1>9. PICK t : t = p[<<"expr", 1>>]
  OBVIOUS
<1>10. Ends(in, t, n + 1, <<v>>)
  BY <1>3, <1>4, <1>5, <1>7, <1>8, <1>9, ExprEnds
<1>11. t.ok /\ t.at = n + 1 /\ Turns(t.code, in, <<>>, <<v>>)
  BY <1>10 DEF Ends
<1>12. ParseChannel(g) = t
  BY <1>1, <1>4, <1>9, <1>11 DEF ParseChannel
<1> QED BY <1>6, <1>11, <1>12

(* Every instruction pushes one value at most.                             *)
LEMMA StackIsShort ==
  ASSUME NEW code \in Seq(Instrs), NEW in, NEW f, Trace(f, code, in, <<>>), NEW k \in 0..Len(code)
  PROVE  Len(f[k]) \in Nat /\ Len(f[k]) <= k
<1>1. Len(code) \in Nat /\ \A n \in 1..Len(code) : code[n] \in Instrs
  BY LenProperties, ElementOfSeq
<1> DEFINE S == {n \in Nat : n <= Len(code) => Len(f[n]) \in Nat /\ Len(f[n]) <= n}
<1>2. 0 \in S
  <2>1. f[0] = <<>> /\ Len(<<>>) = 0
    BY DEF Trace
  <2> QED BY <2>1
<1>3. ASSUME NEW n \in Nat, n \in S PROVE n + 1 \in S
  <2>1. SUFFICES ASSUME n + 1 <= Len(code) PROVE Len(f[n + 1]) \in Nat /\ Len(f[n + 1]) <= n + 1
    OBVIOUS
  <2>2. n + 1 \in 1..Len(code) /\ n + 1 \in 0..Len(code) /\ (n + 1) - 1 = n /\ n \in 0..Len(code)
    BY <2>1, <1>1
  <2>3. PICK x \in Nat : x = Len(f[n]) /\ x <= n
    BY <1>3, <2>1, <1>1
  <2>4. Fits(code[n + 1], f[n]) /\ f[n + 1] = After(code[n + 1], in, f[n]) /\ f[n] \in Seq(Val)
        /\ f[n + 1] \in Seq(Val)
    BY <2>2 DEF Trace
  <2>5. PICK ins \in Instrs : ins = code[n + 1]
    BY <1>1, <2>2
  <2>6. PICK y \in Nat : y = Len(f[n + 1])
    BY <2>4, LenProperties
  <2>7. y = IF ins.op \in {"const", "load"} THEN x + 1 ELSE x + 1 - Operands(ins.op)
    BY <2>3, <2>4, <2>5, <2>6, AfterHeight
  <2>8. ins.op \notin {"const", "load"} => Operands(ins.op) \in 1..3
    BY OperandsOfOps DEF Instrs
  <2>9. y <= n + 1
    BY <2>3, <2>7, <2>8
  <2> QED BY <2>6, <2>9
<1> HIDE DEF S
<1>4. Nat \subseteq S
  BY <1>2, <1>3, Induction
<1> QED BY <1>1, <1>4 DEF S

(* An accepted expression has one reading, which its code answers on a     *)
(* machine that is large enough.                                           *)
LEMMA ChannelAnswers ==
  ASSUME NEW g, Len(g) \in Nat, NEW in \in Vectors, ParseChannel(g).ok, NEW x \in Nat, Len(g) <= x
  PROVE  LET m == EvalChannel(ParseChannel(g).code, in, Limits(x, x))
         IN  m.status = "ok" /\ Read(g, in) = {m.stack[1]}
<1>1. PICK c \in Seq(Instrs) :
        /\ c = ParseChannel(g).code /\ Len(c) <= Len(g)
        /\ \E v \in Read(g, in) : v \in Val /\ Turns(c, in, <<>>, <<v>>)
  <2>1. /\ ParseChannel(g).code \in Seq(Instrs) /\ Len(ParseChannel(g).code) <= Len(g)
        /\ \E v \in Read(g, in) : v \in Val /\ Turns(ParseChannel(g).code, in, <<>>, <<v>>)
    BY ChannelMeans
  <2> QED BY <2>1
<1>2. PICK v \in Read(g, in) : v \in Val /\ Turns(c, in, <<>>, <<v>>)
  BY <1>1
<1>3. <<v>> \in Seq(Val)
  BY <1>2
<1>4. PICK n \in Nat : n = Len(c) /\ n <= x
  <2>1. Len(c) \in Nat
    BY LenProperties
  <2> QED BY <1>1, <2>1
<1>5. PICK f : Trace(f, c, in, <<>>) /\ f[n] = <<v>>
  BY <1>2, <1>3, <1>4, TurnsTrace
<1>6. Within(f, n, x, x)
  <2>1. ASSUME NEW j \in 1..n PROVE Len(f[j]) <= x
    <3>1. j \in 0..Len(c)
      BY <1>4
    <3>2. Len(f[j]) \in Nat /\ Len(f[j]) <= j
      BY <1>5, <3>1, StackIsShort
    <3> QED BY <1>4, <3>2
  <2> QED BY <1>4, <2>1 DEF Within
<1>7. EvalChannel(c, in, Limits(x, x)) = [status |-> "ok", ops |-> n, stack |-> <<v>>]
  <2>1. IF Within(f, n, x, x)
        THEN EvalChannel(c, in, Limits(x, x)) = [status |-> "ok", ops |-> n, stack |-> <<v>>]
        ELSE EvalChannel(c, in, Limits(x, x)).status \in {"budget", "overflow"}
    BY <1>4, <1>5, EvalFollows
  <2> QED BY <1>6, <2>1
<1>8. ASSUME NEW w \in Read(g, in) PROVE w = v
  <2>1. w \in Val /\ Turns(c, in, <<>>, <<w>>)
    BY <1>1, ChannelIsRead
  <2>2. <<w>> \in Seq(Val)
    BY <2>1
  <2>3. Len(c) \in Nat
    BY <1>4
  <2> QED BY <1>2, <1>3, <2>1, <2>2, <2>3, TurnsOnce
<1>9. <<v>>[1] = v
  OBVIOUS
<1> QED BY <1>1, <1>2, <1>7, <1>8, <1>9

(* Expression by expression, a compiled program says what its text does.   *)
LEMMA CodeMeansSource ==
  ASSUME source \in Seq(Tokens)
  PROVE  CompiledMeansSource
<1> DEFINE x == Len(source)
           limits == [ops |-> Len(source), stack |-> Len(source)]
           Right(g, c, in) == LET m == EvalChannel(c, in, limits)
                               IN  m.status = "ok" /\ Read(g, in) = {m.stack[1]}
           Kept(ss, in) == IF Len(ss) = Channels /\ \A k \in DOMAIN ss : Read(ss[k], in) # {}
                           THEN \E p \in Compiled(source, Channels) :
                                  \A k \in DOMAIN ss : Right(ss[k], p[k], in)
                           ELSE Compiled(source, Channels) = {}
<1>1. x \in Nat /\ limits = Limits(x, x)
  BY LenProperties DEF Limits
<1>2. PICK segs \in Seq(Seq(Tokens)) :
        segs = Split(source) /\ \A k \in 1..Len(segs) : segs[k] \in Seq(Tokens) /\ Len(segs[k]) <= x
  BY SplitIs
<1>3. DOMAIN segs = 1..Len(segs)
  BY LenProperties
<1>4. ASSUME NEW in \in Inputs
      PROVE  Kept(segs, in)
  <2>1. in \in Vectors /\ Channels \in Nat
    BY SandboxConstants
  <2>2. ASSUME NEW k \in DOMAIN segs
        PROVE  /\ Read(segs[k], in) # {} => ParseChannel(segs[k]).ok
               /\ ParseChannel(segs[k]).ok =>
                    Read(segs[k], in) # {} /\ Right(segs[k], ParseChannel(segs[k]).code, in)
    <3>1. PICK g : g = segs[k]
      OBVIOUS
    <3>2. Len(g) \in Nat /\ Len(g) <= x
      BY <1>2, <1>3, <3>1, LenProperties
    <3>3. ASSUME NEW v \in Read(g, in) PROVE ParseChannel(g).ok
      BY <2>1, <3>2, <3>3, ChannelIsRead
    <3>4. ASSUME ParseChannel(g).ok
          PROVE  Read(g, in) # {} /\ Right(g, ParseChannel(g).code, in)
      <4>1. Right(g, ParseChannel(g).code, in)
        <5>. HIDE DEF x, limits
        <5> QED BY <1>1, <2>1, <3>2, <3>4, ChannelAnswers
      <4> QED BY <4>1
    <3> HIDE DEF Right
    <3> QED BY <3>1, <3>3, <3>4
  <2> HIDE DEF Right
  <2>3. CASE Len(segs) = Channels /\ \A k \in DOMAIN segs : Read(segs[k], in) # {}
    <3>1. \A k \in DOMAIN segs : ParseChannel(segs[k]).ok
      BY <2>2, <2>3
    <3>2. PICK p : p = [k \in DOMAIN segs |-> ParseChannel(segs[k]).code]
      OBVIOUS
    <3>3. p \in Compiled(source, Channels)
      BY <1>2, <2>3, <3>1, <3>2 DEF Compiled
    <3>4. \A k \in DOMAIN segs : Right(segs[k], p[k], in)
      BY <2>2, <3>1, <3>2
    <3> QED BY <2>3, <3>3, <3>4
  <2>4. CASE ~(Len(segs) = Channels /\ \A k \in DOMAIN segs : Read(segs[k], in) # {})
    <3>1. ASSUME NEW p \in Compiled(source, Channels) PROVE FALSE
      <4>1. Len(segs) = Channels /\ \A k \in 1..Channels : ParseChannel(segs[k]).ok
        BY <1>2, <2>1, CompiledIs
      <4>2. \A k \in DOMAIN segs : Read(segs[k], in) # {}
        BY <1>3, <2>2, <4>1
      <4> QED BY <2>4, <4>1, <4>2
    <3> QED BY <2>4, <3>1
  <2> QED BY <2>3, <2>4
<1>5. ASSUME NEW in \in Inputs PROVE Kept(Split(source), in)
  <2> HIDE DEF Kept
  <2> QED BY <1>2, <1>4
<1> QED BY <1>5 DEF CompiledMeansSource

-------------------------------------------------------------------------------
(* What users type are tokens, so what has been shown of a text of tokens  *)
(* is so of every text there is.                                           *)

SourceIsText == source \in Seq(Tokens)

THEOREM TextIsTokens == SandboxSpec => []SourceIsText
<1>1. SandboxInit => SourceIsText
  BY EmptySeq DEF SandboxInit, SourceIsText
<1>2. SourceIsText /\ [SandboxNext]_source => SourceIsText'
  <2> SUFFICES ASSUME SourceIsText, [SandboxNext]_source PROVE SourceIsText'
    OBVIOUS
  <2>1. CASE StartOver
    BY <2>1, EmptySeq DEF StartOver, SourceIsText
  <2>2. CASE Type
    <3>1. PICK t \in Tokens : source' = Append(source, t)
      BY <2>2 DEF Type
    <3> QED BY <3>1, AppendProperties DEF SourceIsText
  <2>3. CASE UNCHANGED source
    BY <2>3 DEF SourceIsText
  <2> QED BY <2>1, <2>2, <2>3 DEF SandboxNext
<1> QED BY <1>1, <1>2, PTL DEF SandboxSpec

(* Whatever the names, numbers, tokens, inputs and limits: of a compiled   *)
(* program the limits are all that can go wrong, neither one operation     *)
(* early nor one late (program.hpp, eval_channel).                         *)
THEOREM OnlyTheLimitsRefuse == SandboxSpec => []RefusedForLimitsOnly
<1>1. SourceIsText => RefusedForLimitsOnly
  BY LimitsRefuse DEF SourceIsText
<1> QED BY <1>1, TextIsTokens, PTL

(* Any compiled program that both engines finish is answered alike by      *)
(* both, given that no comparison in it met a NaN or the negative zero, no *)
(* clamp crossed bounds and no abs the negative zero: everything else,     *)
(* every division by zero among it, comes out the same (program.hpp:65-84, *)
(* wasm_emit.hpp:46-63).                                                   *)
THEOREM BothEnginesAgree == SandboxSpec => []EnginesAgree
<1>1. SourceIsText => EnginesAgree
  BY EnginesAnswerAlike DEF SourceIsText
<1> QED BY <1>1, TextIsTokens, PTL

(* The compiler is sound and complete for the grammar, which is not        *)
(* ambiguous: a text of any length is accepted exactly when it has a       *)
(* reading, and its code computes that reading for every input             *)
(* (compiler.hpp).                                                         *)
THEOREM CompilerIsCorrect == SandboxSpec => []CompiledMeansSource
<1>1. SourceIsText => CompiledMeansSource
  BY CodeMeansSource DEF SourceIsText
<1> QED BY <1>1, TextIsTokens, PTL

===============================================================================
