--------------------------------- MODULE Parts ---------------------------------
(***************************************************************************)
(* The parts of a platform that share no state with the rest, one of them  *)
(* in each behaviour: the documents that describe a cell (Descriptors),    *)
(* their files (DocStore), the programs a user writes for it (Sandbox),    *)
(* and a part seen on its belt and reached for (Sightings).                *)
(***************************************************************************)
EXTENDS Descriptors, DocStore, Sandbox, Sightings

VARIABLE part   \* the one this behaviour is about

part_vars == <<part, doc_vars, store_vars, source, sight_vars>>

PartsInit ==
  /\ part \in {"documents", "files", "programs", "sightings"}
  /\ DescriptorsInit /\ StoreInit /\ SandboxInit /\ SightingsInit
  /\ part = "documents" <=> kind # "none"
  /\ part = "sightings" \/ (tracker = "constant" /\ camera = CHOOSE c \in Cameras : TRUE)

PartsNext ==
  \/ part = "documents" /\ DescriptorsNext /\ UNCHANGED <<part, store_vars, source, sight_vars>>
  \/ part = "files" /\ StoreNext /\ UNCHANGED <<part, doc_vars, source, sight_vars>>
  \/ part = "programs" /\ SandboxNext /\ UNCHANGED <<part, doc_vars, store_vars, sight_vars>>
  \/ part = "sightings" /\ SightingsNext /\ UNCHANGED <<part, doc_vars, store_vars, source>>

PartsSpec == PartsInit /\ [][PartsNext]_part_vars

===============================================================================
