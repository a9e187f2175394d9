------------------------ MODULE CheckpointSyncSimpoint ------------------------
(* Simpoint mode of a machine with several vCPUs.  The barrier is that of      *)
(* CheckpointSync; what differs is the schedule: two GLists, one of locations  *)
(* and one of paths, from which every vCPU removes a head after every          *)
(* checkpoint of its own, without a lock.  One step is one access to a shared  *)
(* list or list head.                                                          *)
EXTENDS CheckpointSync, Sequences

CONSTANT Simpoints   \* location * interval of each list entry, sorted

SimpointCount == Len(Simpoints)

\* g_list_remove looks for a location, so two equal ones would be told apart no more.
ASSUME SimpointsAssumption ==
  /\ Simpoints \in Seq(Nat)
  /\ Simpoints # << >>
  /\ \A j, k \in 1 .. SimpointCount : j < k => Simpoints[j] < Simpoints[k]

VARIABLES
  head,         \* of either list, the node it starts with
  freed,        \* of either list, the last node that was freed
  chosen,       \* the output_path of each vCPU's checkpoint_create, by its node
  at,           \* where each vCPU is in "Update checkpoint limits"
  list,         \* the list it removes a head from
  node,         \* its first and first_path
  rest,         \* what g_list_remove returned to it
  simpointExit, \* simpoint_exit
  undefined     \* a vCPU has used a freed node, or dereferenced NULL

popVars == <<at, list, node, rest>>
listVars == <<head, freed, chosen, popVars, simpointExit, undefined>>
simpointVars == <<vars, listVars>>

Lists == {"cpt", "path"}   \* cpt_instructions and checkpoint_path_list
NULL == SimpointCount + 1

\* checkpoint_parse_simpoint_files has filled both lists.
SimpointInit ==
  /\ Init
  /\ head = [l \in Lists |-> 1]
  /\ freed = [l \in Lists |-> 0]
  /\ chosen = [c \in Cpus |-> NULL]
  /\ at = [c \in Cpus |-> "length"]
  /\ list = [c \in Cpus |-> "cpt"]
  /\ node = [c \in Cpus |-> NULL]
  /\ rest = [c \in Cpus |-> NULL]
  /\ simpointExit = FALSE
  /\ undefined = FALSE

\* The list head still names a node that has been freed.
Dangling(l) == head[l] # NULL /\ head[l] <= freed[l]

-----------------------------------------------------------------------------
(* checkpoint_try_take up to its checkpoint_create                             *)

\* The tests of checkpoint_try_take.
PastOffset(c) == ic[c] >= Warmup /\ ic[c] >= StartOffset

SimpointReached(c) ==
  /\ PastOffset(c)
  /\ head["cpt"] # NULL
  /\ ic[c] >= Simpoints[head["cpt"]] + StartOffset

SimpointTrigger(c) ==
  /\ SimpointReached(c)
  /\ Goto(c, "hook", "sync")
  /\ UNCHANGED <<icount, locals, limits, waitId, flags, onlining, listVars>>

SimpointNotReached(c) ==
  /\ ~ SimpointReached(c)
  /\ Goto(c, "hook", "run")
  /\ UNCHANGED <<icount, locals, limits, waitId, flags, onlining, listVars>>

\* checkpoint_should_wait reads the list anew, and leaves out the start offset.
SimpointShouldWait(c) ==
  \/ onlineCpus # N
  \/ IF SyncInterval > 0
       THEN ic[c] >= uniformSyncLimit
       ELSE head["cpt"] # NULL /\ ic[c] >= Simpoints[head["cpt"]]

SimpointJoin(c) ==
  /\ SimpointShouldWait(c)
  /\ Goto(c, "sync", "arrive")
  /\ UNCHANGED <<icount, locals, limits, waitId, flags, onlining, listVars>>

SimpointSkip(c) ==
  /\ ~ SimpointShouldWait(c)
  /\ Goto(c, "sync", "name")
  /\ UNCHANGED <<icount, locals, limits, waitId, flags, onlining, listVars>>

\* checkpoint_get_output_path; without a path checkpoint_create makes one up.
ChoosePath(c) ==
  /\ ChooseFile(c)
  /\ chosen' = [chosen EXCEPT ![c] = head["path"]]
  /\ UNCHANGED <<head, freed, popVars, simpointExit, undefined>>

\* The vCPU executes guest code, is in the barrier, or writes its file.
NoListStep(c) ==
  /\ \/ RunTB(c) \/ Arrive(c)
     \/ BecomeWaiter(c) \/ RaiseWaiting(c) \/ Released(c) \/ ClearWaiting(c)
     \/ BecomeLeader(c) \/ Scan(c) \/ ScanDone(c) \/ WriteFile(c)
     \/ UpdateSyncLimit(c) \/ ResetWaitId(c) \/ Signal(c) \/ SignalDone(c)
  /\ UNCHANGED listVars

-----------------------------------------------------------------------------
(* "Update checkpoint limits" and "Check if all checkpoints are done"          *)

Popping(c, place) == pc[c] = "load" /\ at[c] = place

\* remaining = g_list_length(...), and its test
CountLeft(c) ==
  /\ Popping(c, "length")
  /\ at' = [at EXCEPT ![c] = IF head["cpt"] = NULL THEN "done" ELSE "first"]
  /\ list' = [list EXCEPT ![c] = "cpt"]
  /\ UNCHANGED <<vars, head, freed, chosen, node, rest, simpointExit, undefined>>

\* first = g_list_first(...), and its data, which may also be read in the next step
TakeFirst(c) ==
  /\ Popping(c, "first")
  /\ head[list[c]] # NULL
  /\ node' = [node EXCEPT ![c] = head[list[c]]]
  /\ at' = [at EXCEPT ![c] = "remove"]
  /\ UNCHANGED <<vars, head, freed, chosen, list, rest, simpointExit, undefined>>

\* Fault for the checks: the list is taken to start behind the node even when
\* that was no longer in it.
RemoveBlindly(c) ==
  /\ Popping(c, "remove")
  /\ freed' = [freed EXCEPT ![list[c]] = IF node[c] > @ THEN node[c] ELSE @]
  /\ rest' = [rest EXCEPT ![c] = IF head[list[c]] = NULL THEN NULL ELSE head[list[c]] + 1]
  /\ at' = [at EXCEPT ![c] = "store"]
  /\ UNCHANGED <<vars, head, chosen, list, node, simpointExit, undefined>>

\* g_list_remove frees the node and returns what follows it, or, when another
\* vCPU has removed it meanwhile, finds nothing and returns the list.
Remove(c) ==
  /\ Popping(c, "remove")
  /\ IF node[c] = head[list[c]]
       THEN /\ freed' = [freed EXCEPT ![list[c]] = node[c]]
            /\ rest' = [rest EXCEPT ![c] = node[c] + 1]
       ELSE /\ rest' = [rest EXCEPT ![c] = head[list[c]]]
            /\ UNCHANGED freed
  /\ at' = [at EXCEPT ![c] = "store"]
  /\ UNCHANGED <<vars, head, chosen, list, node, simpointExit, undefined>>

\* The store of the new head; the paths follow the locations.
StoreHead(c) ==
  /\ Popping(c, "store")
  /\ head' = [head EXCEPT ![list[c]] = rest[c]]
  /\ at' = [at EXCEPT ![c] = IF list[c] = "cpt" THEN "first" ELSE "done"]
  /\ list' = [list EXCEPT ![c] = "path"]
  /\ UNCHANGED <<vars, freed, chosen, node, rest, simpointExit, undefined>>

\* g_list_length(...) == 0 raises the exit flag, and checkpoint_try_take returns.
CheckDone(c) ==
  /\ at[c] = "done"
  /\ Goto(c, "load", "run")
  /\ at' = [at EXCEPT ![c] = "length"]
  /\ simpointExit' = (simpointExit \/ head["cpt"] = NULL)
  /\ UNCHANGED <<icount, locals, limits, waitId, flags, onlining>>
  /\ UNCHANGED <<head, freed, chosen, list, node, rest, undefined>>

-----------------------------------------------------------------------------

\* The lists whose nodes the next step of vCPU c looks at.
Reads(c) ==
  {l \in Lists :
     \/ l = "cpt" /\ pc[c] = "hook" /\ PastOffset(c)
     \/ l = "cpt" /\ pc[c] = "sync" /\ onlineCpus = N
     \/ l = "path" /\ pc[c] \in {"name", "bname"}
     \/ l = "cpt" /\ (Popping(c, "length") \/ Popping(c, "done"))
     \/ l = list[c] /\ (Popping(c, "first") \/ Popping(c, "remove"))}

\* A read of a node that is freed, a removal through a first that is (unless its
\* data was read in time), and first_path->data when there is no path left.
Misuse(c) ==
  /\ \/ \E l \in Reads(c) : Dangling(l)
     \/ Popping(c, "remove") /\ node[c] <= freed[list[c]]
     \/ Popping(c, "first") /\ head[list[c]] = NULL
  /\ undefined' = TRUE
  /\ UNCHANGED <<vars, head, freed, chosen, popVars, simpointExit>>

\* What vCPU c does when the nodes it looks at are there.
Proceed(c) ==
  /\ \A l \in Reads(c) : ~ Dangling(l)
  /\ \/ SimpointTrigger(c) \/ SimpointNotReached(c) \/ SimpointJoin(c) \/ SimpointSkip(c)
     \/ ChoosePath(c) \/ NoListStep(c)
     \/ CountLeft(c) \/ TakeFirst(c) \/ Remove(c) \/ StoreHead(c) \/ CheckDone(c)

\* Nothing is said of the program once its behaviour is undefined.
SimpointThread(c) == ~ undefined /\ (Proceed(c) \/ Misuse(c))

SimpointEnvironment(c) ==
  ~ undefined /\ (Environment(c) \/ Hotplug(c)) /\ UNCHANGED listVars

SimpointNext == \E c \in Cpus : SimpointThread(c) \/ SimpointEnvironment(c)

SimpointSpec == SimpointInit /\ [][SimpointNext]_simpointVars

-----------------------------------------------------------------------------

\* Every variable holds a value of its kind, the places are those of a run.
SimpointTypeOK ==
  /\ TypeOK
  /\ head \in [Lists -> 1 .. NULL]
  /\ freed \in [Lists -> 0 .. SimpointCount]
  /\ chosen \in [Cpus -> 1 .. NULL]
  /\ at \in [Cpus -> {"length", "first", "remove", "store", "done"}]
  /\ list \in [Cpus -> Lists]
  /\ node \in [Cpus -> 1 .. NULL]
  /\ rest \in [Cpus -> 1 .. NULL]
  /\ simpointExit \in BOOLEAN
  /\ undefined \in BOOLEAN

\* However the removals race, the exit flag does not go up before every location
\* has been removed, each by a vCPU that had just created a checkpoint.
ExitMeansServed == simpointExit => freed["cpt"] = SimpointCount

=============================================================================
