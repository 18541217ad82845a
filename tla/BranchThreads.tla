---------------------------- MODULE BranchThreads -----------------------------
(***************************************************************************)
(* The pin tool branchconfigs-local.cpp in a program of several threads:   *)
(* PIN calls RecordBranchOrCall in the thread that executes a branch, and  *)
(* the tool keeps no state of its own per thread and takes no lock.  So    *)
(* every count is read and written back with other threads between; a      *)
(* BranchStruct may be replaced while its count goes up; and a std::map is *)
(* searched and changed by several threads at once.                        *)
(*                                                                         *)
(* Of the map the model keeps its nodes, which are never erased.  A search *)
(* compares keys, so what it finds is a node of the branch it looks for;   *)
(* but while another thread links a node, and ever after two have done so  *)
(* at the same time, it can miss a node that is there, or crash.  (That it *)
(* may also never end is a thread that takes no further step.)             *)
(***************************************************************************)
EXTENDS Integers, Sequences, FiniteSets, Functions

CONSTANTS
  Threads,
  Branches,      \* the addresses of conditional branches
  MAX_EXECUTED   \* bound: branches each thread executes

VARIABLES
  BranchStructs,     \* those allocated: inst_ptr and total_count
  nodes,             \* of BrInfo: inst_ptr and br, the number of its BranchStruct or 0
  torn,              \* whether two threads have linked nodes at the same time
  GlobalCondCount,
  at,                \* where each thread is: see Steps
  branch,            \* the branch it is recording
  node,              \* the node it has found or made
  struct,            \* the BranchStruct it has found or made
  loaded,            \* the count it has read and not yet written back
  executed,          \* history: how often each thread has executed each branch
  overlapped         \* history: whether a thread has entered the tool with another in it

vars == <<BranchStructs, nodes, torn, GlobalCondCount, at, branch, node, struct, loaded,
          executed, overlapped>>

\* "found" and "insert" are what find() said.
Steps == {"running", "found", "struct", "count", "insert", "linking", "assign",
          "recorded", "finish", "crashed"}

Init ==
  /\ BranchStructs = << >> /\ nodes = << >> /\ torn = FALSE
  /\ GlobalCondCount = 0
  /\ at = [th \in Threads |-> "running"]
  /\ branch \in [Threads -> Branches]
  /\ node = [th \in Threads |-> 0]
  /\ struct = [th \in Threads |-> 0]
  /\ loaded = [th \in Threads |-> 0]
  /\ executed = [th \in Threads |-> [ip \in Branches |-> 0]]
  /\ overlapped = FALSE

Started(th) == SumFunction(executed[th])

GoTo(th, step) == at' = [at EXCEPT ![th] = step]

NodesOf(ip) == {n \in DOMAIN nodes : nodes[n].inst_ptr = ip}

Others(th) == Threads \ {th}

\* A search of the map in this thread may go wrong.
Disturbed(th) == torn \/ \E other \in Others(th) : at[other] = "linking"

\* BrInfo.find()
Find(th) ==
  /\ at[th] = "running" /\ Started(th) < MAX_EXECUTED
  /\ overlapped' = (overlapped \/ \E other \in Others(th) : at[other] # "running")
  /\ \E ip \in Branches :
       /\ branch' = [branch EXCEPT ![th] = ip]
       /\ executed' = [executed EXCEPT ![th][ip] = @ + 1]
       /\ \/ \E n \in NodesOf(ip) : node' = [node EXCEPT ![th] = n] /\ GoTo(th, "found")
          \/ (NodesOf(ip) = {} \/ Disturbed(th)) /\ GoTo(th, "insert") /\ UNCHANGED node
  /\ UNCHANGED <<BranchStructs, nodes, torn, GlobalCondCount, struct, loaded>>

\* iter->second
LoadStruct(th) ==
  /\ at[th] = "found" /\ nodes[node[th]].br # 0
  /\ struct' = [struct EXCEPT ![th] = nodes[node[th]].br]
  /\ GoTo(th, "struct")
  /\ UNCHANGED <<BranchStructs, nodes, torn, GlobalCondCount, branch, node, loaded, executed, overlapped>>

\* incr_count(), on what was there
ReadTotal(th) ==
  /\ at[th] = "struct"
  /\ loaded' = [loaded EXCEPT ![th] = BranchStructs[struct[th]].total_count]
  /\ GoTo(th, "count")
  /\ UNCHANGED <<BranchStructs, nodes, torn, GlobalCondCount, branch, node, struct, executed, overlapped>>

WriteTotal(th) ==
  /\ at[th] = "count"
  /\ BranchStructs' = [BranchStructs EXCEPT ![struct[th]].total_count = loaded[th] + 1]
  /\ GoTo(th, "recorded")
  /\ UNCHANGED <<nodes, torn, GlobalCondCount, branch, node, struct, loaded, executed, overlapped>>

\* Mutant: the new BranchStruct is not counted.
Insert_uncounted(th) ==
  /\ at[th] = "insert"
  /\ BranchStructs' = Append(BranchStructs, [inst_ptr |-> branch[th], total_count |-> 0])
  /\ struct' = [struct EXCEPT ![th] = Len(BranchStructs) + 1]
  /\ \/ \E n \in NodesOf(branch[th]) : node' = [node EXCEPT ![th] = n] /\ GoTo(th, "assign")
     \/ /\ NodesOf(branch[th]) = {} \/ Disturbed(th)
        /\ GoTo(th, "linking") /\ UNCHANGED node
  /\ UNCHANGED <<nodes, torn, GlobalCondCount, branch, loaded, executed, overlapped>>

\* A new BranchStruct, counted once; operator[] looks for the place of its node, which
\* another thread may have made by now.
Insert(th) ==
  /\ at[th] = "insert"
  /\ BranchStructs' = Append(BranchStructs, [inst_ptr |-> branch[th], total_count |-> 1])
  /\ struct' = [struct EXCEPT ![th] = Len(BranchStructs) + 1]
  /\ \/ \E n \in NodesOf(branch[th]) : node' = [node EXCEPT ![th] = n] /\ GoTo(th, "assign")
     \/ /\ NodesOf(branch[th]) = {} \/ Disturbed(th)
        /\ GoTo(th, "linking") /\ UNCHANGED node
  /\ UNCHANGED <<nodes, torn, GlobalCondCount, branch, loaded, executed, overlapped>>

\* operator[] adds a node, with no BranchStruct yet.
Link(th) ==
  /\ at[th] = "linking"
  /\ nodes' = Append(nodes, [inst_ptr |-> branch[th], br |-> 0])
  /\ node' = [node EXCEPT ![th] = Len(nodes) + 1]
  /\ torn' = Disturbed(th)
  /\ GoTo(th, "assign")
  /\ UNCHANGED <<BranchStructs, GlobalCondCount, branch, struct, loaded, executed, overlapped>>

\* The new BranchStruct takes the place of what the node has by now.
Assign(th) ==
  /\ at[th] = "assign"
  /\ nodes' = [nodes EXCEPT ![node[th]].br = struct[th]]
  /\ GoTo(th, "recorded")
  /\ UNCHANGED <<BranchStructs, torn, GlobalCondCount, branch, node, struct, loaded, executed, overlapped>>

\* GlobalCondCount += 1
ReadGlobal(th) ==
  /\ at[th] = "recorded"
  /\ loaded' = [loaded EXCEPT ![th] = GlobalCondCount]
  /\ GoTo(th, "finish")
  /\ UNCHANGED <<BranchStructs, nodes, torn, GlobalCondCount, branch, node, struct, executed, overlapped>>

WriteGlobal(th) ==
  /\ at[th] = "finish"
  /\ GlobalCondCount' = loaded[th] + 1
  /\ GoTo(th, "running")
  /\ node' = [node EXCEPT ![th] = 0]
  /\ struct' = [struct EXCEPT ![th] = 0]
  /\ loaded' = [loaded EXCEPT ![th] = 0]
  /\ UNCHANGED <<BranchStructs, nodes, torn, branch, executed, overlapped>>

\* The program ends in a thread that finds a node with no BranchStruct, or goes astray
\* in the map.
Crash(th) ==
  /\ \/ at[th] = "found" /\ nodes[node[th]].br = 0
     \/ at[th] = "running" /\ Started(th) < MAX_EXECUTED /\ Disturbed(th)
     \/ at[th] \in {"insert", "linking"} /\ Disturbed(th)
  /\ at' = [other \in Threads |-> "crashed"]
  /\ UNCHANGED <<BranchStructs, nodes, torn, GlobalCondCount, branch, node, struct, loaded,
                 executed, overlapped>>

Record(th) ==
  \/ Find(th) \/ LoadStruct(th) \/ ReadTotal(th) \/ WriteTotal(th)
  \/ Insert(th) \/ Link(th) \/ Assign(th)
  \/ ReadGlobal(th) \/ WriteGlobal(th) \/ Crash(th)

Idle == \A th \in Threads : at[th] = "running"
Over ==
  \/ Idle /\ \A th \in Threads : Started(th) = MAX_EXECUTED
  \/ \E th \in Threads : at[th] = "crashed"
Terminated == Over /\ UNCHANGED vars

Next == (\E th \in Threads : Record(th)) \/ Terminated

Spec == Init /\ [][Next]_vars

--------------------------------------------------------------------------------
(* Properties *)

Executed(ip) == SumFunction([th \in Threads |-> executed[th][ip]])
ExecutedInAll == SumFunction([ip \in Branches |-> Executed(ip)])

\* No BranchStruct counts more executions than its branch has had, in all threads together,
\* although a count may go back when an old one is written; nor does GlobalCondCount.  And
\* a node's BranchStruct is one of its own branch.
NeverOvercounts ==
  /\ \A s \in DOMAIN BranchStructs : BranchStructs[s].total_count <= Executed(BranchStructs[s].inst_ptr)
  /\ GlobalCondCount <= ExecutedInAll
  /\ \A n \in DOMAIN nodes :
       nodes[n].br # 0 => BranchStructs[nodes[n].br].inst_ptr = nodes[n].inst_ptr

\* When no thread is in the tool, every node has the BranchStruct that emit_stats looks into
\* (line 236), although operator[] adds it without one.
NoneIsNull == Idle => \A n \in DOMAIN nodes : nodes[n].br # 0

\* "Handles an arbitrary number of threads": when no thread is in the tool, every
\* branch executed has been counted.
CountsEveryBranch ==
  Idle =>
    /\ \A ip \in Branches : Executed(ip) > 0 =>
         \E n \in NodesOf(ip) : BranchStructs[nodes[n].br].total_count = Executed(ip)
    /\ GlobalCondCount = ExecutedInAll

\* So it is if the threads have never been in the tool at the same time.
ExactOneByOne == ~ overlapped => CountsEveryBranch
================================================================================
