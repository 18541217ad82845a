-------------------------------- MODULE Pipeline ------------------------------
(***************************************************************************)
(* MindProx.py runs, for each workload, the steps that its user has        *)
(* uncommented.  Most of them only start a process that reads the files of *)
(* earlier steps and leave it behind; two are over before the next begins. *)
(* The user invokes the script again, with other steps, once all processes *)
(* of the last time have ended.                                            *)
(*                                                                         *)
(* Of a file the model keeps how good it is.  A process reads all its      *)
(* inputs at one moment; what it writes is "cut" until it has ended.  What *)
(* a process makes of a cut file is anything, or it fails.                 *)
(***************************************************************************)
EXTENDS Integers, Sequences, FiniteSets, SequencesExt

CONSTANTS
  Names,        \* the workloads
  Invocations,  \* of the script: sequences of jobs
  InitialFiles  \* of each workload

Contents ==
  {"absent",
   "cut",       \* not written to its end
   "poor",      \* made of what was cut, or of another workload's profile
   "old",       \* left by an earlier experiment
   "new"}

Files == {"pinball", "json", "mem_trace_out", "trimmed_trace", "halo_out", "log_scale_out",
          "ll_in.json", "out", "proxy.c", "proxy", "perfstat"}

Steps == {"make_JSON", "trim", "halo_trace", "log_convert", "make_ll_json",
          "make_linked_list", "make_proxy", "compile_proxy", "perf_proxy"}

ASSUME PipelineAssumption ==
  /\ IsFiniteSet(Names)
  /\ Invocations \in Seq(Seq(Names \X Steps) \ {<< >>})
  /\ \A i \in 1 .. Len(Invocations) : IsInjective(Invocations[i])
  /\ InitialFiles \in [Names -> [Files -> Contents \ {"cut"}]]

VARIABLES
  files,        \* of each workload
  process,      \* of each workload and step
  result,       \* what a process has made and not yet finished to write
  sde_mix_out,  \* the file sde leaves in the current directory: whose it is, if there
  invocation, job   \* where the script is

vars == <<files, process, result, sde_mix_out, invocation, job>>

\* The script's main loop over the steps that are not commented out
MainLoop(names, steps) ==
  FlattenSeq([i \in DOMAIN names |-> [j \in DOMAIN steps |-> <<names[i], steps[j]>>]])

Reads(step) ==
  CASE step = "make_JSON"        -> {"pinball"}
    [] step = "trim"             -> {"mem_trace_out"}
    [] step = "halo_trace"       -> {"trimmed_trace"}
    [] step = "log_convert"      -> {"halo_out"}
    [] step = "make_ll_json"     -> {"log_scale_out"}
    [] step = "make_linked_list" -> {"ll_in.json"}
    [] step = "make_proxy"       -> {"json", "out", "log_scale_out"}
    [] step = "compile_proxy"    -> {"proxy.c", "out"}
    [] step = "perf_proxy"       -> {"proxy"}

\* out.h and out.json are one file here.
Writes(step) ==
  CASE step = "make_JSON"        -> "json"
    [] step = "trim"             -> "trimmed_trace"
    [] step = "halo_trace"       -> "halo_out"
    [] step = "log_convert"      -> "log_scale_out"
    [] step = "make_ll_json"     -> "ll_in.json"
    [] step = "make_linked_list" -> "out"
    [] step = "make_proxy"       -> "proxy.c"
    [] step = "compile_proxy"    -> "proxy"
    [] step = "perf_proxy"       -> "perfstat"

\* Written through stdout, which the script has opened with "w"
ByStdout(step) == step \in {"halo_trace", "log_convert"}

\* trim is the script's own loop; perf_proxy waits.
Waits(step) == step \in {"trim", "perf_proxy"}

\* Mutant: trim waits for its trace.
HangsWithout_trim(step) == step \in {"trim", "halo_trace", "log_convert"}

\* Reads with while(!eof()), which a file that could not be opened never reaches
HangsWithout(step) == step \in {"halo_trace", "log_convert"}

Inputs(now, name, step) == {now[name][f] : f \in Reads(step)}

\* What a step makes of whole inputs; "absent" when it ends with an error instead.
Made(inputs) ==
  CASE "absent" \in inputs -> "absent"
    [] "absent" \notin inputs /\ "poor" \in inputs -> "poor"
    [] inputs \cap {"absent", "poor"} = {} /\ "old" \in inputs -> "old"
    [] OTHER -> "new"

\* What it may make of any inputs
Results(inputs) ==
  IF "cut" \in inputs /\ "absent" \notin inputs THEN {"absent", "poor"} ELSE {Made(inputs)}

Jobs == Names \X Steps

Init ==
  /\ files = InitialFiles
  /\ process = [p \in Jobs |-> "none"]
  /\ result = [p \in Jobs |-> "absent"]
  /\ sde_mix_out = {}
  /\ invocation = 1 /\ job = 1

Running(p) == process[p] \notin {"none", "ended"}

\* The user waits for what is left running.
Invoked ==
  /\ invocation <= Len(Invocations) /\ job <= Len(Invocations[invocation])
  /\ job = 1 => \A p \in Jobs : ~Running(p)

\* Mutant: the script does not wait.
MayGoOn_at_once == Invoked

\* The script comes to a job when the one before is not one it waits for, or is over.
MayGoOn ==
  Invoked /\ (job > 1 =>
    LET before == Invocations[invocation][job - 1]
    IN Waits(before[2]) => ~Running(before))

\* Popen
StartJob ==
  /\ MayGoOn
  /\ LET p == Invocations[invocation][job]
     IN /\ process' = [process EXCEPT ![p] = "started"]
        /\ files' = IF ByStdout(p[2]) THEN [files EXCEPT ![p[1]][Writes(p[2])] = "cut"] ELSE files
  /\ job' = job + 1
  /\ UNCHANGED <<result, sde_mix_out, invocation>>

EndOfInvocation ==
  /\ invocation <= Len(Invocations) /\ job > Len(Invocations[invocation])
  /\ LET last == Invocations[invocation][job - 1]
     IN Waits(last[2]) => ~Running(last)
  /\ invocation' = invocation + 1 /\ job' = 1
  /\ UNCHANGED <<files, process, result, sde_mix_out>>

\* mkJSON_both_pinballs.sh: sde leaves its result in the current directory.
RunSde(p) ==
  /\ process[p] = "started" /\ p[2] = "make_JSON"
  /\ sde_mix_out' = IF files[p[1]]["pinball"] = "absent" THEN sde_mix_out ELSE {p[1]}
  /\ process' = [process EXCEPT ![p] = "profiled"]
  /\ UNCHANGED <<files, result, invocation, job>>

\* "mv sde-mix-out.txt $2/.", and what the rest of the script makes of it
MoveSdeMix(p) ==
  /\ process[p] = "profiled"
  /\ result' = [result EXCEPT ![p] =
       CASE sde_mix_out = {}     -> "absent"
         [] sde_mix_out = {p[1]} -> Made(Inputs(files, p[1], p[2]))
         [] OTHER                -> "poor"]
  /\ sde_mix_out' = {}
  /\ process' = [process EXCEPT ![p] = "read"]
  /\ UNCHANGED <<files, invocation, job>>

Read(p) ==
  /\ process[p] = "started" /\ p[2] # "make_JSON"
  /\ LET inputs == Inputs(files, p[1], p[2])
     IN IF "absent" \in inputs /\ HangsWithout(p[2])
        THEN /\ process' = [process EXCEPT ![p] = "hung"]
             /\ UNCHANGED result
        ELSE /\ process' = [process EXCEPT ![p] = "read"]
             /\ \E made \in Results(inputs) : result' = [result EXCEPT ![p] = made]
  /\ UNCHANGED <<files, sde_mix_out, invocation, job>>

\* A step that fails leaves its output as it was.
Fail(p) ==
  /\ process[p] = "read" /\ result[p] = "absent"
  /\ process' = [process EXCEPT ![p] = "ended"]
  /\ UNCHANGED <<files, result, sde_mix_out, invocation, job>>

BeginOutput(p) ==
  /\ process[p] = "read" /\ result[p] # "absent"
  /\ process' = [process EXCEPT ![p] = "writing"]
  /\ files' = [files EXCEPT ![p[1]][Writes(p[2])] = "cut"]
  /\ UNCHANGED <<result, sde_mix_out, invocation, job>>

EndOutput(p) ==
  /\ process[p] = "writing"
  /\ process' = [process EXCEPT ![p] = "ended"]
  /\ files' = [files EXCEPT ![p[1]][Writes(p[2])] = result[p]]
  /\ UNCHANGED <<result, sde_mix_out, invocation, job>>

Script == StartJob \/ EndOfInvocation

Process(p) ==
  \/ RunSde(p) \/ MoveSdeMix(p)
  \/ Read(p) \/ Fail(p) \/ BeginOutput(p) \/ EndOutput(p)

Over == invocation > Len(Invocations) /\ \A p \in Jobs : ~Running(p)

\* All is over, or a process that hangs goes round its loop.
Terminated == (Over \/ \E p \in Jobs : process[p] = "hung") /\ UNCHANGED vars

Next == Script \/ (\E p \in Jobs : Process(p)) \/ Terminated

Spec == Init /\ [][Next]_vars

\* Every process runs on, and the user comes back.
FairSpec == Spec /\ WF_vars(Script) /\ \A p \in Jobs : WF_vars(Process(p))

--------------------------------------------------------------------------------
(* Properties *)

\* Two jobs of an invocation may run at the same time if the first of them is left behind.
MayOverlap(jobs, k, l) == k # l /\ ~Waits(jobs[IF k < l THEN k ELSE l][2])

\* p writes to a file that q works with, or both use sde-mix-out.txt.
Disturbs(p, q) ==
  \/ p[1] = q[1] /\ Writes(p[2]) \in Reads(q[2]) \cup {Writes(q[2])}
  \/ p[2] = "make_JSON" /\ q[2] = "make_JSON"

Disturbed(jobs, k) ==
  \E l \in 1 .. Len(jobs) : MayOverlap(jobs, k, l) /\ Disturbs(jobs[l], jobs[k])

\* What the k-th job makes of the files of now when it is waited for; "any" when it is not
\* and another one disturbs it, or has disturbed those before it.
Expected(now, jobs, k) ==
  LET inputs == Inputs(now, jobs[k][1], jobs[k][2])
  IN IF Disturbed(jobs, k) \/ "any" \in inputs THEN "any" ELSE Made(inputs)

Alone(now, jobs, k) ==
  LET made == Expected(now, jobs, k)
  IN IF made = "absent" THEN now ELSE [now EXCEPT ![jobs[k][1]][Writes(jobs[k][2])] = made]

\* The files after the first n jobs of an invocation, one after the other,
After(start, jobs) ==
  LET now[n \in 0 .. Len(jobs)] == IF n = 0 THEN start ELSE Alone(now[n - 1], jobs, n)
  IN now

\* and after the first i invocations.
Waited[i \in 0 .. Len(Invocations)] ==
  IF i = 0 THEN InitialFiles ELSE After(Waited[i - 1], Invocations[i])[Len(Invocations[i])]

\* The steps that are left behind do what they would do if each were waited for, but for
\* those that work with a file of one that may still be running, and what comes of these:
\* when the processes of an invocation have ended, all other files are those that the
\* steps make one after the other in the order of the script.
AsIfWaited ==
  job = 1 /\ (\A p \in Jobs : ~Running(p)) =>
    \A name \in Names, f \in Files : Waited[invocation - 1][name][f] \in {"any", files[name][f]}

\* What a user has to see to for this to hold of all files: a step that is left behind has
\* nothing to do with the steps that come after it in the same invocation.
Independent ==
  \A i \in 1 .. Len(Invocations) : \A k \in 1 .. Len(Invocations[i]) : ~Disturbed(Invocations[i], k)

\* The files before the k-th job of an invocation, if those before it were waited for
Before(i, k) == After(Waited[i - 1], Invocations[i])[k - 1]

\* halo_trace or log_convert, which would have no trace if all were waited for, or may have none
LacksTrace(p) ==
  /\ p[2] \in {"halo_trace", "log_convert"}
  /\ \E i \in {invocation - 1, invocation} \cap 1 .. Len(Invocations) :
       \E k \in 1 .. Len(Invocations[i]) :
         /\ Invocations[i][k] = p
         /\ Inputs(Before(i, k), p[1], p[2]) \cap {"absent", "any"} # {}

\* All processes end and the script gets to its end, or only processes without a trace go on.
EndsOrLacksTrace ==
  <>[](/\ \A p \in Jobs : Running(p) => LacksTrace(p)
       /\ Over \/ \E p \in Jobs : Running(p))
================================================================================
