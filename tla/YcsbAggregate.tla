--------------------------- MODULE YcsbAggregate ---------------------------
(***************************************************************************)
(* parse_ycsb.py: main's loop over the local .out files, process_out_file, *)
(* parse_throughput_from_out_file and the GC-storm check.  A file given on *)
(* the command line is [dir, prefix]: the directory it sits in and the     *)
(* part of its name before "__node_".  What the code reads from outside   *)
(* (the .hdr files a glob finds, the merger's JSON, the .out lines) is     *)
(* chosen when it is read.  Throughputs are small integers on the scale   *)
(* the 5% threshold is applied to.                                         *)
(***************************************************************************)
EXTENDS Integers, Sequences, SequencesExt

CONSTANTS
    Dirs,           \* directories holding experiments
    Names,          \* experiment name prefixes
    MaxFiles,       \* longest --ycsb-files list checked
    HdrThr,         \* round(count / runtime_s) the merger's JSON can give
    OutThr,         \* ops_count / runtime of one .out file
    MaxOuts         \* .out files of one experiment (local and requesters)

ASSUME MaxFiles \in Nat /\ MaxOuts \in Nat \ {0}
ASSUME HdrThr \subseteq Nat /\ OutThr \subseteq Nat

(* Python's None for a throughput: no throughput is negative.             *)
None == -1

(* The .hdr key suffixes a glob can find: an allowed key, an ignored one, *)
(* a failure key and one the script does not know.                         *)
HdrKeys == {"READ", "READ-MODIFY-WRITE", "READ-FAILED", "BOGUS"}
KEYS_TO_IGNORE == {"READ-MODIFY-WRITE", "CLEANUP"}
KEYS_TO_ERROR == {"READ-FAILED", "UPDATE-FAILED", "INSERT-FAILED"}
ALLOWED_KEYS == {"READ", "UPDATE", "INSERT", "SCAN"}

(* A .out file: its "[OVERALL], RunTime(ms)" line is missing, 0 or        *)
(* positive, and thr is its throughput when positive.                      *)
OutFile == [rt : {"none", "zero"}, thr : {0}] \cup [rt : {"pos"}, thr : OutThr]

(* --ignore-failures is declared type=bool: argparse applies bool() to    *)
(* the text, so any non-empty text, "False" included, is true.             *)
ParseIgnoreFailures(text) == text \notin {"absent", ""}

VARIABLES
    files,          \* args.ycsb_files
    ignoreFailures, \* args.ignore_failures
    trim,           \* ignore_start_seconds or ignore_end_seconds is not 0
    k,              \* position in args.ycsb_files
    pc,             \* "process", "merge", "outs", "gc", "done", "error"
    computed,       \* COMPUTED_EXPT_PREFIXES
    byKey,          \* by_key: the keys whose .hdr files are merged
    thr,            \* res.overall_final.thr of the experiment in hand
    results,        \* the non-None WorkloadResults
    g,              \* position of the GC-storm loop
    storm,          \* gc_storm_detected
    err             \* exception raised, "none" before

vars == <<files, ignoreFailures, trim, k, pc, computed, byKey, thr, results,
          g, storm, err>>

Init ==
    /\ files \in SeqOf(Dirs \X Names, MaxFiles)
    /\ \E text \in {"absent", "True", "False"} :
          ignoreFailures = ParseIgnoreFailures(text)
    /\ trim \in BOOLEAN
    /\ k = 1
    /\ pc = "process"
    /\ computed = {}
    /\ byKey = {}
    /\ thr = None
    /\ results = << >>
    /\ g = 1
    /\ storm = FALSE
    /\ err = "none"

Raise(e) ==
    /\ pc' = "error"
    /\ err' = e

(* A prefix already computed returns None, and main drops it.             *)
SkipComputed ==
    /\ pc = "process"
    /\ k <= Len(files)
    /\ files[k][2] \in computed
    /\ k' = k + 1
    /\ UNCHANGED <<files, ignoreFailures, trim, pc, computed, byKey, thr,
                   results, g, storm, err>>

(* process_out_file: record the prefix, glob the .hdr files of the .out's *)
(* directory and group them by key: none found, a failure key (unless     *)
(* ignored) or an unknown key raises; ignored keys are dropped.            *)
GroupHdrs ==
    /\ pc = "process"
    /\ k <= Len(files)
    /\ files[k][2] \notin computed
    /\ computed' = computed \cup {files[k][2]}
    /\ \E keys \in SUBSET HdrKeys :
         LET dropped == KEYS_TO_IGNORE
                          \cup (IF ignoreFailures THEN KEYS_TO_ERROR ELSE {})
             kept == keys \ dropped
         IN  CASE keys = {} -> Raise("no_hdr") /\ UNCHANGED byKey
               [] ~ignoreFailures /\ keys \cap KEYS_TO_ERROR # {} ->
                     Raise("failure_key") /\ UNCHANGED byKey
               [] kept \ ALLOWED_KEYS # {} ->
                     Raise("unexpected_key") /\ UNCHANGED byKey
               [] OTHER -> byKey' = kept /\ pc' = "merge" /\ UNCHANGED err
    /\ UNCHANGED <<files, ignoreFailures, trim, k, thr, results, g, storm>>

(* run_mergehdr for OVERALL and then for each key: the external merger  *)
(* can exit non-zero (check=True raises) or report a zero runtime, which  *)
(* leaves thr at None; with no .hdr file left after the key filter it has *)
(* nothing to merge and reports no runtime.                                *)
Merge ==
    /\ pc = "merge"
    /\ \/ /\ thr' \in IF byKey = {} THEN {None} ELSE HdrThr \cup {None}
          /\ pc' = "outs"
          /\ UNCHANGED err
       \/ Raise("merge_failed") /\ UNCHANGED thr
    /\ UNCHANGED <<files, ignoreFailures, trim, k, computed, byKey, results,
                   g, storm>>

(* parse_throughput_from_out_file on every .out file of the experiment   *)
(* (the local one always among them): no RunTime line marks it failed, a *)
(* RunTime of 0 raises ZeroDivisionError (here "zero_runtime").            *)
ReadOutFiles ==
    /\ pc = "outs"
    /\ \E outs \in SeqOf(OutFile, MaxOuts) \ {<< >>} :
         IF \E q \in 1 .. Len(outs) : outs[q].rt = "zero"
           THEN Raise("zero_runtime") /\ UNCHANGED <<k, results>>
           ELSE /\ results' = Append(results,
                      [exp    |-> files[k],
                       thr    |-> thr,
                       failed |-> \E q \in 1 .. Len(outs) : outs[q].rt = "none",
                       outSum |-> FoldSeq(LAMBDA o, acc : acc + o.thr, 0, outs)])
                /\ k' = k + 1
                /\ pc' = "process"
                /\ UNCHANGED err
    /\ UNCHANGED <<files, ignoreFailures, trim, computed, byKey, thr, g, storm>>

(* All files processed: the GC-storm check runs only without trimming.    *)
EndFiles ==
    /\ pc = "process"
    /\ k > Len(files)
    /\ pc' = IF trim THEN "done" ELSE "gc"
    /\ UNCHANGED <<files, ignoreFailures, trim, k, computed, byKey, thr,
                   results, g, storm, err>>

(* The deviation of the merged throughput from the .out files' sum is     *)
(* above 5%: abs(h - o) / o * 100 > 5.                                     *)
Deviates(h, o) == 100 * (IF h >= o THEN h - o ELSE o - h) > 5 * o

(* Mutation: the zero sum is tested before the missing thr, as if the     *)
(* division were evaluated before the subtraction.                         *)
GcCheckDivideFirst ==
    /\ pc = "gc"
    /\ g <= Len(results)
    /\ LET r == results[g] IN
         CASE r.failed -> g' = g + 1 /\ UNCHANGED <<pc, storm, err>>
           [] r.outSum = 0 -> Raise("zero_division") /\ UNCHANGED <<g, storm>>
           [] r.thr = None -> Raise("type_error") /\ UNCHANGED <<g, storm>>
           [] OTHER -> /\ storm' = (storm \/ Deviates(r.thr, r.outSum))
                       /\ g' = g + 1
                       /\ UNCHANGED <<pc, err>>
    /\ UNCHANGED <<files, ignoreFailures, trim, k, computed, byKey, thr, results>>

(* Mutation: gc_storm_detected = r.is_gc_storm_detected(), the last     *)
(* result overwriting the verdict of the earlier ones.                    *)
GcCheckLastWins ==
    /\ pc = "gc"
    /\ g <= Len(results)
    /\ LET r == results[g] IN
         CASE r.failed -> g' = g + 1 /\ UNCHANGED <<pc, storm, err>>
           [] r.thr = None -> Raise("type_error") /\ UNCHANGED <<g, storm>>
           [] r.outSum = 0 -> Raise("zero_division") /\ UNCHANGED <<g, storm>>
           [] OTHER -> /\ storm' = Deviates(r.thr, r.outSum)
                       /\ g' = g + 1
                       /\ UNCHANGED <<pc, err>>
    /\ UNCHANGED <<files, ignoreFailures, trim, k, computed, byKey, thr, results>>

(* is_gc_storm_detected for one result: an experiment with a failed .out *)
(* is never a storm; a missing thr fails the subtraction (TypeError) and  *)
(* a zero sum the division (ZeroDivisionError).                            *)
GcCheck ==
    /\ pc = "gc"
    /\ g <= Len(results)
    /\ LET r == results[g] IN
         CASE r.failed -> g' = g + 1 /\ UNCHANGED <<pc, storm, err>>
           [] r.thr = None -> Raise("type_error") /\ UNCHANGED <<g, storm>>
           [] r.outSum = 0 -> Raise("zero_division") /\ UNCHANGED <<g, storm>>
           [] OTHER -> /\ storm' = (storm \/ Deviates(r.thr, r.outSum))
                       /\ g' = g + 1
                       /\ UNCHANGED <<pc, err>>
    /\ UNCHANGED <<files, ignoreFailures, trim, k, computed, byKey, thr, results>>

(* After the loop: a storm raises; otherwise emit_csv writes the rows.     *)
GcEnd ==
    /\ pc = "gc"
    /\ g > Len(results)
    /\ IF storm THEN Raise("gc_storm") ELSE pc' = "done" /\ UNCHANGED err
    /\ UNCHANGED <<files, ignoreFailures, trim, k, computed, byKey, thr,
                   results, g, storm>>

Next ==
    \/ SkipComputed
    \/ GroupHdrs
    \/ Merge
    \/ ReadOutFiles
    \/ EndFiles
    \/ GcCheck
    \/ GcEnd

Spec == Init /\ [][Next]_vars

-----------------------------------------------------------------------------
(***************************************************************************)
(* Properties                                                              *)
(***************************************************************************)

(* The run stops on a GC storm exactly when trimming is off and some      *)
(* experiment whose .out files all completed has a merged throughput more *)
(* than 5% away from the sum of its .out throughputs; a run that writes   *)
(* the CSV had no such experiment or had trimming on.                      *)
GcStormVerdict ==
    LET off(h, o) == 20 * h > 21 * o \/ 20 * h < 19 * o
        storming == {q \in 1 .. Len(results) :
                       /\ ~results[q].failed
                       /\ results[q].thr # None
                       /\ results[q].outSum > 0
                       /\ off(results[q].thr, results[q].outSum)}
    IN  /\ err = "gc_storm" => ~trim /\ storming # {}
        /\ pc = "done" => trim \/ storming = {}

(* is_gc_storm_detected has no guard for a degenerate result: the GC loop *)
(* of an untrimmed run crashes at the first completed experiment whose    *)
(* merged throughput is missing (TypeError on None, even when its .out    *)
(* sum is also 0) or whose .out throughputs sum to 0 (ZeroDivisionError), *)
(* whatever storm verdict earlier results gave; and an untrimmed run      *)
(* writes the CSV only when no completed experiment is degenerate.        *)
GcCrashOnFirstDegenerate ==
    LET first == SelectInSeq(results, LAMBDA r : ~r.failed /\ (r.thr = None \/ r.outSum = 0))
    IN  /\ err \in {"type_error", "zero_division"} =>
             /\ ~trim /\ first # 0
             /\ err = IF results[first].thr = None THEN "type_error" ELSE "zero_division"
        /\ pc = "done" /\ ~trim => first = 0

(* Every experiment named on the command line, a directory and a prefix,  *)
(* gets its row in the CSV: the dedup of already computed prefixes only   *)
(* drops repeated files of the same experiment.                            *)
EveryExperimentReported ==
    pc = "done" =>
        {results[q].exp : q \in 1 .. Len(results)}
          = {files[q] : q \in 1 .. Len(files)}

=============================================================================
