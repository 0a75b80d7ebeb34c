----------------------------- MODULE LevelsTable -----------------------------
(***************************************************************************)
(* The "SSTables in each level" page of plot_cachestat.py:                 *)
(* add_tablestats_levels_table over the frames parse_tablestats_file      *)
(* returned, with _format_levels_trim_zeros.  A frame row is a sample:    *)
(* its header timestamp (whole seconds) and its levels string, here the   *)
(* sequence of its comma-separated parts, each a zero ("0", "0.0"), a     *)
(* non-zero count, or an "X/Y" ratio.  elapsed is the timestamp less the  *)
(* frame's first timestamp (iloc[0], in log order).  A cell is the        *)
(* sequence of parts it prints; "" is << >>.                               *)
(***************************************************************************)
EXTENDS Integers, Sequences, SequencesExt, FiniteSets

CONSTANTS
    MaxExps,    \* most experiments (tablestats files) checked
    MaxRows,    \* most samples of one file
    Stamps,     \* header timestamps, in seconds
    Levels      \* the levels strings a sample may carry

ASSUME Stamps \subseteq Nat

Sample(ts, lv) == [ts |-> ts, levels |-> lv]

Frames == SeqOf({Sample(ts, lv) : ts \in Stamps, lv \in Levels}, MaxRows)

(* _is_zero: a part without "/" whose float value is 0.                   *)
IsZero(p) == p = "zero"

(* Mutation: "if" for "while": only the last zero part is dropped.      *)
TrimOneZero(s) == IF s # << >> /\ IsZero(Last(s)) THEN Front(s) ELSE s

(* _format_levels_trim_zeros: drop trailing zero parts, keep the rest.   *)
RECURSIVE TrimZeros(_)
TrimZeros(s) == IF s # << >> /\ IsZero(Last(s)) THEN TrimZeros(Front(s)) ELSE s

(* df["elapsed"]: seconds since the frame's first sample.                 *)
Elapsed(f, q) == f[q].ts - f[1].ts

VARIABLES
    data,       \* tablestats_data, in insertion order
    k,          \* position of the loop over the files
    maps,       \* per_exp_maps: file -> (elapsed_int -> cell)
    allElapsed, \* all_elapsed
    pc,         \* "loop", "done"
    table       \* the rows: [t, cells], cells in file order

vars == <<data, k, maps, allElapsed, pc, table>>

Init ==
    /\ data \in SeqOf(Frames, MaxExps)
    /\ k = 1
    /\ maps = [q \in 1 .. Len(data) |-> << >>]
    /\ allElapsed = {}
    /\ pc = "loop"
    /\ table = << >>

(* One file: an empty frame is skipped.  The samples are sorted by        *)
(* timestamp (not stably: of samples in the same second any may come     *)
(* last), drop_duplicates(keep="last") keeps one sample per second, and  *)
(* each kept levels string is trimmed.                                     *)
AddExperiment ==
    /\ pc = "loop"
    /\ k <= Len(data)
    /\ LET f == data[k]
           E == {Elapsed(f, q) : q \in 1 .. Len(f)}
       IN  \E last \in [E -> 1 .. Len(f)] :
              /\ \A e \in E : Elapsed(f, last[e]) = e
              /\ maps' = [maps EXCEPT ![k] = [e \in E |-> TrimZeros(f[last[e]].levels)]]
              /\ allElapsed' = allElapsed \cup E
    /\ k' = k + 1
    /\ UNCHANGED <<data, pc, table>>

(* per_exp_maps.get(key, {}).get(t, "")                                   *)
CellOf(q, t) == IF t \in DOMAIN maps[q] THEN maps[q][t] ELSE << >>

(* After the loop: no page when no file has a sample; otherwise one row  *)
(* per second of sorted(all_elapsed) with a cell per file.                *)
Finish ==
    /\ pc = "loop"
    /\ k > Len(data)
    /\ table' = IF allElapsed = {} THEN << >>
                ELSE [r \in 1 .. Cardinality(allElapsed) |->
                        LET t == CHOOSE x \in allElapsed :
                                   Cardinality({y \in allElapsed : y < x}) = r - 1
                        IN  [t |-> t, cells |-> [q \in 1 .. Len(data) |-> CellOf(q, t)]]]
    /\ pc' = "done"
    /\ UNCHANGED <<data, k, maps, allElapsed>>

Next == AddExperiment \/ Finish

Spec == Init /\ [][Next]_vars

-----------------------------------------------------------------------------
(***************************************************************************)
(* Properties                                                              *)
(***************************************************************************)

(* The levels string with its trailing zero parts removed, stated without *)
(* a loop: the shortest prefix after which only zero parts follow.       *)
Trimmed(s) ==
    LET ok(n) == \A q \in n + 1 .. Len(s) : IsZero(s[q])
        n == CHOOSE n \in 0 .. Len(s) : ok(n) /\ \A m \in 0 .. n - 1 : ~ok(m)
    IN  SubSeq(s, 1, n)

(* The page: one row per second at which some file has a sample, seconds *)
(* ascending; a file's cell in a row is the trimmed levels string of one *)
(* of its samples taken at that second, and blank when it has none.      *)
LevelsCellsAreSamples ==
    LET secs == UNION {{Elapsed(data[q], r) : r \in 1 .. Len(data[q])} : q \in 1 .. Len(data)}
    IN  pc = "done" =>
          /\ {table[r].t : r \in 1 .. Len(table)} = secs
          /\ \A r \in 1 .. Len(table) - 1 : table[r].t < table[r + 1].t
          /\ \A r \in 1 .. Len(table), q \in 1 .. Len(data) :
               LET f == data[q]
                   at == {x \in 1 .. Len(f) : Elapsed(f, x) = table[r].t}
               IN  IF at = {} THEN table[r].cells[q] = << >>
                   ELSE \E x \in at : table[r].cells[q] = Trimmed(f[x].levels)

=============================================================================
