---------------------------- MODULE CompareOutputs --------------------------
(***************************************************************************)
(* python_model/compare_outputs.py: reads the output of a run of the core  *)
(* and of a run of the simulator, line by line, and says whether they      *)
(* match.                                                                  *)
(*                                                                         *)
(* A line is a sequence of fields: a name and the first number after it.   *)
(* The numbers are what the regular expressions read; the register numbers *)
(* x10 and x11 and the physical register are fields too.  Left out: hex    *)
(* digits that happen to spell a0 or a1, and the list of trace lines,      *)
(* which nothing reads.                                                    *)
(***************************************************************************)
EXTENDS Integers, Sequences

CONSTANTS Cycles, Commits, Words   \* the numbers runs end with

ASSUME NumbersAssumption ==
  /\ Cycles \subseteq Nat \ {0} /\ Commits \subseteq Nat /\ Words \subseteq Nat

Outcome == [cycles : Cycles, commits : Commits, a0 : Words, a1 : Words]

Field(name, num) == [name |-> name, num |-> num]

\* "10" and "11", read as hexadecimal digits.
X10 == 16
X11 == 17

\* ooop_sim.py, __main__: a line every 1000 cycles, then the final lines.
SimProgress(r) == << <<Field("cycle", r.cycles - 1), Field("commits", r.commits)>> >>

SimFinal(r) ==
  << <<Field("cycle", r.cycles), Field("commits", r.commits)>>,
     <<Field("a0", X10), Field("value", r.a0)>>,
     <<Field("a1", X11), Field("value", r.a1)>> >>

\* core_tb.sv: progress says cyc, not cycle; P is the physical register.
RtlProgress(r) == << <<Field("cyc", r.cycles - 1), Field("commits", r.commits)>> >>

RtlFinal(r) ==
  << <<Field("cycle", r.cycles), Field("commits", r.commits)>>,
     <<Field("a0", X10), Field("P", 40), Field("value", r.a0)>>,
     <<Field("a1", X11), Field("P", 41), Field("value", r.a1)>> >>

VARIABLES
  runs,      \* history: how the two runs ended, and what they lived to print
  lines,     \* what is left to read of the first file, then of the second
  results,   \* the dictionaries of the two files
  verdict    \* "none" until compare_results

compareVars == <<runs, lines, results, verdict>>

Run == [outcome : Outcome, progress : BOOLEAN, final : BOOLEAN]

Output(run, progress(_), final(_)) ==
  (IF run.progress THEN progress(run.outcome) ELSE << >>)
    \o (IF run.final THEN final(run.outcome) ELSE << >>)

NoResults == [cycles |-> 0, commits |-> 0, a0 |-> 0, a1 |-> 0]

CompareInit ==
  /\ runs \in [{"verilog", "python"} -> Run]
  /\ lines = [verilog |-> Output(runs["verilog"], RtlProgress, RtlFinal),
              python |-> Output(runs["python"], SimProgress, SimFinal)]
  /\ results = [verilog |-> NoResults, python |-> NoResults]
  /\ verdict = "none"
-----------------------------------------------------------------------------
\* re.search of a name in a line, else what was there.
Found(line, name, default) ==
  LET hits == {k \in DOMAIN line : line[k].name = name}
  IN  IF hits = {} THEN default ELSE line[CHOOSE k \in hits : \A j \in hits : k <= j].num

\* Mutant of Parsed: the first line with a number counts, not the last.
ParsedFirst(line, r) ==
  [r EXCEPT !.cycles = IF @ = 0 THEN Found(line, "cycle", 0) ELSE @,
            !.commits = IF @ = 0 THEN Found(line, "commits", 0) ELSE @,
            !.a0 = Found(line, "a0", @), !.a1 = Found(line, "a1", @)]

\* What a line makes of the dictionary.
Parsed(line, r) ==
  [cycles |-> Found(line, "cycle", r.cycles), commits |-> Found(line, "commits", r.commits),
   a0 |-> Found(line, "a0", r.a0), a1 |-> Found(line, "a1", r.a1)]

\* parse_output, one line of a file; the second file follows the first.
ParseLine(file) ==
  /\ lines[file] # << >>
  /\ file = "python" => lines["verilog"] = << >>
  /\ results' = [results EXCEPT ![file] = Parsed(Head(lines[file]), @)]
  /\ lines' = [lines EXCEPT ![file] = Tail(@)]
  /\ UNCHANGED <<runs, verdict>>

\* Mutant of AllMatch: the last comparison decides.
AllMatchLast(v, p) == v.a1 = p.a1

\* all_match.
AllMatch(v, p) ==
  /\ v.cycles = p.cycles
  /\ v.commits = p.commits
  /\ v.a0 = p.a0
  /\ v.a1 = p.a1

\* compare_results.
Compare ==
  /\ verdict = "none"
  /\ lines["verilog"] = << >> /\ lines["python"] = << >>
  /\ verdict' = IF AllMatch(results["verilog"], results["python"])
                THEN "ALL TESTS PASSED" ELSE "MISMATCH DETECTED"
  /\ UNCHANGED <<runs, lines, results>>

CompareNext == (\E file \in {"verilog", "python"} : ParseLine(file)) \/ Compare

CompareSpec == CompareInit /\ [][CompareNext]_compareVars
-----------------------------------------------------------------------------
V == runs["verilog"].outcome
P == runs["python"].outcome

BothEnded == runs["verilog"].final /\ runs["python"].final
Passed    == verdict = "ALL TESTS PASSED"

(***************************************************************************)
(* The numbers of cycles and commits are compared as the runs ended, not   *)
(* as some line on the way there had them (parse_output, the last match    *)
(* counts).                                                                *)
(***************************************************************************)
CountsCompared ==
  Passed /\ BothEnded => V.cycles = P.cycles /\ V.commits = P.commits

(***************************************************************************)
(* Equal runs pass, although the two programs report them in different     *)
(* words.                                                                  *)
(***************************************************************************)
NoFalseAlarm == BothEnded /\ V = P => verdict # "MISMATCH DETECTED"

(***************************************************************************)
(* "ALL TESTS PASSED - Models match!" means that the final values of a0    *)
(* and a1 match (compare_outputs.py, "Compare final values").              *)
(***************************************************************************)
RegistersCompared == Passed /\ BothEnded => V.a0 = P.a0 /\ V.a1 = P.a1
=============================================================================
