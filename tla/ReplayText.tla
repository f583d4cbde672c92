----------------------------- MODULE ReplayText -----------------------------
(***************************************************************************)
(* The text of a replay trace: src/src/parsed_replay_trace.rs, with the    *)
(* conversions of src/src/replay_trace.rs and the string pool they use.    *)
(*                                                                         *)
(* A text is a sequence of tokens: separators, numbers and strings.  A     *)
(* name or position is one token: it holds none of the separators, which   *)
(* the code does not escape.                                               *)
(***************************************************************************)
EXTENDS SequencesExt

CONSTANT MaxNumber  \* bound: the largest number that parses

(* StringPool: intern gives a string that it does not know yet the next   *)
(* index, from 1; iter_ordered gives back the strings in that order.       *)
Interned(strings) ==
  LET new == SelectSeq([i \in DOMAIN strings |-> i],
                       LAMBDA i : \A j \in 1..(i - 1) : strings[j] # strings[i])
  IN [k \in DOMAIN new |-> strings[new[k]]]

Index(pool, s) == SelectInSeq(pool, LAMBDA other : other = s)

(* A BTreeSet, as it is iterated: its elements by their ids. *)
Ascending(set, Id(_)) ==
  LET ids == {Id(x) : x \in set}
      At(id) == CHOOSE x \in set : Id(x) = id
      sorted == SelectSeq([n \in 1..MaxNumber |-> n], LAMBDA n : n \in ids)
  IN [i \in DOMAIN sorted |-> At(sorted[i])]

(* The strings of a step, in the order in which to_parsed interns them.    *)
StringsOf(step) ==
  FlattenSeq([i \in DOMAIN step.ready_tasks |->
                << step.ready_tasks[i].name, step.ready_tasks[i].position >>])

MapSteps(steps, Task(_)) ==
  [i \in DOMAIN steps |->
     [ready_tasks |-> [j \in DOMAIN steps[i].ready_tasks |-> Task(steps[i].ready_tasks[j])],
      resumed_tasks |-> steps[i].resumed_tasks]]

(* AttachedReplayTrace::from_trace.  A decision is given with the sets of  *)
(* its ready tasks and of the stable ids it resumed; both come in the      *)
(* order of the ids.                                                       *)
FromTrace(decisions) ==
  [i \in DOMAIN decisions |->
     [ready_tasks |-> Ascending(decisions[i].ready, LAMBDA t : t.id),
      resumed_tasks |-> Ascending(decisions[i].resumed, LAMBDA id : id)]]

(* AttachedReplayTrace::to_parsed: strings become indexes into a new pool. *)
ToParsed(steps) ==
  LET strings == Interned(FlattenSeq([i \in DOMAIN steps |-> StringsOf(steps[i])]))
  IN [strings |-> strings,
      steps |-> MapSteps(steps, LAMBDA t :
                  [id |-> t.id, name |-> Index(strings, t.name),
                   position |-> Index(strings, t.position)])]

(* Mutant: name and position change places. *)
FromParsedSwapped(parsed) ==
  MapSteps(parsed.steps, LAMBDA t :
    [id |-> t.id, name |-> parsed.strings[t.position],
     position |-> parsed.strings[t.name]])

(* AttachedReplayTrace::from_parsed.  Interning the strings in the pool of *)
(* the new scheduler makes equal strings equal indexes, so here they stay. *)
FromParsed(parsed) ==
  MapSteps(parsed.steps, LAMBDA t :
    [id |-> t.id, name |-> parsed.strings[t.name],
     position |-> parsed.strings[t.position]])

-----------------------------------------------------------------------------
(* Display of ReplayTrace.  *)
Join(pieces, separator) ==
  FlattenSeq([i \in DOMAIN pieces |->
                IF i = 1 THEN pieces[i] ELSE <<separator>> \o pieces[i]])

FormatTask(task) ==
  << ToString(task.id), "-", ToString(task.name), "-", ToString(task.position) >>

FormatStep(step) ==
  Join([i \in DOMAIN step.ready_tasks |-> FormatTask(step.ready_tasks[i])], ",")
    \o <<"/">>
    \o Join([i \in DOMAIN step.resumed_tasks |-> <<ToString(step.resumed_tasks[i])>>], ",")

Format(replay) ==
  Join([i \in DOMAIN replay.steps |-> FormatStep(replay.steps[i])], ";")
    \o <<"#">>
    \o Join([i \in DOMAIN replay.strings |-> <<replay.strings[i]>>], ",")

-----------------------------------------------------------------------------
(* FromStr of ReplayTrace.  Like str::split, Split gives one empty piece   *)
(* for an empty text.                                                      *)
Split(text, separator) ==
  LET ends == SelectSeq([i \in 1..(Len(text) + 1) |-> i],
                        LAMBDA i : i = Len(text) + 1 \/ text[i] = separator)
  IN [k \in DOMAIN ends |->
        SubSeq(text, IF k = 1 THEN 1 ELSE ends[k - 1] + 1, ends[k] - 1)]

First(text, separator) == SelectInSeq(text, LAMBDA token : token = separator)
Before(text, separator) == SubSeq(text, 1, First(text, separator) - 1)
After(text, separator) == SubSeq(text, First(text, separator) + 1, Len(text))

IsNumber(piece) == Len(piece) = 1 /\ \E n \in 1..MaxNumber : ToString(n) = piece[1]
Number(piece) == CHOOSE n \in 1..MaxNumber : ToString(n) = piece[1]

TaskParses(piece) ==
  LET fields == Split(piece, "-")
  IN Len(fields) = 3 /\ \A i \in 1..3 : IsNumber(fields[i])

ParseTask(piece) ==
  LET fields == Split(piece, "-")
  IN [id |-> Number(fields[1]), name |-> Number(fields[2]), position |-> Number(fields[3])]

StepParses(piece) ==
  /\ Contains(piece, "/")
  /\ \A task \in Range(Split(Before(piece, "/"), ",")) : TaskParses(task)
  /\ \A id \in Range(Split(After(piece, "/"), ",")) : IsNumber(id)

ParseStep(piece) ==
  LET ready == Split(Before(piece, "/"), ",")
      resumed == Split(After(piece, "/"), ",")
  IN [ready_tasks |-> [i \in DOMAIN ready |-> ParseTask(ready[i])],
      resumed_tasks |-> [i \in DOMAIN resumed |-> Number(resumed[i])]]

Parses(text) ==
  /\ Contains(text, "#")
  /\ \A step \in Range(Split(Before(text, "#"), ";")) : StepParses(step)

Parse(text) ==
  LET steps == Split(Before(text, "#"), ";")
      strings == Split(After(text, "#"), ",")
  IN [strings |-> [i \in DOMAIN strings |-> IF strings[i] = <<>> THEN "" ELSE strings[i][1]],
      steps |-> [i \in DOMAIN steps |-> ParseStep(steps[i])]]
=============================================================================
