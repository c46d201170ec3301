------------------------------ MODULE Timetable ------------------------------
(***************************************************************************)
(* schedule/timetable.py: named entries, each a trigger and a calendar,    *)
(* changed at will and asked what fires when.                              *)
(*                                                                         *)
(* upcoming and between are the same loop with a different bound, taken    *)
(* one fire at a time: the earliest of the pending moments, then the       *)
(* chosen entry's next one.                                                *)
(***************************************************************************)
EXTENDS Cron

CONSTANTS
  Names,
  Triggers,     \* what an entry may be given
  Calendars,
  Queries,      \* [after |-> .., end |-> .. or NoMoment, count |-> ..]
  SkipLimit     \* _SKIP_LIMIT

\* A cron trigger is built from a text that the parser accepts
ASSUME CronAssumption ==
  \A trigger \in Triggers : trigger.kind = "cron" =>
    /\ trigger.text \in Texts /\ CronAccepted(trigger.text)
    /\ trigger.cron = ParseCron(trigger.text)

ASSUME TriggerAssumption ==
  \A trigger \in Triggers :
    \/ /\ trigger.kind = "interval"
       /\ trigger.every \in Nat \ {0} /\ trigger.anchor \in Nat
       /\ trigger.limit \in Nat \cup {NoMoment}
    \/ trigger.kind = "once" /\ trigger.at \in Nat
    \/ trigger.kind \in {"cron", "never"}

ASSUME CalendarAssumption == \A calendar \in Calendars : calendar.windows \subseteq Windows

ASSUME QueryAssumption ==
  /\ Queries \subseteq [after : Nat, end : Nat \cup {NoMoment}, count : Nat]
  /\ SkipLimit \in Nat \ {0}

VARIABLES
  entries,      \* _entries, in the order of declaration
  phase,        \* "idle", "merging", "answered" or "raised"
  query,        \* the call that is being answered, NoMoment if none is
  pending,      \* the next start of each entry that has one, by position
  fires         \* what has been collected

vars == <<entries, phase, query, pending, fires>>

Positions == DOMAIN entries
NamesOf == {entries[p].name : p \in Positions}
PositionOf(name) == CHOOSE p \in Positions : entries[p].name = name

Init ==
  /\ entries = <<>> /\ phase = "idle" /\ query = NoMoment
  /\ pending = <<>> /\ fires = <<>>

-------------------------------------------------------------------------------
(* When one entry starts a run                                               *)

\* IntervalTrigger.next_after
IntervalAfter(trigger, t) ==
  LET index == IF t < trigger.anchor THEN 0 ELSE ((t - trigger.anchor) \div trigger.every) + 1
  IN  IF trigger.limit # NoMoment /\ index >= trigger.limit
        THEN NoMoment ELSE trigger.anchor + index * trigger.every

TriggerAfter(trigger, t) ==
  CASE trigger.kind = "interval" -> IntervalAfter(trigger, t)
    [] trigger.kind = "once"     -> IF t < trigger.at THEN trigger.at ELSE NoMoment
    [] trigger.kind = "cron"     -> CronAfter(trigger.cron, t)
    [] trigger.kind = "never"    -> NoMoment

\* ScheduleEntry.next_after
NextStart(entry, t) ==
  LET search[state \in (0 .. SkipLimit) \X Nat] ==
        LET candidate == TriggerAfter(entry.trigger, state[2])
        IN  IF state[1] = 0 THEN Broken
            ELSE IF candidate = NoMoment THEN NoMoment
            ELSE IF IsOpen(entry.calendar, candidate) THEN candidate
            ELSE IF entry.deferring THEN Align(entry.calendar, candidate)
            ELSE search[<<state[1] - 1, candidate>>]
  IN  IF entry.enabled THEN search[<<SkipLimit, t>>] ELSE NoMoment

\* The entry with the earliest moment, of several the one declared first
Earliest(moments) ==
  CHOOSE p \in DOMAIN moments : \A q \in DOMAIN moments \ {p} :
    moments[p] < moments[q] \/ (moments[p] = moments[q] /\ p < q)

\* An entry that has no moment up to the end is not pending
Pending(moments, end) ==
  Restrict(moments, {p \in DOMAIN moments :
                       moments[p] # NoMoment /\ (end = NoMoment \/ moments[p] <= end)})

Starts(t) == [p \in Positions |-> NextStart(entries[p], t)]

Fire(p, t) == [at |-> t, name |-> entries[p].name]

\* next_fire, when no entry raises
NextFire(t) ==
  LET starts == Pending(Starts(t), NoMoment)
  IN  IF DOMAIN starts = {} THEN NoMoment ELSE Fire(Earliest(starts), starts[Earliest(starts)])

-------------------------------------------------------------------------------
(* Changes                                                                   *)

AddEntry(name, trigger, calendar, deferring) ==
  /\ phase = "idle" /\ name \notin NamesOf
  /\ entries' = Append(entries, [name |-> name, trigger |-> trigger, calendar |-> calendar,
                                 deferring |-> deferring, enabled |-> TRUE])
  /\ UNCHANGED <<phase, query, pending, fires>>

Remove(name) ==
  /\ phase = "idle" /\ name \in NamesOf
  /\ LET p == PositionOf(name)
     IN  entries' = SubSeq(entries, 1, p - 1) \o SubSeq(entries, p + 1, Len(entries))
  /\ UNCHANGED <<phase, query, pending, fires>>

Enable(name, enabled) ==
  /\ phase = "idle" /\ name \in NamesOf
  /\ entries' = [p \in Positions |->
                   IF entries[p].name = name THEN [entries[p] EXCEPT !.enabled = enabled]
                                             ELSE entries[p]]
  /\ UNCHANGED <<phase, query, pending, fires>>

-------------------------------------------------------------------------------
(* upcoming and between                                                      *)

Ask(q) ==
  LET raises == \E p \in Positions : Starts(q.after)[p] = Broken
  IN  /\ phase = "idle"
      /\ query' = q
      /\ phase' = IF raises THEN "raised" ELSE "merging"
      /\ pending' = IF raises THEN <<>> ELSE Pending(Starts(q.after), q.end)
      /\ UNCHANGED <<entries, fires>>

TakeFire ==
  LET p == Earliest(pending)
      following == NextStart(entries[p], pending[p])
  IN  /\ phase = "merging" /\ DOMAIN pending # {} /\ Len(fires) < query.count
      /\ fires' = Append(fires, Fire(p, pending[p]))
      /\ phase' = IF following = Broken THEN "raised" ELSE "merging"
      /\ pending' = IF following = Broken THEN <<>>
                    ELSE Pending([pending EXCEPT ![p] = following], query.end)
      /\ UNCHANGED <<entries, query>>

Answer ==
  /\ phase = "merging" /\ (DOMAIN pending = {} \/ Len(fires) = query.count)
  /\ phase' = "answered"
  /\ UNCHANGED <<entries, query, pending, fires>>

\* The caller has its list, or the exception
Return ==
  /\ phase \in {"answered", "raised"}
  /\ phase' = "idle" /\ query' = NoMoment /\ pending' = <<>> /\ fires' = <<>>
  /\ UNCHANGED entries

Next ==
  \/ \E name \in Names, trigger \in Triggers, calendar \in Calendars, deferring \in BOOLEAN :
       AddEntry(name, trigger, calendar, deferring)
  \/ \E name \in Names : Remove(name)
  \/ \E name \in Names, enabled \in BOOLEAN : Enable(name, enabled)
  \/ \E q \in Queries : Ask(q)
  \/ TakeFire \/ Answer \/ Return

Spec == Init /\ [][Next]_vars
===============================================================================
