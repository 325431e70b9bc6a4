-------------------------- MODULE StatusConditions --------------------------
(***************************************************************************)
(* pkg/condition: the conditions in the status of a resource.  A           *)
(* controller reads them, calls one of the functions with new conditions   *)
(* and saves the result: after AddOrUpdateStatusConditions only if that    *)
(* tells of an update.  Times are ages that stop at MaxAge; reason stands  *)
(* for reason and message.                                                 *)
(***************************************************************************)
EXTENDS SequencesExt

CONSTANTS ConditionTypes, Statuses, Reasons, MaxAge, MaxConditions

ASSUME ConditionAssumption == MaxAge \in Nat /\ "none" \notin Statuses

VARIABLES
    conditions, \* the saved conditions; since is LastTransitionTime
    reported    \* history: the status and reason last reported of a type, and since when

conditionVars == <<conditions, reported>>

NotReported == [status |-> "none", reason |-> "none", since |-> 0]

ConditionsInit ==
    /\ conditions = <<>>
    /\ reported = [t \in ConditionTypes |-> NotReported]

(* FindConditionByType: the index of the first one, 0 if there is none.    *)
FindConditionByType(conds, t) == SelectInSeq(conds, LAMBDA c : c.type = t)

SameStatus(old, new) == old.status = new.status
NothingChanged(old, new) == old.status = new.status /\ old.reason = new.reason

Now(old, new) == 0
LastTransitionTime(old, new) == IF old.status = new.status THEN old.since ELSE 0

(* addOrUpdateStatusCondition; the time of a new condition is now, 0.      *)
UpdatedCondition(conds, new, always) ==
    LET i == FindConditionByType(conds, new.type) IN
    IF i = 0 THEN [conds |-> Append(conds, new), updated |-> TRUE]
    ELSE IF ~always /\ NothingChanged(conds[i], new) THEN [conds |-> conds, updated |-> FALSE]
    ELSE [conds |-> ReplaceAt(conds, i,
                        [new EXCEPT !.since = LastTransitionTime(conds[i], new)]),
          updated |-> TRUE]

LastUpdated(soFar, updated) == updated
AtLeastOneUpdated(soFar, updated) == soFar \/ updated

(* addOrUpdateStatusConditions: one turn of its loop, and two.             *)
UpdatedNext(sofar, new, always) ==
    LET res == UpdatedCondition(sofar.conds, new, always)
    IN  [conds |-> res.conds, updated |-> AtLeastOneUpdated(sofar.updated, res.updated)]
UpdatedConditions(conds, c, d, always) ==
    UpdatedNext(UpdatedNext([conds |-> conds, updated |-> FALSE], c, always), d, always)

(* What is known of the types after new was reported.                      *)
Reported(old, new) ==
    [status |-> new.status, reason |-> new.reason,
     since |-> IF old.status = new.status THEN old.since ELSE new.since]
WithReport(rep, new) == [rep EXCEPT ![new.type] = Reported(@, new)]

(* AddOrUpdateStatusConditions; AddOrUpdateStatusConditionsWithLast-       *)
(* UpdatedTimestamp.                                                       *)
AddOrUpdateStatusConditions(c, d) ==
    LET res == UpdatedConditions(conditions, c, d, FALSE) IN
    /\ conditions' = IF res.updated THEN res.conds ELSE conditions
    /\ reported' = WithReport(WithReport(reported, c), d)

AddOrUpdateWithTimestamp(c, d) ==
    /\ conditions' = UpdatedConditions(conditions, c, d, TRUE).conds
    /\ reported' = WithReport(WithReport(reported, c), d)

(* AddStatusConditions, which does not look for conditions of the type and *)
(* keeps a LastTransitionTime that the caller has set.                     *)
AddStatusConditions(new) ==
    /\ conditions' = Append(conditions, new)
    /\ IF FindConditionByType(conditions, new.type) = 0
       THEN reported' = WithReport(reported, new) ELSE UNCHANGED reported

Aged(age) == IF age = MaxAge THEN age ELSE age + 1
ConditionsTick ==
    /\ conditions' = [i \in DOMAIN conditions |-> [conditions[i] EXCEPT !.since = Aged(@)]]
    /\ reported' = [t \in ConditionTypes |-> [reported[t] EXCEPT !.since = Aged(@)]]

ConditionsNext ==
    LET new == [type : ConditionTypes, status : Statuses, reason : Reasons, since : {0}] IN
    \/ /\ Len(conditions) < MaxConditions
       /\ \E c \in new, age \in 0 .. MaxAge : AddStatusConditions([c EXCEPT !.since = age])
    \/ \E c, d \in new : AddOrUpdateStatusConditions(c, d)
    \/ \E c, d \in new : AddOrUpdateWithTimestamp(c, d)
    \/ ConditionsTick

ConditionsSpec == ConditionsInit /\ [][ConditionsNext]_conditionVars

(***************************************************************************)
(* Properties.                                                             *)
(***************************************************************************)

(* FindConditionByType answers with what was reported last of the type:    *)
(* the flag that decides on saving misses no change, of whichever of the   *)
(* new conditions, and conditions that AddStatusConditions appends again   *)
(* neither hide the first nor are updated in its place.                    *)
StatusAsReported ==
    \A t \in ConditionTypes :
        LET i == FindConditionByType(conditions, t) IN
        IF i = 0 THEN reported[t].status = NotReported.status
        ELSE /\ conditions[i].status = reported[t].status
             /\ conditions[i].reason = reported[t].reason

(* LastTransitionTime is when the status changed last, over any number of  *)
(* reports with other reasons in between.                                  *)
TransitionTimeOfStatus ==
    \A t \in ConditionTypes :
        LET i == FindConditionByType(conditions, t)
        IN  i # 0 => conditions[i].since = reported[t].since
=============================================================================
