----------------------------- MODULE TopicMatch -----------------------------
(***************************************************************************)
(* topic_matches_filter (src/src/protocol.rs): the loop over the levels of *)
(* a filter and of a topic, one iteration per step.  It is started with a  *)
(* topic decode_publish accepted and a filter validate_topic_filter        *)
(* accepted, as run_broker does.                                           *)
(***************************************************************************)
EXTENDS TopicFilter

CONSTANT MaxLevels    \* bound on the number of levels

ASSUME MaxLevelsAssumption == MaxLevels \in Nat

VARIABLES topic, filter, ti, fi, result

vars == <<topic, filter, ti, fi, result>>

LevelSeqs(S) == UNION {[1..n -> S] : n \in 1..MaxLevels}

\* Every variable has its type; the two indices move together and never pass
\* the end of either sequence.
TypeOK ==
    /\ topic \in LevelSeqs(Level)
    /\ filter \in LevelSeqs(Level)
    /\ ti \in 0..Len(topic)
    /\ fi \in 0..Len(filter)
    /\ ti = fi
    /\ result \in {"none", "true", "false"}

Init ==
    /\ topic \in {t \in LevelSeqs(Level) : valid_topic_name(t)}
    /\ filter \in {f \in LevelSeqs(Level) : validate_topic_filter(f)}
    /\ ti = 0
    /\ fi = 0
    /\ result = "none"

Return(r) == result' = r /\ UNCHANGED <<topic, filter, ti, fi>>

\* filter_levels[fi], in the loop
flevel == filter[fi + 1]

InLoop == result = "none" /\ fi < Len(filter)

\* Mutant of HashLevel: '#' needs a level of its own in the topic.
HashLevelNotParent ==
    /\ InLoop
    /\ flevel = "#"
    /\ Return(IF ti < Len(topic) THEN "true" ELSE "false")

HashLevel ==
    /\ InLoop
    /\ flevel = "#"
    /\ Return("true")

TopicTooShort ==
    /\ InLoop
    /\ flevel # "#"
    /\ ti >= Len(topic)
    /\ Return("false")

Mismatch ==
    /\ InLoop
    /\ flevel # "#"
    /\ ti < Len(topic)
    /\ flevel # "+"
    /\ flevel # topic[ti + 1]
    /\ Return("false")

\* Mutant of Advance: fi moves on, ti does not.
AdvanceFilterOnly ==
    /\ InLoop
    /\ flevel # "#"
    /\ ti < Len(topic)
    /\ flevel = "+" \/ flevel = topic[ti + 1]
    /\ fi' = fi + 1
    /\ UNCHANGED <<topic, filter, ti, result>>

\* Mutant of Advance: a "+" level continues the loop before the increments.
AdvanceNotPastPlus ==
    /\ InLoop
    /\ flevel # "#"
    /\ ti < Len(topic)
    /\ flevel = "+" \/ flevel = topic[ti + 1]
    /\ ti' = IF flevel = "+" THEN ti ELSE ti + 1
    /\ fi' = IF flevel = "+" THEN fi ELSE fi + 1
    /\ UNCHANGED <<topic, filter, result>>

Advance ==
    /\ InLoop
    /\ flevel # "#"
    /\ ti < Len(topic)
    /\ flevel = "+" \/ flevel = topic[ti + 1]
    /\ ti' = ti + 1
    /\ fi' = fi + 1
    /\ UNCHANGED <<topic, filter, result>>

\* the loop is over: a match if no level of the topic is left
Finish ==
    /\ result = "none"
    /\ fi = Len(filter)
    /\ Return(IF ti = Len(topic) THEN "true" ELSE "false")

Next == HashLevel \/ TopicTooShort \/ Mismatch \/ Advance \/ Finish

Spec == Init /\ [][Next]_vars

FairSpec == Spec /\ WF_vars(Next)

-----------------------------------------------------------------------------
(* Properties *)

\* The loop computes the matching relation of section 4.7.1 of the standard
\* (without the '$' rule of 4.7.2), for every topic name and every filter the
\* decoder lets through ("sport/#" and "sport", empty levels and a filter longer
\* or shorter than the topic included).
ComputesMatches ==
    result # "none" => (result = "true" <=> Matches(topic, filter))

\* run_broker uses the loop only for wildcard filters and plain equality
\* otherwise.  Both passes together deliver exactly what section 4.7.1 asks: on
\* a filter without '+' and '#' equality is the matching relation, and
\* is_wildcard_filter never sends a filter with a wildcard to the exact pass.
PassesAgree ==
    result # "none" =>
        ((IF is_wildcard_filter(filter) THEN result = "true" ELSE topic = filter)
            <=> Matches(topic, filter))

\* The loop ends on every input: "an adversarial input with a huge number of
\* '/' characters" costs iterations, not a hang.
Terminates == <>(result # "none")
=============================================================================
