---------------------------- MODULE TopicFilter ----------------------------
(***************************************************************************)
(* Topic names and topic filters (src/src/protocol.rs, section 4.7 of the  *)
(* MQTT standard), as the sequences of levels that split('/') yields.  The *)
(* characters of a level matter only as far as the code looks at them: is  *)
(* the level "#" or "+", and does it contain one of these characters.      *)
(***************************************************************************)
EXTENDS Naturals, Sequences

CONSTANTS Word,       \* levels without '#' and '+'; "" is one of them
          HashMixed,  \* levels that contain '#' and something else
          PlusMixed   \* levels that contain '+' and something else, but no '#'

ASSUME LevelAssumption ==
    /\ "" \in Word
    /\ {"#", "+"} \cap (Word \cup HashMixed \cup PlusMixed) = {}
    /\ Word \cap (HashMixed \cup PlusMixed) = {}
    /\ HashMixed \cap PlusMixed = {}

Level == Word \cup HashMixed \cup PlusMixed \cup {"#", "+"}

contains_hash(level) == level = "#" \/ level \in HashMixed
contains_plus(level) == level = "+" \/ level \in PlusMixed

\* the empty string has one, empty, level
EmptyString == <<"">>

\* Ok(()): '#' and '+' stand alone in their levels, '#' in the last one
validate_topic_filter(f) ==
    /\ f # EmptyString
    /\ \A i \in 1..Len(f) :
         IF contains_hash(f[i])
         THEN f[i] = "#" /\ i = Len(f)
         ELSE contains_plus(f[i]) => f[i] = "+"

\* Mutant of is_wildcard_filter: '+' is forgotten.
is_hash_filter(f) == \E i \in 1..Len(f) : contains_hash(f[i])

\* broker.rs: the filter contains '+' or '#'
is_wildcard_filter(f) ==
    \E i \in 1..Len(f) : contains_hash(f[i]) \/ contains_plus(f[i])

\* decode_publish accepts the topic name: not empty, no wildcard characters
valid_topic_name(t) == t # EmptyString /\ ~ is_wildcard_filter(t)

\* The meaning of a filter (section 4.7.1): "+" stands for one level, a last
\* "#" for any number of further levels, none included.  Section 4.7.2, by which
\* a filter that starts with a wildcard does not match a topic that starts with
\* '$', is not part of it: the code does not implement it, and treats '$' as any
\* other character.
LevelsMatch(t, f, n) == \A i \in 1..n : f[i] = "+" \/ f[i] = t[i]

Matches(t, f) ==
    \/ Len(t) = Len(f) /\ f[Len(f)] # "#" /\ LevelsMatch(t, f, Len(f))
    \/ Len(f) <= Len(t) + 1 /\ f[Len(f)] = "#" /\ LevelsMatch(t, f, Len(f) - 1)
=============================================================================
