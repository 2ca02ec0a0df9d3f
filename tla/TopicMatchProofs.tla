-------------------------- MODULE TopicMatchProofs --------------------------
(***************************************************************************)
(* topic_matches_filter is correct for topics and filters of any length    *)
(* over any alphabet of levels.                                            *)
(***************************************************************************)
EXTENDS TopicMatch, TLAPS

\* Strings and positions: what the loop has gone through matched, and a result
\* already given is the right one.
Valid ==
    /\ valid_topic_name(topic)
    /\ validate_topic_filter(filter)

Scanned ==
    \A i \in 1..fi : filter[i] # "#" /\ (filter[i] = "+" \/ filter[i] = topic[i])

MInv == TypeOK /\ Valid /\ Scanned /\ ComputesMatches

LEMMA LevelSeqsShape ==
    ASSUME NEW S, NEW x \in LevelSeqs(S)
    PROVE  /\ Len(x) \in Nat \ {0}
           /\ x \in [1..Len(x) -> S]
<1>1. PICK n \in 1..MaxLevels : x \in [1..n -> S]
  BY DEF LevelSeqs
<1>2. n \in Nat \ {0}
  BY MaxLevelsAssumption
<1>3. x \in Seq(S) /\ Len(x) = n
  BY <1>1, <1>2
<1> QED
  BY <1>1, <1>2, <1>3

\* In a filter that validation accepted, "#" is the last level or nowhere.
LEMMA HashIsLast ==
    ASSUME NEW f, validate_topic_filter(f), NEW i \in 1..Len(f), f[i] = "#"
    PROVE  i = Len(f)
BY DEF validate_topic_filter, contains_hash

LEMMA MInit == Init => MInv
<1> SUFFICES ASSUME Init PROVE MInv
  OBVIOUS
<1>1. TypeOK
  <2>1. Len(topic) \in Nat /\ Len(filter) \in Nat
    BY LevelSeqsShape DEF Init
  <2> QED
    BY <2>1 DEF Init, TypeOK
<1>2. Valid /\ Scanned /\ ComputesMatches
  BY DEF Init, Valid, Scanned, ComputesMatches
<1> QED
  BY <1>1, <1>2 DEF MInv

LEMMA MNext == MInv /\ [Next]_vars => MInv'
<1> SUFFICES ASSUME MInv, [Next]_vars PROVE MInv'
  OBVIOUS
<1>0. /\ Len(topic) \in Nat \ {0} /\ Len(filter) \in Nat \ {0}
      /\ ti \in Nat /\ ti = fi /\ ti <= Len(topic) /\ fi <= Len(filter)
  BY LevelSeqsShape DEF MInv, TypeOK
<1>1. ASSUME NEW r \in {"true", "false"}, Return(r),
             r = "true" <=> Matches(topic, filter)
      PROVE  MInv'
  <2>1. TypeOK'
    BY <1>1 DEF Return, MInv, TypeOK
  <2>2. Valid' /\ Scanned'
    BY <1>1 DEF Return, MInv, Valid, Scanned
  <2>3. Matches(topic, filter)' <=> Matches(topic, filter)
    BY <1>1 DEF Return, Matches, LevelsMatch
  <2>4. ComputesMatches'
    BY <1>1, <2>3 DEF Return, ComputesMatches
  <2> QED
    BY <2>1, <2>2, <2>4 DEF MInv
<1>2. CASE HashLevel
  <2>1. fi + 1 = Len(filter)
    BY <1>0, <1>2, HashIsLast DEF HashLevel, InLoop, flevel, MInv, Valid
  <2>2. filter[Len(filter)] = "#"
    BY <1>2, <2>1 DEF HashLevel, flevel
  <2>3. LevelsMatch(topic, filter, Len(filter) - 1)
    BY <1>0, <2>1 DEF LevelsMatch, MInv, Scanned
  <2>4. Matches(topic, filter)
    BY <1>0, <2>1, <2>2, <2>3 DEF Matches
  <2> QED
    BY <1>1, <1>2, <2>4 DEF HashLevel
<1>3. CASE TopicTooShort
  <2>1. /\ ti = Len(topic) /\ fi < Len(filter) /\ filter[fi + 1] # "#"
    BY <1>0, <1>3 DEF TopicTooShort, InLoop, flevel
  <2>2. ~Matches(topic, filter)
    BY <1>0, <2>1 DEF Matches
  <2> QED
    BY <1>1, <1>3, <2>2 DEF TopicTooShort
<1>4. CASE Mismatch
  <2>1. /\ fi < Len(filter) /\ filter[fi + 1] # "#" /\ filter[fi + 1] # "+"
        /\ filter[fi + 1] # topic[fi + 1]
    BY <1>0, <1>4 DEF Mismatch, InLoop, flevel
  <2>2. fi + 1 \in 1..Len(filter)
    BY <1>0, <2>1
  <2>3. ~LevelsMatch(topic, filter, Len(filter))
    BY <2>1, <2>2 DEF LevelsMatch
  <2>4. filter[Len(filter)] = "#" => fi + 1 \in 1..(Len(filter) - 1)
    BY <1>0, <2>1
  <2>5. filter[Len(filter)] = "#" => ~LevelsMatch(topic, filter, Len(filter) - 1)
    BY <2>1, <2>4 DEF LevelsMatch
  <2>6. ~Matches(topic, filter)
    BY <2>3, <2>5 DEF Matches
  <2> QED
    BY <1>1, <1>4, <2>6 DEF Mismatch
<1>5. CASE Advance
  <2>0. /\ ti' = ti + 1 /\ fi' = fi + 1
        /\ UNCHANGED <<topic, filter, result>>
        /\ result = "none" /\ fi < Len(filter) /\ ti < Len(topic)
        /\ filter[fi + 1] # "#"
        /\ filter[fi + 1] = "+" \/ filter[fi + 1] = topic[fi + 1]
    BY <1>0, <1>5 DEF Advance, InLoop, flevel
  <2>1. TypeOK'
    BY <1>0, <2>0 DEF MInv, TypeOK
  <2>2. Valid' /\ ComputesMatches'
    BY <2>0 DEF MInv, Valid, ComputesMatches
  <2>3. Scanned'
    <3> SUFFICES ASSUME NEW i \in 1..(fi + 1)
                 PROVE  filter[i] # "#" /\ (filter[i] = "+" \/ filter[i] = topic[i])
      BY <2>0 DEF Scanned
    <3>1. i = fi + 1 \/ i \in 1..fi
      BY <1>0
    <3> QED
      BY <3>1, <2>0 DEF MInv, Scanned
  <2> QED
    BY <2>1, <2>2, <2>3 DEF MInv
<1>6. CASE Finish
  <2>0. fi = Len(filter) /\ filter[Len(filter)] # "#"
    BY <1>0, <1>6 DEF Finish, MInv, Scanned
  <2>1. LevelsMatch(topic, filter, Len(filter))
    BY <2>0 DEF LevelsMatch, MInv, Scanned
  <2>2. Matches(topic, filter) <=> ti = Len(topic)
    BY <1>0, <2>0, <2>1 DEF Matches
  <2> QED
    BY <1>1, <1>6, <2>2 DEF Finish
<1>7. CASE UNCHANGED vars
  <2>1. TypeOK' /\ Valid' /\ Scanned'
    BY <1>7 DEF vars, MInv, TypeOK, Valid, Scanned
  <2>2. ComputesMatches'
    BY <1>7 DEF vars, MInv, ComputesMatches, Matches, LevelsMatch
  <2> QED
    BY <2>1, <2>2 DEF MInv
<1> QED
  BY <1>2, <1>3, <1>4, <1>5, <1>6, <1>7 DEF Next

LEMMA MInvariant == Spec => []MInv
BY MInit, MNext, PTL DEF Spec

\* topic_levels[ti] and filter_levels[fi] are never indexed out of bounds, and
\* the two indices never drift apart.
THEOREM MatchTypeOK == Spec => []TypeOK
<1>1. MInv => TypeOK
  BY DEF MInv
<1> QED
  BY <1>1, MInvariant, PTL

\* The result of topic_matches_filter is the matching relation of section
\* 4.7.1 of the standard.
THEOREM MatchCorrect == Spec => []ComputesMatches
<1>1. MInv => ComputesMatches
  BY DEF MInv
<1> QED
  BY <1>1, MInvariant, PTL

\* A filter without wildcard characters matches exactly the equal topic.
LEMMA ExactIsEquality ==
    ASSUME MInv, ~is_wildcard_filter(filter)
    PROVE  Matches(topic, filter) <=> topic = filter
<1>0. /\ Len(topic) \in Nat \ {0} /\ Len(filter) \in Nat \ {0}
      /\ topic \in [1..Len(topic) -> Level] /\ filter \in [1..Len(filter) -> Level]
  BY LevelSeqsShape DEF MInv, TypeOK
<1>1. \A i \in 1..Len(filter) : filter[i] # "#" /\ filter[i] # "+"
  BY DEF is_wildcard_filter, contains_hash, contains_plus
<1>2. filter[Len(filter)] # "#"
  BY <1>0, <1>1
<1>3. ASSUME Matches(topic, filter) PROVE topic = filter
  <2>1. /\ Len(topic) = Len(filter)
        /\ \A i \in 1..Len(filter) : filter[i] = topic[i]
    BY <1>1, <1>2, <1>3 DEF Matches, LevelsMatch
  <2> QED
    BY <1>0, <2>1
<1>4. ASSUME topic = filter PROVE Matches(topic, filter)
  BY <1>2, <1>4 DEF Matches, LevelsMatch
<1> QED
  BY <1>3, <1>4

\* The exact pass and the wildcard pass of run_broker together deliver by the
\* matching relation of section 4.7.1 of the standard.
THEOREM MatchPassesAgree == Spec => []PassesAgree
<1>1. MInv => PassesAgree
  BY ExactIsEquality DEF MInv, ComputesMatches, PassesAgree
<1> QED
  BY <1>1, MInvariant, PTL
=============================================================================
