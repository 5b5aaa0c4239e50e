--------------------------- MODULE FilterProofs ---------------------------
(***************************************************************************)
(* filter_groups, proved for every request, whitelist and limit.           *)
(***************************************************************************)
EXTENDS GroupFilter, SelectionProofs

(* A request names groups, or none. *)
LEMMA RequestIsSequence ==
    ASSUME request \in Requests, request # Absent
    PROVE  request \in Seq(Group)
<1>1. PICK n \in 0..MaxRequested : request \in [1..n -> Group]
  BY DEF Requests
<1>2. n \in Nat
  BY GroupAssumption
<1>3. QED BY <1>1, <1>2

(* What the whitelist keeps of a request: its listed groups, each at its   *)
(* rank among them.                                                        *)
LEMMA KeptInOrder ==
    ASSUME NEW groups \in Seq(Group), NEW whitelist
    PROVE  LET listed == {i \in DOMAIN groups : groups[i] \in whitelist}
               kept == Keep(groups, whitelist)
           IN  /\ kept \in Seq(Group)
               /\ Len(kept) = Cardinality(listed)
               /\ Len(kept) <= Len(groups)
               /\ kept = <<>> => listed = {}
               /\ \A i \in listed :
                     kept[Cardinality({j \in listed : j <= i})] = groups[i]
<1> DEFINE n == Len(groups)
           listed == {i \in DOMAIN groups : groups[i] \in whitelist}
           kept == Keep(groups, whitelist)
<1>1. n \in Nat /\ n \in 0..n /\ DOMAIN groups = 1..n
  OBVIOUS
<1>2. listed = Listed(groups, whitelist, n)
  BY <1>1 DEF Listed
<1>3. /\ kept \in Seq(Group \cap whitelist)
      /\ Len(kept) = Rank(groups, whitelist, n)
      /\ \A i \in Listed(groups, whitelist, n) : kept[Rank(groups, whitelist, i)] = groups[i]
  BY <1>1, SelectedAtRank DEF Keep, Select
<1>4. /\ Rank(groups, whitelist, n) <= n
      /\ Rank(groups, whitelist, n) = Cardinality(listed)
      /\ \A i \in listed : Rank(groups, whitelist, i) \in 1..Rank(groups, whitelist, n)
  BY <1>1, <1>2, Ranks DEF Rank
<1>5. ASSUME NEW i \in listed PROVE Rank(groups, whitelist, i) = Cardinality({j \in listed : j <= i})
  <2>1. {j \in listed : j <= i} = Listed(groups, whitelist, i)
    BY <1>1, <1>5 DEF Listed
  <2>2. QED BY <2>1 DEF Rank
<1>6. kept = <<>> => listed = {}
  <2>1. ASSUME kept = <<>>, NEW i \in listed PROVE FALSE
    <3>1. Len(kept) = 0
      BY <2>1
    <3>2. Rank(groups, whitelist, i) \in 1..0
      BY <2>1, <3>1, <1>3, <1>4
    <3>3. QED BY <3>2
  <2>2. QED BY <2>1
<1>7. kept \in Seq(Group)
  BY <1>3
<1>8. \A i \in listed : kept[Cardinality({j \in listed : j <= i})] = groups[i]
  BY <1>2, <1>3, <1>5
<1>9. QED BY <1>1, <1>3, <1>4, <1>6, <1>7, <1>8

(* A token has the whitelisted groups of its request, in order, and a      *)
(* request beyond a limit is refused, whatever it is and the configuration *)
(* be, provided that there is a whitelist.                                 *)
THEOREM FilterAlwaysKeepsOrder ==
    ASSUME request \in Requests
    PROVE  FilterKeepsOrder
<1> SUFFICES ASSUME NEW whitelist \in SUBSET Group, NEW maxCount \in 0..MaxRequested,
                    NEW maxLength \in Lengths
             PROVE  LET result == FilterGroups(request, whitelist, maxCount, maxLength)
                        listed == {i \in DOMAIN request : request[i] \in whitelist}
                    IN  IF request = Absent \/ whitelist = {} THEN result = Absent
                        ELSE IF OverLimit(request, maxCount, maxLength) THEN result = Malformed
                        ELSE IF listed = {} THEN result = Absent
                        ELSE /\ Len(result) = Cardinality(listed)
                             /\ \A i \in listed :
                                   result[Cardinality({j \in listed : j <= i})] = request[i]
  BY DEF FilterKeepsOrder
<1> DEFINE result == FilterGroups(request, whitelist, maxCount, maxLength)
           listed == {i \in DOMAIN request : request[i] \in whitelist}
           kept == Keep(request, whitelist)
           over == Len(request) > maxCount \/ TooLong(request, maxLength)
<1>1. CASE request = Absent \/ whitelist = {}
  <2>1. result = Absent
    BY <1>1 DEF FilterGroups
  <2>2. QED BY <1>1, <2>1
<1>2. CASE request # Absent /\ whitelist # {}
  <2>1. request \in Seq(Group)
    BY <1>2, RequestIsSequence
  <2>2. /\ Len(kept) = Cardinality(listed)
        /\ kept = <<>> => listed = {}
        /\ \A i \in listed : kept[Cardinality({j \in listed : j <= i})] = request[i]
    BY <2>1, KeptInOrder
  <2>3. listed = {} => kept = <<>>
    <3>1. ASSUME listed = {} PROVE kept = <<>>
      <4>1. Cardinality(listed) = 0
        BY <3>1, FS_EmptySet
      <4>2. kept \in Seq(Group) /\ Len(kept) = 0
        BY <2>1, <2>2, <4>1, KeptInOrder
      <4> HIDE DEF kept
      <4>3. QED BY <4>2
    <3>2. QED BY <3>1
  <2>4. OverLimit(request, maxCount, maxLength) <=> over
    BY DEF OverLimit, TooLong
  <2>5. CASE over
    <3>1. result = Malformed
      BY <1>2, <2>5 DEF FilterGroups
    <3>2. QED BY <1>2, <2>4, <2>5, <3>1
  <2>6. CASE ~over /\ kept = <<>>
    <3>1. result = Absent
      BY <1>2, <2>6 DEF FilterGroups
    <3>2. listed = {} /\ ~OverLimit(request, maxCount, maxLength)
      BY <2>2, <2>4, <2>6
    <3>3. QED BY <1>2, <3>1, <3>2
  <2>7. CASE ~over /\ kept # <<>>
    <3>1. result = kept
      BY <1>2, <2>7 DEF FilterGroups
    <3>2. listed # {} /\ ~OverLimit(request, maxCount, maxLength)
      BY <2>3, <2>4, <2>7
    <3> HIDE DEF result, kept
    <3>3. /\ Len(result) = Cardinality(listed)
          /\ \A i \in listed : result[Cardinality({j \in listed : j <= i})] = request[i]
      BY <2>2, <3>1
    <3>4. QED BY <1>2, <3>2, <3>3 DEF result
  <2>8. QED BY <2>5, <2>6, <2>7
<1>3. QED BY <1>1, <1>2
=============================================================================
