--------------------------- MODULE GroupFilter ----------------------------
(***************************************************************************)
(* filter_groups, which cuts the groups of a request down to the whitelist *)
(* before they are signed into the token.                                  *)
(***************************************************************************)
EXTENDS Naturals, Sequences, FiniteSets, Selection

CONSTANTS Group,         \* group names
          LengthOf,      \* their lengths in bytes
          Absent,        \* None
          Malformed,     \* Err(MalformedToken)
          MaxRequested   \* bound on the groups of a request

ASSUME GroupAssumption ==
    /\ LengthOf \in [Group -> Nat]
    /\ Absent # Malformed /\ {Absent, Malformed} \cap Seq(Group) = {}
    /\ MaxRequested \in Nat

VARIABLE request  \* the groups a client asked for

TooLong(groups, maxLength) == \E i \in DOMAIN groups : LengthOf[groups[i]] > maxLength

Keep(groups, whitelist) == Select(groups, whitelist)

FilterBeforeLimits(requested, whitelist, maxCount, maxLength) ==
    IF requested = Absent \/ Keep(requested, whitelist) = <<>> THEN Absent
    ELSE IF Len(requested) > maxCount \/ TooLong(requested, maxLength) THEN Malformed
    ELSE Keep(requested, whitelist)

(* The limits are looked at only if there is a whitelist. *)
FilterGroups(requested, whitelist, maxCount, maxLength) ==
    IF requested = Absent \/ whitelist = {} THEN Absent
    ELSE IF Len(requested) > maxCount \/ TooLong(requested, maxLength) THEN Malformed
    ELSE IF Keep(requested, whitelist) = <<>> THEN Absent
    ELSE Keep(requested, whitelist)
-----------------------------------------------------------------------------
Requests == {Absent} \cup UNION {[1..n -> Group] : n \in 0..MaxRequested}
Lengths == {0} \cup {LengthOf[g] : g \in Group}

OverLimit(groups, maxCount, maxLength) ==
    Len(groups) > maxCount \/ \E i \in DOMAIN groups : LengthOf[groups[i]] > maxLength

(* Without a whitelist no groups are signed into a token, whatever is      *)
(* asked for.  With one, a request beyond a limit is refused, also for     *)
(* groups that would be dropped; any other gets its whitelisted groups,    *)
(* each as often as requested and in that order, and none at all where     *)
(* none is whitelisted.                                                    *)
FilterKeepsOrder ==
    \A whitelist \in SUBSET Group, maxCount \in 0..MaxRequested, maxLength \in Lengths :
        LET result == FilterGroups(request, whitelist, maxCount, maxLength)
            listed == {i \in DOMAIN request : request[i] \in whitelist}
        IN  IF request = Absent \/ whitelist = {} THEN result = Absent
            ELSE IF OverLimit(request, maxCount, maxLength) THEN result = Malformed
            ELSE IF listed = {} THEN result = Absent
            ELSE /\ Len(result) = Cardinality(listed)
                 /\ \A i \in listed :
                       result[Cardinality({j \in listed : j <= i})] = request[i]
=============================================================================
