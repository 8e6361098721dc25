------------------------------ MODULE Addresses ------------------------------
(***************************************************************************)
(* Addresses and ranges: what a scope expands to when a run is planned,    *)
(* and what the worker takes to be inside a range when it dispatches.      *)
(*                                                                         *)
(* An address is a number of Width bits, a range has a base and a prefix.  *)
(***************************************************************************)
EXTENDS Naturals, FiniteSets, SequencesExt

CONSTANTS
    Width,                   \* 32
    MaxExpandedAddresses     \* MAX_EXPANDED_ADDRESSES

ASSUME AddressAssumption == Width \in Nat \ {0} /\ MaxExpandedAddresses \in Nat

\* 2 ** hostBits, which does not overflow as 1 << hostBits does.
Size(range) == 2 ^ (Width - range.prefix)

\* The base, with its host bits masked out.
Masked(ip, range) == (ip \div Size(range)) * Size(range)
Network(range) == Masked(range.base, range)

IsIpv4InCidr(ip, range) == Masked(ip, range) = Network(range)

-----------------------------------------------------------------------------
(* Expansion *)

Expansion(addresses, truncated) == [addresses |-> addresses, truncated |-> truncated]

\* All but the network and the broadcast address, as far as the cap.
ExpandCidr(range) ==
    LET usable == Size(range) - 2
        count == IF usable < MaxExpandedAddresses THEN usable ELSE MaxExpandedAddresses
    IN IF range.prefix >= Width - 1
       THEN Expansion(Network(range)..(Network(range) + Size(range) - 1), FALSE)
       ELSE Expansion((Network(range) + 1)..(Network(range) + count),
                      usable > MaxExpandedAddresses)

\* Addresses are added in order until there are as many as the cap.
Taken(seen, addresses) ==
    {ip \in addresses :
        Cardinality(seen \cup {other \in addresses : other < ip}) < MaxExpandedAddresses}

WithRange(result, range) ==
    LET more == ExpandCidr(range)
        taken == Taken(result.addresses, more.addresses)
    IN Expansion(result.addresses \cup taken,
                 result.truncated \/ more.truncated \/ taken # more.addresses)

ExpandCidrRanges(ranges) == FoldLeft(WithRange, Expansion({}, FALSE), ranges)

-----------------------------------------------------------------------------
(* Use *)

\* findHostExclusionMatch, and the same test when the plan is made.
Excluded(ip, rules) ==
    \E rule \in rules :
        \/ rule.ruleType = "address" /\ rule.base = ip
        \/ rule.ruleType = "range" /\ IsIpv4InCidr(ip, rule)

IsTargetWithinScope(ip, ranges) == \E n \in DOMAIN ranges : IsIpv4InCidr(ip, ranges[n])

\* The rows of a run that are not excluded when it is planned.
Planned(ranges, rules) == {ip \in ExpandCidrRanges(ranges).addresses : ~Excluded(ip, rules)}

\* A new asset is internal if its address is in a private range.
IsPrivateIpv4(ip, privateRanges) == \E range \in privateRanges : IsIpv4InCidr(ip, range)

-----------------------------------------------------------------------------
(* What is expected of them *)

Borders(range) ==
    IF range.prefix >= Width - 1 THEN {}
    ELSE {Network(range), Network(range) + Size(range) - 1}

\* SAFE-01, SAFE-02: the plan and the dispatch agree on what is in a scope. No
\* address is planned that the worker then refuses as out of scope; and what
\* is in scope and not excluded is planned, unless it borders a range or the
\* list is said to be cut.
PlanAgreesWithDispatch(ranges, rules) ==
    LET all == ExpandCidrRanges(ranges)
        planned == Planned(ranges, rules)
    IN /\ \A ip \in planned : IsTargetWithinScope(ip, ranges) /\ ~Excluded(ip, rules)
       /\ ~all.truncated =>
            \A ip \in (0..(2 ^ Width - 1)) \ planned :
                IsTargetWithinScope(ip, ranges) /\ ~Excluded(ip, rules) =>
                    \E n \in DOMAIN ranges : ip \in Borders(ranges[n])
       /\ Cardinality(all.addresses) <= MaxExpandedAddresses

=============================================================================
