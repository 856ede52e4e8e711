----------------------------- MODULE MCIssuing -----------------------------
(* An instance of Issuing for TLC.                                           *)
(*   node   the certname; web a name, spaced the same with blanks around it   *)
(*   addr   an address; empty a text that trims to nothing                   *)
(*   role   a registered OID with a short name and a dotted form             *)
(*   arole  an authorization OID; other one outside the Puppet arc           *)
(*   v1     a value with U+FFFD in it; raw the same with bytes that are not   *)
(*          UTF-8 in its place                                               *)
EXTENDS Issuing

CONSTANTS node, web, spaced, addr, empty, role, arole, other,
          pp_role, dotted_role, pp_auth_role, dotted_other, bogus, v1, raw

MCTrim == [x \in Text |-> IF x = spaced THEN web ELSE x]

MCOidOf == [k \in Keys |-> CASE k \in {pp_role, dotted_role} -> role
                             [] k = pp_auth_role -> arole
                             [] k = dotted_other -> other
                             [] OTHER -> None]

MCNameFor == [o \in OIDs |-> CASE o = role -> pp_role
                               [] o = arole -> pp_auth_role
                               [] OTHER -> dotted_other]

\* In JSON the two values look the same.
MCJson == [v \in Vals |-> v1]

\* At most one flag.
MCFlagSets == {[k \in Keys |-> IF k = f THEN v1 ELSE None] : f \in Keys \cup {None}}
============================================================================
