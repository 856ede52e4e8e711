--------------------------- MODULE CertRegistry ---------------------------
(***************************************************************************)
(* What the CA promises, whatever its files, locks and threads do: a        *)
(* registry of certificates.  A certificate carries a serial number that no *)
(* earlier certificate carries.  A name is bound to at most one certificate *)
(* at a time, a binding ends before the next one begins, and revoking is    *)
(* for good: a serial once revoked stays revoked, and only a certificate    *)
(* that is bound to a name at that moment is ever revoked.                  *)
(*                                                                         *)
(* CAStore implements this specification (its Registry instance).           *)
(***************************************************************************)
CONSTANTS Names, SerialOf(_), None

VARIABLES certs,     \* every certificate issued so far
          current,   \* current[n]: the certificate bound to name n, or None
          revoked    \* the serials that are revoked

vars == <<certs, current, revoked>>

Fresh(c) == \A d \in certs : SerialOf(d) # SerialOf(c)

\* The CA's own certificate is the only one, and no name is bound yet.
Init == /\ \E root \in certs : certs = {root}
        /\ current = [n \in Names |-> None]
        /\ revoked = {}

\* Bind a new certificate to a name that has none.
Issue(n, c) == /\ current[n] = None
               /\ Fresh(c)
               /\ SerialOf(c) \notin revoked
               /\ certs' = certs \cup {c}
               /\ current' = [current EXCEPT ![n] = c]
               /\ UNCHANGED revoked

\* Issue a certificate that is bound to no name (the server's own leaf).
IssueUnbound(c) == /\ Fresh(c)
                   /\ SerialOf(c) \notin revoked
                   /\ certs' = certs \cup {c}
                   /\ UNCHANGED <<current, revoked>>

\* Revoke the certificate bound to n; it stays bound.
Revoke(n) == /\ current[n] # None
             /\ revoked' = revoked \cup {SerialOf(current[n])}
             /\ UNCHANGED <<certs, current>>

\* End the binding of n.
Forget(n) == /\ current[n] # None
             /\ current' = [current EXCEPT ![n] = None]
             /\ UNCHANGED <<certs, revoked>>

Next == \/ \E c \in certs' \ certs : IssueUnbound(c) \/ \E n \in Names : Issue(n, c)
        \/ \E n \in Names : Revoke(n) \/ Forget(n)

Spec == Init /\ [][Next]_vars
===========================================================================
