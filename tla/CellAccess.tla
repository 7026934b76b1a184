----------------------------- MODULE CellAccess -----------------------------
(***************************************************************************)
(* Who may talk to the campaign service: the Cell credentials, pairing     *)
(* codes, replay window and rate limits that the coordinator keeps in its  *)
(* state file (volunteer_training_operator.py, the *_cell_credential and   *)
(* *_pairing_code methods of volunteer_training_coordinator.py).           *)
(*                                                                         *)
(* Each operation saves the state file once, under the campaign lock, so   *)
(* it is one step here: a process that dies before the save did nothing.   *)
(* What the events it appends first may do to the ledger is the matter of  *)
(* VolunteerCoordinator.  Bytes are counted in chunks.  The scopes are     *)
(* those of a training Cell.                                               *)
(***************************************************************************)
EXTENDS Naturals, Sequences, FiniteSets

CONSTANTS
    Cells,
    Invited,      \* the Cells that hold the invite; the others need a code
    Codes,        \* pairing codes
    Nonces,       \* request nonces: a nonce is drawn again only when no copy
                  \* of its last request is left on the wire
    MaxPerCell,   \* maximum_active_credentials_per_cell
    MaxRequests,  \* maximum_requests_per_window
    MaxUpload,    \* maximum_upload_bytes_per_credential, in chunks
    NoCode

ASSUME AccessAssumption ==
    /\ Invited \subseteq Cells /\ NoCode \notin Codes
    /\ MaxPerCell \in Nat \ {0} /\ MaxRequests \in Nat \ {0} /\ MaxUpload \in Nat \ {0}

VARIABLES
    creds,   \* cell_credentials, in the order they were issued
    codes,   \* pairing_codes
    seen     \* replay_nonces

accessVars == <<creds, codes, seen>>

AccessInit ==
    /\ creds = <<>> /\ codes = [k \in Codes |-> "none"] /\ seen = {}

CredIds   == 1..Len(creds)
Active(i) == i \in CredIds /\ creds[i].state = "valid"
ActiveOf(c) == {i \in CredIds : Active(i) /\ creds[i].cell = c}

\* issue_cell_credential in its module: refused when the Cell has too many.
Grants(c, k) ==
    /\ Cardinality(ActiveOf(c)) < MaxPerCell
    /\ creds' = Append(creds, [cell |-> c, code |-> k, state |-> "valid",
                               uploaded |-> 0, recent |-> 0])

Issue(c) == c \in Invited /\ Grants(c, NoCode) /\ UNCHANGED <<codes, seen>>

CreateCode(k) ==
    /\ codes[k] = "none" /\ codes' = [codes EXCEPT ![k] = "open"]
    /\ UNCHANGED <<creds, seen>>

\* redeem_pairing_code: a refused credential leaves the code open.
Redeem(c, k) ==
    /\ codes[k] = "open" /\ Grants(c, k)
    /\ codes' = [codes EXCEPT ![k] = "redeemed"]
    /\ UNCHANGED seen

CodeExpires(k) ==
    /\ codes[k] = "open" /\ codes' = [codes EXCEPT ![k] = "expired"]
    /\ UNCHANGED <<creds, seen>>

Ends(i, state) ==
    /\ Active(i) /\ creds' = [creds EXCEPT ![i].state = state]
    /\ UNCHANGED <<codes, seen>>
Revoke(i)  == Ends(i, "revoked")
Expires(i) ==
    /\ i \in CredIds /\ creds[i].state # "expired"
    /\ creds' = [creds EXCEPT ![i].state = "expired"]
    /\ UNCHANGED <<codes, seen>>

\* request_window_seconds have passed.
WindowPasses(i) ==
    /\ creds[i].recent > 0 /\ creds' = [creds EXCEPT ![i].recent = 0]
    /\ UNCHANGED <<codes, seen>>

-----------------------------------------------------------------------------
\* authorize_cell_credential for a request of cell c with nonce n that uploads
\* b chunks.  A refusal leaves nothing but counters.
Admits(i, c, n, b) ==
    /\ Active(i) /\ creds[i].cell = c
    /\ n \notin seen
    /\ creds[i].recent < MaxRequests
    /\ creds[i].uploaded + b <= MaxUpload

\* Mutant of Charge: the nonce is not kept.
ChargeForgets(i, n, b) ==
    /\ creds' = [creds EXCEPT ![i].recent = @ + 1, ![i].uploaded = @ + b]
    /\ UNCHANGED <<codes, seen>>

Charge(i, n, b) ==
    /\ creds' = [creds EXCEPT ![i].recent = @ + 1, ![i].uploaded = @ + b]
    /\ seen' = seen \cup {n}
    /\ UNCHANGED codes

=============================================================================
