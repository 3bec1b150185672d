---------------------------- MODULE NotaryInputs ----------------------------
(***************************************************************************)
(* Eval::CheckNotaryInputs (cc/eval.cpp): a notarisation is accepted when *)
(* it has enough inputs and each spends a pay-to-pubkey output of a       *)
(* notary not matched by an earlier input.  An input is a record: whether *)
(* GetTxUnconfirmed finds the funding tx, its vout.size(), the prevout    *)
(* index n, and the scripts of the funding tx's outputs (a script is a    *)
(* key, meaning a well-formed 35-byte <33-byte key> OP_CHECKSIG script,   *)
(* or "other").  Reading vout[n] with n = vout.size() is out of bounds:   *)
(* the bytes read are any script the allocator left there.                *)
(***************************************************************************)
EXTENDS Integers, Sequences, SequencesExt

CONSTANTS
    Keys,             \* public keys
    Notaries,         \* komodo_notaries(): the notary keys, in order
    MinNotaryInputs   \* the input count the check demands (11 in the code)

Scripts == Keys \cup {"other"}

\* the script vout[n] yields: defined below vout.size(), anything at or past it
ScriptsAt(in) == IF in.n < in.voutSize THEN {in.vout[in.n + 1]} ELSE Scripts

\* Mutant of FirstUnseen: the seen-list test is missing, so one notary
\* can sign every input.
FirstUnseenIgnoringSeen(pk, seen) ==
    LET slots == {i \in 1..Len(Notaries) : Notaries[i] = pk} IN
    IF slots = {} THEN 0 ELSE Min(slots)

\* the notary slot the matching loop picks for pk: the first unseen one
FirstUnseen(pk, seen) ==
    LET slots == {i \in 1..Len(Notaries) : i \notin seen /\ Notaries[i] = pk} IN
    IF slots = {} THEN 0 ELSE Min(slots)

(* The loop over tx.vin.  `seen` holds the notary slots already matched.  *)
(* The result is the set of answers the code can give, one per choice of  *)
(* the bytes an out-of-bounds read returns.                               *)
RECURSIVE CheckInputs(_, _)
CheckInputs(vin, seen) ==
    IF vin = <<>> THEN {TRUE}
    ELSE LET in == Head(vin) IN
         IF ~in.found \/ in.voutSize < in.n THEN {FALSE}
         ELSE UNION {IF spk = "other" \/ FirstUnseen(spk, seen) = 0 THEN {FALSE}
                     ELSE CheckInputs(Tail(vin), seen \cup {FirstUnseen(spk, seen)})
                     : spk \in ScriptsAt(in)}

\* Eval::CheckNotaryInputs: every answer it can give for tx.vin
CheckNotaryInputs(vin) ==
    IF Len(vin) < MinNotaryInputs THEN {FALSE} ELSE CheckInputs(vin, {})

=============================================================================
