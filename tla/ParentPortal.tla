----------------------------- MODULE ParentPortal -----------------------------
(***************************************************************************)
(* The life of a child identity in the parent portal                       *)
(* (cmd/veriqid-server/main.go, internal/store/parent_store.go) together   *)
(* with the contract it is registered in.  A parent adds a child, has it   *)
(* approved, and may revoke it.  Approval writes two stores that share no  *)
(* transaction: AddIDstoIdR (pkg/u2sso/u2ssolib.go) sends addID from the   *)
(* server's account, and MarkChildVerified updates SQLite.                 *)
(*                                                                         *)
(* Every HTTP request runs in a goroutine of its own, so a handler is a    *)
(* chain of steps that interleave with those of other requests.  A step    *)
(* is one database statement or one call to the Ethereum node.             *)
(***************************************************************************)
EXTENDS IdentityRegistry

CONSTANTS
    Parent,             \* parents with a session
    Child,              \* rows of the children table; also the children's mpks
    Request,            \* concurrent requests the server is working on
    Server,             \* the address of the server's Ethereum key
    NULL,               \* SQL NULL
    MaxTx,              \* bound: server transactions before approvals cease
    MaxOutsideEvents    \* bound: events that outsiders cause

ASSUME ServerAssumption == Server \in Address
ASSUME ChildAssumption == Child \subseteq Key

VARIABLES
    children,   \* the children table
    req,        \* what each request is doing
    pool,       \* server transactions the node accepted and did not mine
    accountNonce, \* server transactions mined so far
    undisturbed   \* history: children whose approvals neither overlapped
                  \* nor broke off after the transaction was sent

portalVars == <<children, req, pool, accountNonce, undisturbed>>

Tx == [nonce: Nat, key: Key, ageBracket: AgeBracket]

Row == [status: {"none", "pending", "verified", "revoked"},
        parent: Parent \cup {NULL}, ageBracket: AgeBracket,
        contractIndex: Int \cup {NULL}]

\* Steps still to do; "done" carries the reply and is free for a new request.
Handler == [at: {"done", "nonce", "send", "lookup", "store", "revoke"},
            child: Child \cup {NULL}, nonce: Nat, index: Int,
            reply: {"none", "chain failed", "store failed", "verified", "revoked"}]

idle == [at |-> "done", child |-> NULL, nonce |-> 0, index |-> -1, reply |-> "none"]

approving(r) == req[r].at \in {"nonce", "send", "lookup", "store"}

PortalInit ==
    /\ Init
    /\ children = [c \in Child |-> [status |-> "none", parent |-> NULL,
                                    ageBracket |-> 0, contractIndex |-> NULL]]
    /\ req = [r \in Request |-> idle]
    /\ pool = {}
    /\ accountNonce = 0
    /\ undisturbed = Child

-------------------------------------------------------------------------------
(* The Ethereum node, as the server sees it. *)

\* PendingNonceAt.
pendingNonce == accountNonce + Cardinality(pool)

\* A transaction that fails a require is mined all the same, and the server
\* does not look at the receipt.
execute(tx) ==
    IF onlyVerifier(Server) /\ validBracket(tx.ageBracket)
    THEN addID(Server, tx.key, tx.ageBracket)
    ELSE UNCHANGED vars

\* The node refuses a nonce that was mined or that another pending transaction
\* has.  It mines when it likes; one that mines at once (Ganache by default)
\* is the case in which no other step comes between.
accepts(nonce) == nonce >= accountNonce /\ \A tx \in pool : tx.nonce # nonce

mine ==
    /\ \E tx \in pool :
        /\ tx.nonce = accountNonce
        /\ execute(tx)
        /\ pool' = pool \ {tx}
    /\ accountNonce' = accountNonce + 1
    /\ UNCHANGED <<children, req, undisturbed>>

-------------------------------------------------------------------------------
(* Handlers. *)

step(r, next) ==
    req' = [req EXCEPT ![r].at = next]

reply(r, answer) ==
    req' = [req EXCEPT ![r].at = "done", ![r].reply = answer]

\* Mutant of validAge: the contract is left to check the bracket.
validAge_unchecked(bracket) == TRUE

validAge(bracket) == bracket >= 0 /\ bracket <= 3

\* POST /api/parent/child/add: the row and its fresh key pair.
handleAddChild(p, c, bracket) ==
    /\ children[c].status = "none"
    /\ validAge(bracket)
    /\ children' = [children EXCEPT ![c] = [status |-> "pending", parent |-> p,
                        ageBracket |-> bracket, contractIndex |-> NULL]]
    /\ UNCHANGED <<req, pool, accountNonce, undisturbed, vars>>

\* Mutant of approvable: the status is not looked at.
approvable_anyStatus(c) == children[c].status # "none"

approvable(c) == children[c].status = "pending"

\* POST /api/parent/verify/approve, up to the status check.  The copy of the
\* row that is read here is all that the rest of the handler goes by.
approveRead(r, p, c) ==
    /\ req[r].at = "done"
    /\ children[c].parent = p
    /\ approvable(c)
    /\ pendingNonce < MaxTx
    /\ req' = [req EXCEPT ![r] = [idle EXCEPT !.at = "nonce", !.child = c]]
    /\ undisturbed' = undisturbed \ {q \in {c} : \E o \in Request :
                                        approving(o) /\ req[o].child = q}
    /\ UNCHANGED <<children, pool, accountNonce, vars>>

\* Mutant of chosenNonce: the pending nonce is taken for the last one used.
chosenNonce_next == pendingNonce + 1

chosenNonce == pendingNonce

\* AddIDstoIdR asks the node for the nonce,
readNonce(r) ==
    /\ req[r].at = "nonce"
    /\ \/ req' = [req EXCEPT ![r].at = "send", ![r].nonce = chosenNonce]
       \/ reply(r, "chain failed")
    /\ UNCHANGED <<children, pool, accountNonce, undisturbed, vars>>

\* Mutant of refused: the error of inst.AddID is dropped.
refused_goesOn(r) == step(r, "lookup")

refused(r) == reply(r, "chain failed")

\* sends the transaction (the reply of the node may get lost),
sendTx(r) ==
    /\ req[r].at = "send"
    /\ IF accepts(req[r].nonce)
       THEN /\ pool' = pool \cup
                    {[nonce |-> req[r].nonce, key |-> req[r].child,
                      ageBracket |-> children[req[r].child].ageBracket]}
            /\ \/ /\ step(r, "lookup")
                  /\ UNCHANGED undisturbed
               \/ /\ reply(r, "chain failed")
                  /\ undisturbed' = undisturbed \ {req[r].child}
       ELSE refused(r) /\ UNCHANGED <<pool, undisturbed>>
    /\ UNCHANGED <<children, accountNonce, vars>>

\* Mutant of whereIs: the entry that was added last.
whereIs_last(k) == getIDSize - 1

whereIs(k) == getIDIndex(k)

\* and asks the contract, without waiting for a receipt, where the key is.
lookupIndex(r) ==
    /\ req[r].at = "lookup"
    /\ \/ /\ req' = [req EXCEPT ![r].at = "store",
                                ![r].index = whereIs(req[r].child)]
          /\ UNCHANGED undisturbed
       \/ /\ reply(r, "chain failed")
          /\ undisturbed' = undisturbed \ {req[r].child}
    /\ UNCHANGED <<children, pool, accountNonce, vars>>

\* MarkChildVerified writes the status whatever it has become meanwhile.
markChildVerified(r) ==
    /\ req[r].at = "store"
    /\ \/ /\ children' = [children EXCEPT ![req[r].child].status = "verified",
                              ![req[r].child].contractIndex = req[r].index]
          /\ reply(r, "verified")
          /\ UNCHANGED undisturbed
       \/ /\ reply(r, "store failed")
          /\ undisturbed' = undisturbed \ {req[r].child}
          /\ UNCHANGED children
    /\ UNCHANGED <<pool, accountNonce, vars>>

\* POST /api/parent/child/revoke, up to the status check.
revokeRead(r, p, c) ==
    /\ req[r].at = "done"
    /\ children[c].parent = p
    /\ children[c].status = "verified"
    /\ children[c].contractIndex # NULL
    /\ req' = [req EXCEPT ![r] = [idle EXCEPT !.at = "revoke", !.child = c]]
    /\ UNCHANGED <<children, pool, accountNonce, undisturbed, vars>>

\* MarkChildRevoked; revokeID is not called on the contract.
markChildRevoked(r) ==
    /\ req[r].at = "revoke"
    /\ \/ /\ children' = [children EXCEPT ![req[r].child].status = "revoked"]
          /\ reply(r, "revoked")
       \/ reply(r, "store failed") /\ UNCHANGED children
    /\ UNCHANGED <<pool, accountNonce, undisturbed, vars>>

\* The server stops and starts again: SQLite and the node keep what they have.
crash ==
    /\ \E r \in Request : req[r].at # "done"
    /\ req' = [r \in Request |-> idle]
    /\ undisturbed' = undisturbed \
            {req[r].child : r \in {r \in Request : req[r].at \in {"lookup", "store"}}}
    /\ UNCHANGED <<children, pool, accountNonce, vars>>

\* Other accounts, and the operator's own use of the server's account from a
\* console (with its own nonce management, which is not modelled).
outsider ==
    /\ Len(log) - 1 - Cardinality(UNION {entriesOf(c) : c \in Child}) < MaxOutsideEvents
    /\ \E s \in Address :
        \/ authorizeVerifier(s, Server)
        \/ removeVerifier(s, Server)
        \/ \E k \in Key \ Child, b \in BracketInput : addID(s, k, b)
        \/ \E i \in Indices : revokeID(s, i)
    /\ UNCHANGED portalVars

handlerStep(r) ==
    \/ readNonce(r)
    \/ sendTx(r)
    \/ lookupIndex(r)
    \/ markChildVerified(r)
    \/ markChildRevoked(r)

PortalNext ==
    \/ \E p \in Parent, c \in Child :
        \/ \E b \in BracketInput : handleAddChild(p, c, b)
        \/ \E r \in Request : approveRead(r, p, c) \/ revokeRead(r, p, c)
    \/ \E r \in Request : handlerStep(r)
    \/ mine
    \/ crash
    \/ outsider

PortalSpec == PortalInit /\ [][PortalNext]_<<vars, portalVars>>

\* A goroutine that can go on does, and the node mines what it can.
FairPortalSpec ==
    /\ PortalSpec
    /\ \A r \in Request : WF_<<vars, portalVars>>(handlerStep(r))
    /\ WF_<<vars, portalVars>>(mine)

-------------------------------------------------------------------------------
(* Properties. *)

PortalTypeOK ==
    /\ TypeOK
    /\ children \in [Child -> Row]
    /\ req \in [Request -> Handler]
    /\ pool \subseteq Tx
    /\ accountNonce \in Nat
    /\ undisturbed \subseteq Child

\* A contract_index kept in SQLite, other than the -1 of an unknown key, is the
\* index of that child's key with that child's bracket, although it was read
\* long before it is stored and other registrations go on meanwhile.
StoredIndexIsOwn ==
    \A c \in Child :
        children[c].contractIndex \notin {NULL, -1} =>
            LET i == children[c].contractIndex
            IN  /\ i \in Indices
                /\ getIDs(i) = c
                /\ idList[i + 1].ageBracket = children[c].ageBracket

\* When the approvals of a child neither overlap nor break off half way, the
\* contract is not ahead of SQLite: at most one entry of its key exists, and a
\* pending row has one only while its approval is still under way.  (A verified
\* row may well have none: LostIdentityHasCause says when.)
UndisturbedApprovalsAgree ==
    \A c \in undisturbed :
        /\ Cardinality(entriesOf(c)) <= 1
        /\ children[c].status = "pending" /\ entriesOf(c) # {} =>
            \E r \in Request : approving(r) /\ req[r].child = c

\* The contract does not know a key that was just sent (the -1 that ends up as
\* contract_index) for two reasons only: the transaction still waits to be
\* mined, or it failed because the server lost or never had the verifier role.
LostIdentityHasCause ==
    [][\A r \in Request :
        req[r].at = "lookup" /\ req'[r].at = "store" /\ req'[r].index = -1 =>
            \/ \E tx \in pool : tx.key = req[r].child
            \/ log[1].verifier # Server
            \/ \E j \in DOMAIN log :
                log[j] = [event |-> "VerifierRemoved", verifier |-> Server]]_<<vars, portalVars>>

\* A status goes back from revoked only through an approval of the same child
\* that had passed its check while the row was still pending: with one request
\* at a time a revocation would be final.
ReinstatedByOlderApproval ==
    [][\A c \in Child :
        children[c].status = "revoked" /\ children'[c].status # "revoked" =>
            /\ c \notin undisturbed
            /\ \E r \in Request : req[r].at = "store" /\ req[r].child = c]_<<vars, portalVars>>

\* The nonces in the pool follow the mined ones without a gap, although
\* requests read their nonce long before they use it.
PoolHasNoGaps ==
    {tx.nonce : tx \in pool} = accountNonce..(accountNonce + Cardinality(pool) - 1)

\* Transactions the node accepted are all mined, whatever mix of failures,
\* restarts and concurrent approvals went on: nonces leave no gap.
AcceptedTxMined ==
    \A n \in 0..(MaxTx - 2 + Cardinality(Request)) :
        (\E tx \in pool : tx.nonce = n) ~> (accountNonce > n)

\* main.go:1354 answers a revocation with "Identity has been permanently
\* revoked across all platforms."
RevokedChildStaysRevoked ==
    [][\A c \in Child : children[c].status = "revoked" =>
            children'[c].status = "revoked"]_<<vars, portalVars>>

===============================================================================
