---------------------------- MODULE PlatformServer ----------------------------
(***************************************************************************)
(* Sign-up and login on a platform (cmd/veriqid-server/main.go over        *)
(* internal/store/sqlite.go, internal/session/session.go and               *)
(* pkg/ve_asc/nullifier.go).                                               *)
(*                                                                         *)
(* A form is served with a fresh challenge, and a submitted form uses the  *)
(* challenge up, has its proof checked against the ring in the contract,   *)
(* its nullifier against a registry in memory, and ends in a row of the    *)
(* users table and a session in memory.  Platforms that keep their own     *)
(* accounts call the JSON API instead, which has the proof and the         *)
(* nullifier part only.  Requests interleave; a step is one database       *)
(* statement, one critical section, or one access to a shared map.         *)
(*                                                                         *)
(* What a client sends is taken as it comes.  An account belongs to the    *)
(* string that was sent as the pseudonym, the hex digits in upper or lower *)
(* case and whatever follows the first 33 bytes included; an identity has  *)
(* a pseudonym under every service name, and the form does not compare the *)
(* name with the platform's own.  A nullifier is any value: nothing ties   *)
(* it to the proof.                                                        *)
(***************************************************************************)
EXTENDS Integers, FiniteSets

CONSTANTS
    Identity,       \* registered people
    Service,        \* service names that clients derive pseudonyms for
    Spelling,       \* ways to write the same bytes in hex
    OwnService,     \* the service name of this platform,
    OwnSpelling,    \* as its own configuration writes it
    Nullifier,      \* values sent as service nullifiers, once decoded
    Challenge,      \* random values CreateChallenge may draw, never twice
    Request,        \* concurrent requests the server is working on
    NULL,           \* no entry in the NullifierRegs map, no value
    ZoneOffset,     \* local time of the server minus UTC
    ValidFor,       \* a challenge is good for this long (5 minutes)
    KeptFor,        \* and may be deleted after this long (10 minutes)
    SessionFor,     \* life of a session (1 hour)
    MaxTime         \* bound: the clock stops here

\* The strings a client may send as its pseudonym and as a service name.
SpkHex == [identity: Identity, service: Service, spelling: Spelling]
Name == [service: Service, spelling: Spelling]

OwnName == [service |-> OwnService, spelling |-> OwnSpelling]

ASSUME NullAssumption ==
    NULL \notin Request \cup Challenge \cup Nullifier \cup SpkHex \cup Name
ASSUME OwnNameAssumption == OwnService \in Service /\ OwnSpelling \in Spelling
ASSUME TimeAssumption ==
    /\ ZoneOffset \in Int /\ MaxTime \in Nat
    /\ ValidFor \in Nat \ {0} /\ KeptFor \in Nat /\ SessionFor \in Nat
    /\ ValidFor <= KeptFor

VARIABLES
    clock,          \* UTC
    ring,           \* identities active in the contract
    challenges,     \* the challenges table
    users,          \* the users table: its primary keys, strings as sent
    sessions,       \* sessions held in memory
    registryOf,     \* NullifierRegs: which registry object a name leads to
    registry,       \* registry objects by name and the request that made them
    req,            \* what each request is doing
    uses,           \* history: submissions each challenge let through
    admitted,       \* history: times a nullifier got past the check under a
                    \* name since the server started
    overlapped,     \* history: two requests handled nullifiers at a time
                    \* since the server started
    welcomed        \* history: challenges of the sign-ups that made an account

stored == <<challenges, users>>
inMemory == <<sessions, registryOf, registry>>
history == <<uses, admitted, overlapped, welcomed>>
vars == <<clock, ring, stored, inMemory, req, history>>

\* "new" is not drawn yet; "gone" was deleted by the clean-up.
Row == [type: {"new", "signup", "login", "gone"}, used: BOOLEAN, created: Nat]

Session == [id: Challenge, spk: SpkHex, expiry: Nat]

Reply == {"none", "no challenge", "duplicate spk", "bad proof", "no account",
          "duplicate nullifier", "store failed", "aborted", "verified", "welcome"}

Handler == [at: {"done", "validate", "exists", "verify", "registry", "create",
                 "check", "register", "insert", "login", "session"},
            kind: {"signup", "login", "api"}, spk: SpkHex \cup {NULL},
            challenge: Challenge \cup {NULL}, name: Name \cup {NULL},
            nullifier: Nullifier \cup {NULL}, reg: Request \cup {NULL}, reply: Reply]

\* A request as it arrives: h is the pseudonym it sends, n the name of the
\* nullifier registry it is for.
begun(kind, h, c, n, nullifier) ==
    [at |-> IF kind = "api" THEN "verify" ELSE "validate", kind |-> kind, spk |-> h,
     challenge |-> c, name |-> n, nullifier |-> nullifier, reg |-> NULL, reply |-> "none"]

answered(answer) == [at |-> "done", kind |-> "api", spk |-> NULL, challenge |-> NULL,
                     name |-> NULL, nullifier |-> NULL, reg |-> NULL, reply |-> answer]

idle == answered("none")

\* History counters stop at two: the properties ask whether they pass one.
oneMore(n) == IF n < 2 THEN n + 1 ELSE n

Init ==
    /\ clock = 0
    /\ ring = Identity
    /\ challenges = [c \in Challenge |-> [type |-> "new", used |-> FALSE, created |-> 0]]
    /\ users = {}
    /\ sessions = {}
    /\ registryOf = [n \in Name |-> NULL]
    /\ registry = [object \in Name \X Request |-> {}]
    /\ req = [r \in Request |-> idle]
    /\ uses = [c \in Challenge |-> 0]
    /\ admitted = [entry \in Name \X Nullifier |-> 0]
    /\ overlapped = FALSE
    /\ welcomed = [h \in SpkHex |-> {}]

-------------------------------------------------------------------------------
(* Challenges.  SQLite stamps a row with CURRENT_TIMESTAMP, which is UTC,   *)
(* and compares that text with the local time the driver writes for a Go    *)
(* time.Time; neither carries its zone into the comparison.                 *)

localTime == clock + ZoneOffset

issue(c, type) ==
    /\ challenges[c].type = "new"
    /\ challenges' = [challenges EXCEPT ![c] =
                        [type |-> type, used |-> FALSE, created |-> clock]]

\* GET /signup, GET /login and GET /api/challenge.
HandleSignupForm == \E c \in Challenge : issue(c, "signup")
HandleLoginForm == \E c \in Challenge : issue(c, "login")
HandleAPIChallenge(type) == \E c \in Challenge : issue(c, type)

serveChallenge ==
    /\ \/ HandleSignupForm
       \/ HandleLoginForm
       \/ \E type \in {"signup", "login"} : HandleAPIChallenge(type)
    /\ UNCHANGED <<clock, ring, users, inMemory, req, history>>

\* Mutant of fresh: the used flag is not in the WHERE clause.
fresh_again(c, type) ==
    /\ challenges[c].type = type
    /\ challenges[c].created > localTime - ValidFor

\* The WHERE clause of ValidateChallenge.
fresh(c, type) ==
    /\ challenges[c].type = type
    /\ ~challenges[c].used
    /\ challenges[c].created > localTime - ValidFor

\* Mutant of stale: the window of ValidateChallenge, shifted by one.
stale_early(c) == challenges[c].created <= localTime - ValidFor + 1

\* The WHERE clause of CleanExpiredChallenges.
stale(c) == challenges[c].created < localTime - KeptFor

CleanExpiredChallenges ==
    LET old == {c \in Challenge : challenges[c].type \in {"signup", "login"} /\ stale(c)}
    IN  /\ old # {}
        /\ challenges' = [c \in Challenge |->
                IF c \in old THEN [challenges[c] EXCEPT !.type = "gone"] ELSE challenges[c]]
        /\ UNCHANGED <<clock, ring, users, inMemory, req, history>>

-------------------------------------------------------------------------------
(* Requests. *)

step(r, next) == req' = [req EXCEPT ![r].at = next]

\* A handler that answers is done and forgets what it was sent.
reply(r, answer) == req' = [req EXCEPT ![r] = answered(answer)]

receive(r, submission) ==
    /\ req[r].at = "done"
    /\ req' = [req EXCEPT ![r] = submission]
    /\ UNCHANGED <<clock, ring, stored, inMemory, history>>

\* A client has a challenge that was served.  The nullifier of a form belongs
\* to the registry of the platform, whatever service name is in the form; NULL
\* stands for none and for one that is not hex.
HandleSignupSubmit(r, h, c, nullifier) ==
    challenges[c].type # "new" /\ receive(r, begun("signup", h, c, OwnName, nullifier))
HandleLoginSubmit(r, h, c) ==
    challenges[c].type # "new" /\ receive(r, begun("login", h, c, NULL, NULL))

\* The API handler never looks its challenge up, and takes the registry of the
\* service name it is sent, its own if there is none.
HandleAPIVerifyRegistration(r, h, n, nullifier) ==
    receive(r, begun("api", h, NULL, n, nullifier))

\* One UPDATE checks the challenge and marks it, or fails; a login is told the
\* same in both cases.
ValidateChallenge(r) ==
    LET c == req[r].challenge
    IN  /\ req[r].at = "validate"
        /\ \/ /\ fresh(c, req[r].kind)
              /\ challenges' = [challenges EXCEPT ![c].used = TRUE]
              /\ uses' = [uses EXCEPT ![c] = oneMore(@)]
              /\ step(r, IF req[r].kind = "signup" THEN "exists" ELSE "login")
           \/ /\ ~fresh(c, req[r].kind)
              /\ reply(r, "no challenge")
              /\ UNCHANGED <<challenges, uses>>
           \/ /\ reply(r, IF req[r].kind = "signup" THEN "store failed" ELSE "no challenge")
              /\ UNCHANGED <<challenges, uses>>
        /\ UNCHANGED <<clock, ring, users, inMemory, admitted, overlapped, welcomed>>

UserExists(r) ==
    /\ req[r].at = "exists"
    /\ \/ /\ req[r].spk \notin users
          /\ step(r, "verify")
       \/ /\ req[r].spk \in users
          /\ reply(r, "duplicate spk")
       \/ reply(r, "store failed")
    /\ UNCHANGED <<clock, ring, stored, inMemory, history>>

handlesNullifier(r) == req[r].at \in {"registry", "create", "check", "register"}

\* Mutant of afterProof: the API makes accounts and sessions too.
afterProof_always(r) == step(r, "insert")

\* The API handler is done.  The form handler goes on to the account, unless it
\* panics where it logs the first 16 digits of a nullifier that has fewer.
afterProof(r) ==
    \/ req[r].kind = "api" /\ reply(r, "verified")
    \/ req[r].kind # "api" /\ step(r, "insert")
    \/ req[r].kind # "api" /\ reply(r, "aborted")

\* Only an identity of the ring has a proof, for the service name its pseudonym
\* was derived for: the one in the form, or the one that picks the registry.
provable(r) ==
    /\ req[r].spk.identity \in ring
    /\ req[r].kind = "api" => req[r].spk.service = req[r].name.service

\* Fetching the ring and RegistrationVerify.  A proof may yet be refused, and a
\* ring that became shorter than the prover's makes the handler panic.  Without
\* a nullifier the handler goes straight on.
RegistrationVerify(r) ==
    /\ req[r].at = "verify"
    /\ \/ /\ provable(r) /\ req[r].nullifier # NULL
          /\ step(r, "registry")
          /\ overlapped' = (overlapped \/ \E o \in Request : handlesNullifier(o))
       \/ /\ provable(r) /\ req[r].nullifier = NULL
          /\ afterProof(r)
          /\ UNCHANGED overlapped
       \/ /\ \E answer \in {"bad proof", "aborted"} : reply(r, answer)
          /\ UNCHANGED overlapped
    /\ UNCHANGED <<clock, ring, stored, inMemory, uses, admitted, welcomed>>

\* getNullifierRegistry reads the map,
findRegistry(r) ==
    LET found == registryOf[req[r].name]
    IN  /\ req[r].at = "registry"
        /\ IF found = NULL
           THEN step(r, "create")
           ELSE req' = [req EXCEPT ![r].at = "check", ![r].reg = found]
        /\ UNCHANGED <<clock, ring, stored, inMemory, history>>

\* and writes it without a lock when it found nothing.
createRegistry(r) ==
    /\ req[r].at = "create"
    /\ registryOf' = [registryOf EXCEPT ![req[r].name] = r]
    /\ req' = [req EXCEPT ![r].at = "check", ![r].reg = r]
    /\ UNCHANGED <<clock, ring, stored, sessions, registry, history>>

\* The registry object a request has in hand.
inHand(r) == <<req[r].name, req[r].reg>>

\* Mutant of known: an empty answer for every nullifier.
known_never(r) == FALSE

\* reg.Check.
known(r) == req[r].nullifier \in registry[inHand(r)]

checkNullifier(r) ==
    /\ req[r].at = "check"
    /\ \/ known(r) /\ reply(r, "duplicate nullifier")
       \/ ~known(r) /\ step(r, "register")
    /\ UNCHANGED <<clock, ring, stored, inMemory, history>>

\* reg.Register: its error, an entry that was made since the check, is dropped.
registerNullifier(r) ==
    /\ req[r].at = "register"
    /\ registry' = [registry EXCEPT ![inHand(r)] = @ \cup {req[r].nullifier}]
    /\ admitted' = [admitted EXCEPT ![<<req[r].name, req[r].nullifier>>] = oneMore(@)]
    /\ afterProof(r)
    /\ UNCHANGED <<clock, ring, stored, sessions, registryOf, uses, overlapped, welcomed>>

\* Mutant of insertable: INSERT OR REPLACE.
insertable_replace(h) == TRUE

\* The primary key of users.
insertable(h) == h \notin users

\* Mutant of notInserted: the error is logged and the handler goes on.
notInserted_goesOn(r) == step(r, "session")

notInserted(r) == reply(r, "store failed")

RegisterUser(r) ==
    /\ req[r].at = "insert"
    /\ \/ /\ insertable(req[r].spk)
          /\ users' = users \cup {req[r].spk}
          /\ welcomed' = [welcomed EXCEPT ![req[r].spk] = @ \cup {req[r].challenge}]
          /\ step(r, "session")
       \/ /\ notInserted(r)
          /\ UNCHANGED <<users, welcomed>>
    /\ UNCHANGED <<clock, ring, challenges, inMemory, uses, admitted, overlapped>>

loginLookup(h) == h \in users

\* GetUserBySPK and AuthVerify; the ring in the contract is not asked.
\* UpdateLastLogin follows and may fail without consequence.
AuthVerify(r) ==
    /\ req[r].at = "login"
    /\ \/ loginLookup(req[r].spk) /\ step(r, "session")
       \/ loginLookup(req[r].spk) /\ reply(r, "bad proof")
       \/ ~loginLookup(req[r].spk) /\ reply(r, "no account")
       \/ reply(r, "store failed")
    /\ UNCHANGED <<clock, ring, stored, inMemory, history>>

\* Sessions.Login, the last step of a sign-up and of a login.  A cookie is
\* told from others by the challenge it was earned with.
Login(r) ==
    /\ req[r].at = "session"
    /\ sessions' = sessions \cup {[id |-> req[r].challenge, spk |-> req[r].spk,
                                    expiry |-> clock + SessionFor]}
    /\ reply(r, "welcome")
    /\ UNCHANGED <<clock, ring, stored, registryOf, registry, history>>

-------------------------------------------------------------------------------
(* The rest of the system. *)

HandleLogout ==
    /\ \E session \in sessions : sessions' = sessions \ {session}
    /\ UNCHANGED <<clock, ring, stored, registryOf, registry, req, history>>

\* The session manager's own clean-up.
cleanup ==
    LET old == {session \in sessions : clock > session.expiry}
    IN  /\ old # {}
        /\ sessions' = sessions \ old
        /\ UNCHANGED <<clock, ring, stored, registryOf, registry, req, history>>

\* The server stops, on the runtime's own account when it notices that a map
\* is read and written at a time, and starts again with what is in SQLite.
restart ==
    /\ req' = [r \in Request |-> idle]
    /\ sessions' = {}
    /\ registryOf' = [n \in Name |-> NULL]
    /\ registry' = [object \in Name \X Request |-> {}]
    /\ admitted' = [entry \in Name \X Nullifier |-> 0]
    /\ overlapped' = FALSE
    /\ UNCHANGED <<clock, ring, stored, uses, welcomed>>

tick ==
    /\ clock < MaxTime
    /\ clock' = clock + 1
    /\ UNCHANGED <<ring, stored, inMemory, req, history>>

\* revokeID on the contract.
revoke ==
    /\ \E i \in ring : ring' = ring \ {i}
    /\ UNCHANGED <<clock, stored, inMemory, req, history>>

handlerStep(r) ==
    \/ ValidateChallenge(r)
    \/ UserExists(r)
    \/ RegistrationVerify(r)
    \/ findRegistry(r)
    \/ createRegistry(r)
    \/ checkNullifier(r)
    \/ registerNullifier(r)
    \/ RegisterUser(r)
    \/ AuthVerify(r)
    \/ Login(r)

Next ==
    \/ serveChallenge
    \/ CleanExpiredChallenges
    \/ \E r \in Request, h \in SpkHex, nullifier \in Nullifier \cup {NULL} :
        \/ \E c \in Challenge : HandleSignupSubmit(r, h, c, nullifier)
        \/ \E n \in Name : HandleAPIVerifyRegistration(r, h, n, nullifier)
    \/ \E r \in Request, h \in SpkHex, c \in Challenge : HandleLoginSubmit(r, h, c)
    \/ \E r \in Request : handlerStep(r)
    \/ HandleLogout
    \/ cleanup
    \/ restart
    \/ tick
    \/ revoke

Spec == Init /\ [][Next]_vars

-------------------------------------------------------------------------------
(* Properties. *)

TypeOK ==
    /\ clock \in 0..MaxTime
    /\ ring \subseteq Identity
    /\ challenges \in [Challenge -> Row]
    /\ users \subseteq SpkHex
    /\ sessions \subseteq Session
    /\ registryOf \in [Name -> Request \cup {NULL}]
    /\ registry \in [Name \X Request -> SUBSET Nullifier]
    /\ req \in [Request -> Handler]
    /\ uses \in [Challenge -> 0..2]
    /\ admitted \in [Name \X Nullifier -> 0..2]
    /\ overlapped \in BOOLEAN
    /\ welcomed \in [SpkHex -> SUBSET Challenge]

\* A challenge lets at most one submission through, ever: two requests that
\* present it together, a restart between two of them, or the clean-up of old
\* rows make no difference (sqlite.go:128, PHASE4_DETAILED_GUIDE.md:1863).
ChallengeServesOnce == \A c \in Challenge : uses[c] <= 1

\* Whoever signs up in time is never told that the challenge is gone: it is
\* only refused when it was used, is of the other type, or is older than
\* ValidFor, although the clean-up works by a clock and a comparison of its own.
\* A login is told so after a failure of the store too (main.go:423).
FreshChallengeAccepted ==
    [][\A r \in Request :
        /\ req[r].at = "validate" /\ req[r].kind = "signup"
        /\ req'[r].reply = "no challenge"
        => LET row == challenges[req[r].challenge]
           IN  \/ row.used
               \/ row.type \notin {"signup", "gone"}
               \/ clock - row.created >= ValidFor]_vars

\* An account is made by one challenge, and a challenge makes one account at
\* most: however many sign-ups run at the same time, for one key string or for
\* several, with nullifiers or without, and with failures, clean-ups and
\* restarts in between.
AccountsMatchChallenges ==
    \A g, h \in SpkHex : \A c \in welcomed[g], d \in welcomed[h] : g = h <=> c = d

\* The dashboard of a live session always finds the account behind it.
SessionHasAccount == \A session \in sessions : session.spk \in users

\* No challenge earns two cookies, so a submission that is sent twice cannot
\* leave a second session behind after the user logged out of the first.
OneSessionPerChallenge ==
    \A a, b \in sessions : a.id = b.id => a = b

\* Under one spelling of a service name the check lets a nullifier through
\* once per life of the server, as long as no two requests handle nullifiers at
\* the same time: also when form and API share a registry, or requests for other
\* names come in between.
NullifierAdmitsOnceAlone ==
    ~overlapped => \A n \in Name, nullifier \in Nullifier : admitted[<<n, nullifier>>] <= 1

\* "Prevents double registration forever" (nullifier.go:24): the check lets a
\* nullifier through once for a service.  When two requests overlap, both may
\* pass the check and the error of the second Register is dropped (main.go:350,
\* 660), or each creates a registry of its own (main.go:172).
NullifierAdmitsOnce ==
    \A n \in Name, nullifier \in Nullifier : admitted[<<n, nullifier>>] <= 1

\* "Challenges expire after 5 minutes" (PHASE4_DETAILED_GUIDE.md:1864).
ChallengesExpire ==
    [][\A c \in Challenge : uses[c]' > uses[c] =>
            clock - challenges[c].created < ValidFor]_vars

===============================================================================
