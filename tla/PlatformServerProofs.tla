------------------------ MODULE PlatformServerProofs ------------------------
(***************************************************************************)
(* Theorems about the platform server, for every number of identities,     *)
(* service names and ways to write them, nullifiers, challenges and        *)
(* concurrent requests, every time limit and every zone.                   *)
(***************************************************************************)
EXTENDS PlatformServer, TLAPS

\* Where a request is while it handles its nullifier.
Nullifying == {"registry", "create", "check", "register"}

\* What a request holds besides where it is.
Shape ==
    \A r \in Request :
        /\ req[r].at # "done" => req[r].spk \in SpkHex
        /\ req[r].kind # "api" => req[r].challenge \in Challenge
        /\ req[r].at \in {"validate", "exists", "insert", "login", "session"} =>
            req[r].kind # "api"
        /\ \/ req[r].at \in {"exists", "verify"} \cup Nullifying
           \/ req[r].at = "validate" /\ req[r].kind = "signup"
           => req[r].name \in Name
        /\ req[r].at \in Nullifying => req[r].nullifier \in Nullifier
        /\ req[r].at \in {"check", "register"} => req[r].reg \in Request

Fit == TypeOK /\ Shape

At == {"done", "validate", "exists", "verify", "registry", "create",
       "check", "register", "insert", "login", "session"}

-------------------------------------------------------------------------------
(* Updates of one request. *)

\* Only request r changes from f to g,
Others(r, f, g) == g \in [Request -> Handler] /\ \A q \in Request \ {r} : g[q] = f[q]

\* and it stays the same submission.
Keeps(r, f, g) ==
    /\ Others(r, f, g)
    /\ g[r].kind = f[r].kind /\ g[r].spk = f[r].spk /\ g[r].challenge = f[r].challenge
    /\ g[r].name = f[r].name /\ g[r].nullifier = f[r].nullifier

\* A request that was answered is a request.
LEMMA AnsweredType ==
    ASSUME NEW answer \in Reply
    PROVE  LET h == answered(answer)
           IN  /\ h \in Handler /\ h.at = "done" /\ h.kind = "api"
               /\ h.challenge = NULL /\ h.reply = answer
  BY DEF answered, Handler

\* A request that is idle is a request.
LEMMA IdleType ==
    /\ idle \in Handler /\ idle.at = "done" /\ idle.kind = "api"
    /\ idle.challenge = NULL /\ idle.reply = "none"
<1>1. "none" \in Reply
  BY DEF Reply
<1>2. QED
  BY <1>1, AnsweredType DEF idle

\* Moving a request on changes nothing but its stage.
LEMMA SetAt ==
    ASSUME NEW f \in [Request -> Handler], NEW r \in Request, NEW a \in At
    PROVE  LET g == [f EXCEPT ![r].at = a]
           IN  Keeps(r, f, g) /\ g[r].at = a /\ g[r].reg = f[r].reg
                /\ g[r].reply = f[r].reply
  BY DEF Keeps, Others, Handler, At

\* Storing a registry changes nothing but the registry.
LEMMA SetReg ==
    ASSUME NEW f \in [Request -> Handler], NEW r \in Request, NEW x \in Request
    PROVE  LET g == [f EXCEPT ![r].reg = x]
           IN  Keeps(r, f, g) /\ g[r].at = f[r].at /\ g[r].reg = x
  BY DEF Keeps, Others, Handler

\* Two updates of one request are one.
LEMMA KeepsTwice ==
    ASSUME NEW r \in Request, NEW f, NEW g, NEW h, Keeps(r, f, g), Keeps(r, g, h)
    PROVE  Keeps(r, f, h)
  BY DEF Keeps, Others

\* step moves a request on and keeps the submission.
LEMMA StepKeeps ==
    ASSUME req \in [Request -> Handler], NEW r \in Request, NEW a \in At, step(r, a)
    PROVE  /\ Keeps(r, req, req')
           /\ req'[r].at = a /\ req'[r].reg = req[r].reg
           /\ req'[r].reply = req[r].reply
<1> DEFINE g == [req EXCEPT ![r].at = a]
<1>1. Keeps(r, req, g) /\ g[r].at = a /\ g[r].reg = req[r].reg /\ g[r].reply = req[r].reply
  BY SetAt, Zenon
<1>2. req' = g
  BY DEF step
<1> HIDE DEF g
<1>3. QED
  BY <1>1, <1>2

\* reply ends a request and drops the submission.
LEMMA ReplyEnds ==
    ASSUME req \in [Request -> Handler], NEW r \in Request, NEW answer \in Reply,
           reply(r, answer)
    PROVE  /\ Others(r, req, req') /\ req'[r] = answered(answer)
           /\ req'[r].at = "done" /\ req'[r].reply = answer
<1>1. /\ answered(answer) \in Handler /\ answered(answer).at = "done"
      /\ answered(answer).reply = answer
  BY AnsweredType
<1>2. req' = [req EXCEPT ![r] = answered(answer)]
  BY DEF reply
<1>3. QED
  BY <1>1, <1>2 DEF Others

\* Going on to the check stores the registry and keeps the submission.
LEMMA CheckKeeps ==
    ASSUME req \in [Request -> Handler], NEW r \in Request, NEW x \in Request,
           req' = [req EXCEPT ![r].at = "check", ![r].reg = x]
    PROVE  Keeps(r, req, req') /\ req'[r].at = "check" /\ req'[r].reg = x
<1> DEFINE g == [req EXCEPT ![r].at = "check"]
           h == [g EXCEPT ![r].reg = x]
<1>0. "check" \in At
  BY DEF At
<1>1. Keeps(r, req, g) /\ g[r].at = "check"
  BY <1>0, SetAt, Zenon
<1>2. g \in [Request -> Handler]
  BY <1>1 DEF Keeps, Others
<1>3. req' = h
  OBVIOUS
<1> HIDE DEF g
<1>4. Keeps(r, g, h) /\ h[r].at = g[r].at /\ h[r].reg = x
  BY <1>2, SetReg, Zenon
<1> HIDE DEF h
<1>5. QED
  BY <1>1, <1>3, <1>4, KeepsTwice

Kind == {"signup", "login", "api"}

\* A request that begins holds what was submitted.
LEMMA BegunType ==
    ASSUME NEW k \in Kind, NEW h \in SpkHex, NEW c \in Challenge \cup {NULL},
           NEW n \in Name \cup {NULL}, NEW i \in Nullifier \cup {NULL}
    PROVE  LET d == begun(k, h, c, n, i)
           IN  /\ d \in Handler /\ d.kind = k /\ d.spk = h
               /\ d.at = IF k = "api" THEN "verify" ELSE "validate"
               /\ d.challenge = c /\ d.name = n /\ d.nullifier = i /\ d.reply = "none"
  BY DEF begun, Handler, Reply, Kind

\* receive begins one request and changes nothing else.
LEMMA ReceiveStep ==
    ASSUME req \in [Request -> Handler], NEW r \in Request, NEW d \in Handler,
           receive(r, d)
    PROVE  /\ req[r].at = "done" /\ Others(r, req, req') /\ req'[r] = d
           /\ UNCHANGED <<clock, ring, stored, inMemory, history>>
  BY DEF receive, Others

-------------------------------------------------------------------------------
(* What the step of a handler does to its request. *)

Came(r, from, to) ==
    /\ req[r].at = from /\ req'[r].at = to
    /\ req'[r].reg = req[r].reg /\ req'[r].reply = req[r].reply

\* A handler answers with something other than that the challenge is gone.
Answers(r) == \E answer \in Reply \ {"no challenge"} : req'[r] = answered(answer)

\* After the proof the API ends and a form goes on to the account or panics.
LEMMA AfterProofMoves ==
    ASSUME req \in [Request -> Handler], NEW r \in Request, afterProof(r)
    PROVE  /\ Others(r, req, req')
           /\ \/ Answers(r) /\ req'[r].at = "done"
              \/ /\ Keeps(r, req, req') /\ req[r].kind # "api" /\ req'[r].at = "insert"
                 /\ req'[r].reg = req[r].reg /\ req'[r].reply = req[r].reply
<1>1. {"verified", "aborted"} \subseteq Reply /\ "insert" \in At
  BY DEF Reply, At
<1>2. CASE reply(r, "verified") \/ reply(r, "aborted")
  BY <1>1, <1>2, ReplyEnds DEF Answers
<1>3. CASE req[r].kind # "api" /\ step(r, "insert")
  BY <1>1, <1>3, StepKeeps DEF Keeps
<1>4. QED
  BY <1>2, <1>3 DEF afterProof

\* What a handler step that does not answer does to its request.
Moves(r) ==
    /\ Keeps(r, req, req')
    /\ \/ Came(r, "validate", "exists") /\ req[r].kind = "signup"
       \/ Came(r, "validate", "login") /\ req[r].kind # "signup"
       \/ Came(r, "exists", "verify")
       \/ Came(r, "verify", "registry") /\ req[r].nullifier # NULL
       \/ Came(r, "verify", "insert") /\ req[r].kind # "api"
       \/ Came(r, "registry", "create") /\ registryOf[req[r].name] = NULL
       \/ /\ req[r].at = "registry" /\ req'[r].at = "check"
          /\ req'[r].reg = registryOf[req[r].name] /\ registryOf[req[r].name] # NULL
       \/ req[r].at = "create" /\ req'[r].at = "check" /\ req'[r].reg = r
       \/ Came(r, "check", "register") /\ ~known(r)
       \/ Came(r, "register", "insert") /\ req[r].kind # "api"
       \/ Came(r, "insert", "session") /\ insertable(req[r].spk)
       \/ Came(r, "login", "session") /\ loginLookup(req[r].spk)

\* A step of a handler answers or moves on; only a submission whose challenge is
\* not accepted and a login after a failure are answered "no challenge".
LEMMA HandlerMoves ==
    ASSUME Fit, NEW r \in Request, handlerStep(r)
    PROVE  /\ Others(r, req, req')
           /\ req[r].at # "done"
           /\ \/ Answers(r) /\ req'[r].at = "done"
              \/ /\ req'[r] = answered("no challenge") /\ req'[r].at = "done"
                 /\ req[r].kind = "signup" => ~fresh(req[r].challenge, req[r].kind)
              \/ Moves(r)
<1> USE DEF Came
<1>a. /\ {"exists", "login", "verify", "registry", "create", "register", "insert",
          "session"} \subseteq At
      /\ {"no challenge", "duplicate spk", "bad proof", "no account",
          "duplicate nullifier", "store failed", "aborted", "welcome"} \subseteq Reply
      /\ req \in [Request -> Handler]
  BY DEF At, Reply, Fit, TypeOK
<1>k. ASSUME NEW a \in At, step(r, a)
      PROVE  /\ Keeps(r, req, req') /\ Others(r, req, req')
             /\ req'[r].at = a /\ req'[r].reg = req[r].reg
             /\ req'[r].reply = req[r].reply
  BY <1>a, <1>k, StepKeeps DEF Keeps
<1>e. ASSUME NEW answer \in Reply \ {"no challenge"}, reply(r, answer)
      PROVE  Others(r, req, req') /\ Answers(r) /\ req'[r].at = "done"
  BY <1>a, <1>e, ReplyEnds DEF Answers
<1>1. CASE ValidateChallenge(r)
  <2>0. req[r].at = "validate"
    BY <1>1 DEF ValidateChallenge
  <2>1. CASE step(r, IF req[r].kind = "signup" THEN "exists" ELSE "login")
    BY <1>a, <1>k, <2>0, <2>1 DEF Moves
  <2>2. CASE reply(r, "no challenge") /\ ~fresh(req[r].challenge, req[r].kind)
    BY <1>a, <2>0, <2>2, ReplyEnds
  <2>3. CASE reply(r, IF req[r].kind = "signup" THEN "store failed" ELSE "no challenge")
    BY <1>a, <1>e, <2>0, <2>3, ReplyEnds
  <2>4. QED
    BY <1>1, <2>1, <2>2, <2>3 DEF ValidateChallenge
<1>2. CASE UserExists(r)
  BY <1>a, <1>k, <1>e, <1>2 DEF UserExists, Moves
<1>3. CASE RegistrationVerify(r)
  <2>1. CASE step(r, "registry") /\ req[r].nullifier # NULL
    BY <1>a, <1>k, <1>3, <2>1 DEF RegistrationVerify, Moves
  <2>2. CASE afterProof(r)
    BY <1>a, <1>3, <2>2, AfterProofMoves DEF RegistrationVerify, Moves
  <2>3. CASE \E answer \in {"bad proof", "aborted"} : reply(r, answer)
    BY <1>a, <1>e, <1>3, <2>3 DEF RegistrationVerify
  <2>4. QED
    BY <1>3, <2>1, <2>2, <2>3 DEF RegistrationVerify
<1>4. CASE findRegistry(r) /\ registryOf[req[r].name] = NULL
  BY <1>a, <1>k, <1>4 DEF findRegistry, Moves
<1>5. CASE findRegistry(r) /\ registryOf[req[r].name] # NULL
  <2>1. /\ req' = [req EXCEPT ![r].at = "check", ![r].reg = registryOf[req[r].name]]
        /\ req[r].at = "registry"
    BY <1>5 DEF findRegistry
  <2>2. registryOf[req[r].name] \in Request
    <3>1. req[r].name \in Name
      BY <2>1 DEF Fit, Shape, Nullifying
    <3>2. QED
      BY <1>5, <3>1 DEF Fit, TypeOK
  <2>3. PICK x \in Request : x = registryOf[req[r].name]
    BY <2>2
  <2>4. req' = [req EXCEPT ![r].at = "check", ![r].reg = x]
    BY <2>1, <2>3
  <2>5. Keeps(r, req, req') /\ req'[r].at = "check" /\ req'[r].reg = x
    BY <1>a, <2>4, CheckKeeps
  <2>6. QED
    BY <1>5, <2>1, <2>3, <2>5 DEF Moves, Keeps
<1>6. CASE createRegistry(r)
  BY <1>a, <1>6, CheckKeeps DEF createRegistry, Moves, Keeps
<1>7. CASE checkNullifier(r)
  BY <1>a, <1>k, <1>e, <1>7 DEF checkNullifier, Moves
<1>8. CASE registerNullifier(r)
  BY <1>a, <1>8, AfterProofMoves DEF registerNullifier, Moves
<1>9. CASE RegisterUser(r)
  BY <1>a, <1>k, <1>e, <1>9 DEF RegisterUser, notInserted, Moves
<1>10. CASE AuthVerify(r)
  BY <1>a, <1>k, <1>e, <1>10 DEF AuthVerify, Moves
<1>11. CASE Login(r)
  BY <1>a, <1>e, <1>11 DEF Login
<1>12. QED
  BY <1>1, <1>2, <1>3, <1>4, <1>5, <1>6, <1>7, <1>8, <1>9, <1>10, <1>11 DEF handlerStep

\* Steps outside the handlers leave the requests alone, begin one or drop all.
Begins(r) ==
    /\ req[r].at = "done"
    /\ Others(r, req, req')
    /\ req'[r].spk \in SpkHex /\ req'[r].reply = "none"
    /\ \/ /\ req'[r].at = "validate" /\ req'[r].kind \in {"signup", "login"}
          /\ req'[r].kind = "signup" => req'[r].name \in Name
          /\ req'[r].challenge \in Challenge
       \/ /\ req'[r].at = "verify" /\ req'[r].kind = "api" /\ req'[r].challenge = NULL
          /\ req'[r].name \in Name
    /\ UNCHANGED <<clock, ring, stored, inMemory, history>>

\* Any request that is received begins.
LEMMA ReceivedBegins ==
    ASSUME req \in [Request -> Handler], NEW r \in Request, NEW h \in SpkHex,
           NEW i \in Nullifier \cup {NULL},
           \/ \E c \in Challenge : HandleSignupSubmit(r, h, c, i) \/ HandleLoginSubmit(r, h, c)
           \/ \E n \in Name : HandleAPIVerifyRegistration(r, h, n, i)
    PROVE  Begins(r)
<1>1. ASSUME NEW c \in Challenge, HandleSignupSubmit(r, h, c, i) PROVE Begins(r)
  <2> DEFINE d == begun("signup", h, c, OwnName, i)
  <2>1. OwnName \in Name
    BY OwnNameAssumption DEF OwnName, Name
  <2>2. /\ d \in Handler /\ d.kind = "signup" /\ d.spk = h /\ d.at = "validate"
        /\ d.challenge = c /\ d.name \in Name /\ d.reply = "none"
    BY <2>1, BegunType DEF Kind
  <2>3. receive(r, d)
    BY <1>1 DEF HandleSignupSubmit
  <2> HIDE DEF d
  <2>4. QED
    BY <2>2, <2>3, ReceiveStep DEF Begins
<1>2. ASSUME NEW c \in Challenge, HandleLoginSubmit(r, h, c) PROVE Begins(r)
  <2> DEFINE d == begun("login", h, c, NULL, NULL)
  <2>1. /\ d \in Handler /\ d.kind = "login" /\ d.spk = h /\ d.at = "validate"
        /\ d.challenge = c /\ d.reply = "none"
    BY BegunType DEF Kind
  <2>2. receive(r, d)
    BY <1>2 DEF HandleLoginSubmit
  <2> HIDE DEF d
  <2>3. QED
    BY <2>1, <2>2, ReceiveStep DEF Begins
<1>3. ASSUME NEW n \in Name, HandleAPIVerifyRegistration(r, h, n, i) PROVE Begins(r)
  <2> DEFINE d == begun("api", h, NULL, n, i)
  <2>1. /\ d \in Handler /\ d.kind = "api" /\ d.spk = h /\ d.at = "verify"
        /\ d.challenge = NULL /\ d.name = n /\ d.reply = "none"
    BY BegunType DEF Kind
  <2>2. receive(r, d)
    BY <1>3 DEF HandleAPIVerifyRegistration
  <2> HIDE DEF d
  <2>3. QED
    BY <2>1, <2>2, ReceiveStep DEF Begins
<1>4. QED
  BY <1>1, <1>2, <1>3

\* Any other step leaves requests alone, begins one, or drops them all.
LEMMA OtherMoves ==
    ASSUME req \in [Request -> Handler], [Next]_vars, \A r \in Request : ~handlerStep(r)
    PROVE  /\ req' \in [Request -> Handler]
           /\ \/ UNCHANGED req
              \/ \E r \in Request : Begins(r)
              \/ restart /\ \A r \in Request : req'[r] = idle
<1>1. ASSUME NEW r \in Request, Begins(r) PROVE req' \in [Request -> Handler] /\ Begins(r)
  BY <1>1 DEF Begins, Others
<1>2. ASSUME NEW r \in Request, NEW h \in SpkHex, NEW c \in Challenge,
             HandleLoginSubmit(r, h, c)
      PROVE  Begins(r)
  BY <1>2, ReceivedBegins
<1>3. CASE restart
  BY <1>3, IdleType DEF restart
<1>4. CASE UNCHANGED vars
  BY <1>4 DEF vars
<1>5. CASE serveChallenge \/ CleanExpiredChallenges \/ HandleLogout \/ cleanup \/ tick \/ revoke
  BY <1>5 DEF serveChallenge, CleanExpiredChallenges, HandleLogout, cleanup, tick, revoke
<1>6. QED
  BY <1>1, <1>2, <1>3, <1>4, <1>5, ReceivedBegins DEF Next

\* Everything but the requests.
Shared == <<clock, ring, stored, inMemory, history>>

\* A step is one of a handler, the beginning of a request or one of the rest.
LEMMA StepKinds ==
    ASSUME req \in [Request -> Handler], [Next]_vars
    PROVE  \/ \E r \in Request : handlerStep(r)
           \/ UNCHANGED Shared
           \/ serveChallenge \/ CleanExpiredChallenges \/ HandleLogout \/ cleanup
           \/ restart \/ tick \/ revoke
<1>1. ASSUME NEW r \in Request, Begins(r) PROVE UNCHANGED Shared
  BY <1>1 DEF Begins, Shared
<1>2. ASSUME NEW r \in Request, NEW h \in SpkHex, NEW c \in Challenge,
             HandleLoginSubmit(r, h, c)
      PROVE  Begins(r)
  BY <1>2, ReceivedBegins
<1>3. UNCHANGED vars => UNCHANGED Shared
  BY DEF vars, Shared
<1>4. QED
  BY <1>1, <1>2, <1>3, ReceivedBegins DEF Next

-------------------------------------------------------------------------------
(* Types. *)

\* Every step keeps requests well formed.
LEMMA ShapeStep == ASSUME Fit, [Next]_vars PROVE req' \in [Request -> Handler] /\ Shape'
<1> USE DEF Fit, TypeOK
<1>1. ASSUME NEW r \in Request, handlerStep(r)
      PROVE  req' \in [Request -> Handler] /\ Shape'
  <2>1. /\ Others(r, req, req') /\ req[r].at # "done"
        /\ (\E answer \in Reply : req'[r] = answered(answer)) \/ Moves(r)
    <3>1. "no challenge" \in Reply
      BY DEF Reply
    <3>2. QED
      BY <1>1, <3>1, HandlerMoves DEF Answers
  <2>2. CASE \E answer \in Reply : req'[r] = answered(answer)
    <3>1. req'[r].at = "done" /\ req'[r].kind = "api"
      BY <2>2, AnsweredType
    <3>2. QED
      BY <2>1, <3>1 DEF Others, Shape, Nullifying
  <2>3. CASE Moves(r)
    <3>1. /\ req'[r].kind = req[r].kind /\ req'[r].spk = req[r].spk
          /\ req'[r].challenge = req[r].challenge /\ req'[r].name = req[r].name
          /\ req'[r].nullifier = req[r].nullifier /\ req'[r] \in Handler
          /\ req[r] \in Handler
      BY <2>1, <2>3 DEF Moves, Keeps, Others
    <3>2. /\ req[r].spk \in SpkHex
          /\ req[r].kind # "api" => req[r].challenge \in Challenge
      BY <2>1 DEF Shape
    <3>3. req'[r].at \in {"exists", "insert", "login", "session"} => req[r].kind # "api"
      BY <2>3 DEF Moves, Came, Shape
    <3>4. req'[r].at \in {"exists", "verify"} \cup Nullifying => req[r].name \in Name
      BY <2>3 DEF Moves, Came, Shape, Nullifying
    <3>5. req'[r].at \in Nullifying => req[r].nullifier \in Nullifier
      BY <2>3, <3>1 DEF Moves, Came, Shape, Nullifying, Handler
    <3>6. req'[r].at \in {"check", "register"} => req'[r].reg \in Request
      <4>1. req[r].at = "registry" => req[r].name \in Name
        BY DEF Shape, Nullifying
      <4>2. QED
        BY <2>3, <4>1 DEF Moves, Came, Shape
    <3>7. req'[r].at # "validate"
      BY <2>3 DEF Moves, Came
    <3>8. QED
      BY <2>1, <3>1, <3>2, <3>3, <3>4, <3>5, <3>6, <3>7 DEF Others, Shape
  <2>4. QED
    BY <2>1, <2>2, <2>3
<1>2. ASSUME \A r \in Request : ~handlerStep(r)
      PROVE  req' \in [Request -> Handler] /\ Shape'
  <2>1. /\ req' \in [Request -> Handler]
        /\ \/ UNCHANGED req
           \/ \E r \in Request : Begins(r)
           \/ \A r \in Request : req'[r] = idle
    BY <1>2, OtherMoves
  <2>2. ASSUME NEW r \in Request, Begins(r) PROVE Shape'
    BY <2>2 DEF Begins, Others, Shape, Nullifying
  <2>3. CASE \A r \in Request : req'[r] = idle
    BY <2>1, <2>3, IdleType DEF Shape, Nullifying
  <2>4. CASE UNCHANGED req
    BY <2>4 DEF Shape
  <2>5. QED
    BY <2>1, <2>2, <2>3, <2>4
<1>3. QED
  BY <1>1, <1>2

\* What a step does to one challenge.
Issued(c) ==
    /\ challenges[c].type = "new"
    /\ challenges'[c].type # "gone" /\ ~challenges'[c].used
    /\ UNCHANGED <<req, sessions, uses>>

CleanedUp(c) ==
    /\ stale(c)
    /\ challenges[c].type # "new"
    /\ challenges'[c].type = "gone"
    /\ challenges'[c].used = challenges[c].used
    /\ challenges'[c].created = challenges[c].created
    /\ UNCHANGED <<clock, uses>>

UsedUp(c) ==
    /\ challenges'[c].used
    /\ challenges'[c].type = challenges[c].type
    /\ \E r \in Request :
        /\ ValidateChallenge(r)
        /\ req[r].challenge = c
        /\ fresh(c, req[r].kind)
        /\ uses' = [uses EXCEPT ![c] = oneMore(@)]

\* A challenge stays, is issued, cleaned up or used up.
LEMMA ChallengeStep ==
    ASSUME TypeOK, [Next]_vars
    PROVE  /\ clock' \in 0..MaxTime /\ clock' >= clock
           /\ challenges' \in [Challenge -> Row]
           /\ \A c \in Challenge :
                \/ challenges'[c] = challenges[c] /\ uses'[c] = uses[c]
                \/ Issued(c) \/ CleanedUp(c) \/ UsedUp(c)
<1> USE TimeAssumption DEF TypeOK
<1>1. CASE serveChallenge
  <2>1. PICK d \in Challenge, t \in {"signup", "login"} : issue(d, t)
    BY <1>1 DEF serveChallenge, HandleSignupForm, HandleLoginForm, HandleAPIChallenge
  <2>2. /\ challenges[d].type = "new"
        /\ challenges' = [challenges EXCEPT ![d] =
                            [type |-> t, used |-> FALSE, created |-> clock]]
        /\ UNCHANGED <<clock, req, sessions, uses>>
    BY <1>1, <2>1 DEF serveChallenge, issue, inMemory, history
  <2>3. [type |-> t, used |-> FALSE, created |-> clock] \in Row
    BY DEF Row
  <2>4. challenges' \in [Challenge -> Row]
    BY <2>2, <2>3
  <2>5. \A c \in Challenge \ {d} : challenges'[c] = challenges[c]
    BY <2>2
  <2>6. challenges'[d].type # "gone" /\ ~challenges'[d].used
    BY <2>2
  <2>7. QED
    BY <2>2, <2>4, <2>5, <2>6 DEF Issued
<1>2. CASE CleanExpiredChallenges
  <2> DEFINE old == {c \in Challenge : challenges[c].type \in {"signup", "login"} /\ stale(c)}
  <2>1. /\ challenges' = [c \in Challenge |->
                IF c \in old THEN [challenges[c] EXCEPT !.type = "gone"] ELSE challenges[c]]
        /\ UNCHANGED <<clock, uses>>
    BY <1>2 DEF CleanExpiredChallenges, history
  <2>2. ASSUME NEW d \in Row
        PROVE  LET e == [d EXCEPT !.type = "gone"]
               IN  e \in Row /\ e.type = "gone" /\ e.used = d.used /\ e.created = d.created
    BY DEF Row
  <2>3. ASSUME NEW c \in Challenge
        PROVE  /\ challenges'[c] \in Row
               /\ challenges'[c] = challenges[c] \/ CleanedUp(c)
    <3>1. CASE c \in old
      <4>1. challenges'[c] = [challenges[c] EXCEPT !.type = "gone"]
        BY <2>1, <3>1
      <4>2. challenges[c] \in Row
        OBVIOUS
      <4>3. /\ challenges'[c] \in Row /\ challenges'[c].type = "gone"
            /\ challenges'[c].used = challenges[c].used
            /\ challenges'[c].created = challenges[c].created
        BY <2>2, <4>1, <4>2
      <4>4. QED
        BY <2>1, <3>1, <4>3 DEF CleanedUp
    <3>2. CASE c \notin old
      <4>1. challenges'[c] = challenges[c]
        BY <2>1, <3>2
      <4>2. QED
        BY <4>1
    <3>3. QED
      BY <3>1, <3>2
  <2>4. challenges' \in [Challenge -> Row]
    BY <2>1, <2>3
  <2>5. QED
    BY <2>1, <2>3, <2>4
<1>3. ASSUME NEW r \in Request, ValidateChallenge(r)
      PROVE  /\ clock' = clock
             /\ challenges' \in [Challenge -> Row]
             /\ \A c \in Challenge :
                  (challenges'[c] = challenges[c] /\ uses'[c] = uses[c]) \/ UsedUp(c)
  <2> DEFINE d == req[r].challenge
  <2>1. clock' = clock
    BY <1>3 DEF ValidateChallenge
  <2>2. CASE UNCHANGED <<challenges, uses>>
    BY <2>1, <2>2
  <2>3. CASE /\ challenges' = [challenges EXCEPT ![d].used = TRUE]
             /\ uses' = [uses EXCEPT ![d] = oneMore(@)]
             /\ fresh(d, req[r].kind)
    <3> HIDE DEF d
    <3>1. \A c \in Challenge \ {d} : challenges'[c] = challenges[c] /\ uses'[c] = uses[c]
      BY <2>3
    <3>2. challenges' \in [Challenge -> Row]
      BY <2>3 DEF Row
    <3>3. d \in Challenge =>
            challenges'[d].used /\ challenges'[d].type = challenges[d].type
      BY <2>3 DEF Row
    <3>4. d \in Challenge => UsedUp(d)
      BY <1>3, <2>3, <3>3 DEF d, UsedUp
    <3>5. QED
      BY <2>1, <3>1, <3>2, <3>4
  <2>4. QED
    BY <1>3, <2>2, <2>3 DEF ValidateChallenge
<1>4. CASE UNCHANGED <<clock, challenges, uses>>
  BY <1>4
<1>5. CASE tick
  BY <1>5 DEF tick, stored, history
<1>6. ASSUME NEW r \in Request, handlerStep(r), ~ValidateChallenge(r)
      PROVE  UNCHANGED <<clock, challenges, uses>>
  BY <1>6 DEF handlerStep, UserExists, RegistrationVerify, findRegistry, createRegistry,
              checkNullifier, registerNullifier, RegisterUser, AuthVerify, Login,
              stored, history
<1>7. CASE UNCHANGED Shared \/ HandleLogout \/ cleanup \/ restart \/ revoke
  BY <1>4, <1>7 DEF Shared, HandleLogout, cleanup, restart, revoke, stored, history
<1>8. QED
  BY <1>1, <1>2, <1>3, <1>4, <1>5, <1>6, <1>7, StepKinds

\* The variables that are neither the challenges nor the requests.
RestType ==
    /\ ring \subseteq Identity
    /\ users \subseteq SpkHex
    /\ sessions \subseteq Session
    /\ registryOf \in [Name -> Request \cup {NULL}]
    /\ registry \in [Name \X Request -> SUBSET Nullifier]
    /\ uses \in [Challenge -> 0..2]
    /\ admitted \in [Name \X Nullifier -> 0..2]
    /\ overlapped \in BOOLEAN
    /\ welcomed \in [SpkHex -> SUBSET Challenge]

\* Every step keeps the types of the remaining variables.
LEMMA RestTypeStep == ASSUME Fit, [Next]_vars PROVE RestType'
<1> USE DEF Fit, TypeOK, RestType, stored, inMemory, history
<1>1. ASSUME NEW r \in Request, handlerStep(r) PROVE RestType'
  <2>1. CASE ValidateChallenge(r)
    <3> DEFINE c == req[r].challenge
    <3>1. c \in Challenge
      BY <2>1 DEF ValidateChallenge, Shape
    <3>2. uses' = uses \/ uses' = [uses EXCEPT ![c] = oneMore(uses[c])]
      BY <2>1 DEF ValidateChallenge
    <3> HIDE DEF c
    <3>3. oneMore(uses[c]) \in 0..2
      BY <3>1 DEF oneMore
    <3>4. uses' \in [Challenge -> 0..2]
      BY <3>1, <3>2, <3>3
    <3>5. QED
      BY <2>1, <3>4 DEF ValidateChallenge
  <2>2. CASE UserExists(r) \/ findRegistry(r) \/ checkNullifier(r) \/ AuthVerify(r)
    BY <2>2 DEF UserExists, findRegistry, checkNullifier, AuthVerify
  <2>3. CASE RegistrationVerify(r)
    BY <2>3 DEF RegistrationVerify
  <2>4. CASE createRegistry(r)
    <3>1. req[r].name \in Name
      BY <2>4 DEF createRegistry, Shape, Nullifying
    <3>2. registryOf' \in [Name -> Request \cup {NULL}]
      BY <2>4, <3>1 DEF createRegistry
    <3>3. QED
      BY <2>4, <3>2 DEF createRegistry
  <2>5. CASE registerNullifier(r)
    <3> DEFINE n == req[r].name
               i == req[r].nullifier
               object == inHand(r)
    <3>1. n \in Name /\ i \in Nullifier /\ object \in Name \X Request
      BY <2>5 DEF registerNullifier, Shape, Nullifying, inHand
    <3>2. /\ registry' = [registry EXCEPT ![object] = @ \cup {i}]
          /\ admitted' = [admitted EXCEPT ![<<n, i>>] = oneMore(@)]
      BY <2>5 DEF registerNullifier
    <3> HIDE DEF n, i, object
    <3>3. oneMore(admitted[<<n, i>>]) \in 0..2
      BY <3>1 DEF oneMore
    <3>4. admitted' \in [Name \X Nullifier -> 0..2]
      BY <3>1, <3>2, <3>3
    <3>5. registry' \in [Name \X Request -> SUBSET Nullifier]
      BY <3>1, <3>2
    <3>6. QED
      BY <2>5, <3>4, <3>5 DEF registerNullifier
  <2>6. CASE RegisterUser(r)
    <3>1. req[r].spk \in SpkHex /\ req[r].challenge \in Challenge
      BY <2>6 DEF RegisterUser, Shape
    <3>2. welcomed' \in [SpkHex -> SUBSET Challenge] /\ users' \subseteq SpkHex
      BY <2>6, <3>1 DEF RegisterUser
    <3>3. QED
      BY <2>6, <3>2 DEF RegisterUser
  <2>7. CASE Login(r)
    <3>1. req[r].spk \in SpkHex /\ req[r].challenge \in Challenge
      BY <2>7 DEF Login, Shape
    <3>2. [id |-> req[r].challenge, spk |-> req[r].spk, expiry |-> clock + SessionFor] \in Session
      BY <3>1, TimeAssumption DEF Session
    <3>3. sessions' \subseteq Session
      BY <2>7, <3>2 DEF Login
    <3>4. QED
      BY <2>7, <3>3 DEF Login
  <2>8. QED
    BY <1>1, <2>1, <2>2, <2>3, <2>4, <2>5, <2>6, <2>7 DEF handlerStep
<1>2. CASE UNCHANGED Shared \/ serveChallenge \/ CleanExpiredChallenges \/ tick \/ revoke
  BY <1>2 DEF Shared, serveChallenge, CleanExpiredChallenges, tick, revoke
<1>3. CASE HandleLogout \/ cleanup
  BY <1>3 DEF HandleLogout, cleanup
<1>4. CASE restart
  <2>1. /\ registryOf' = [n \in Name |-> NULL]
        /\ registry' = [object \in Name \X Request |-> {}]
        /\ admitted' = [entry \in Name \X Nullifier |-> 0]
    BY <1>4, Zenon DEF restart
  <2>2. admitted' \in [Name \X Nullifier -> 0..2]
    BY <2>1
  <2>3. registry' \in [Name \X Request -> SUBSET Nullifier]
    BY <2>1
  <2>4. registryOf' \in [Name -> Request \cup {NULL}]
    BY <2>1
  <2>5. QED
    BY <1>4, <2>2, <2>3, <2>4 DEF restart
<1>5. QED
  BY <1>1, <1>2, <1>3, <1>4, StepKinds

\* Every step keeps the platform fit.
LEMMA FitStep == ASSUME Fit, [Next]_vars PROVE Fit'
  BY ShapeStep, ChallengeStep, RestTypeStep DEF Fit, TypeOK, RestType

\* The platform starts in a fit state.
LEMMA FitInit == Init => Fit
<1> SUFFICES ASSUME Init PROVE Fit
  OBVIOUS
<1> USE DEF Init
<1>1. 0 \in 0..MaxTime /\ 0 \in 0..2
  BY TimeAssumption
<1>2. challenges \in [Challenge -> Row]
  BY <1>1 DEF Row
<1>3. req \in [Request -> Handler] /\ \A r \in Request : req[r] = idle
  BY IdleType
<1>4. /\ uses \in [Challenge -> 0..2]
      /\ admitted \in [Name \X Nullifier -> 0..2]
      /\ welcomed \in [SpkHex -> SUBSET Challenge]
  BY <1>1
<1>5. /\ registryOf \in [Name -> Request \cup {NULL}]
      /\ registry \in [Name \X Request -> SUBSET Nullifier]
  OBVIOUS
<1>6. TypeOK
  BY <1>1, <1>2, <1>3, <1>4, <1>5 DEF TypeOK
<1>7. Shape
  BY <1>3, IdleType DEF Shape, Nullifying
<1>8. QED
  BY <1>6, <1>7 DEF Fit

\* Type correctness; as a by-product, a handler never goes on with a pseudonym,
\* a challenge or a registry it does not have.
THEOREM TypeCorrect == Spec => []TypeOK
<1>1. Fit => TypeOK
  BY DEF Fit
<1>2. QED
  BY <1>1, FitInit, FitStep, PTL DEF Spec

\* The platform is fit throughout.
LEMMA AlwaysFit == Spec => []Fit
  BY FitInit, FitStep, PTL DEF Spec

-------------------------------------------------------------------------------
(* Accounts and sessions. *)

\* Accounts only grow, by RegisterUser; sessions grow by Login only.
LEMMA AccountStep ==
    ASSUME Fit, [Next]_vars
    PROVE  /\ users \subseteq users'
           /\ UNCHANGED <<users, welcomed>> \/ \E r \in Request : RegisterUser(r)
           /\ sessions' \subseteq sessions \/ \E r \in Request : Login(r)
<1> USE DEF stored, inMemory, history
<1>1. ASSUME NEW r \in Request, RegisterUser(r)
      PROVE  users \subseteq users' /\ sessions' = sessions
  BY <1>1 DEF RegisterUser
<1>2. ASSUME NEW r \in Request, Login(r) PROVE UNCHANGED <<users, welcomed>>
  BY <1>2 DEF Login
<1>3. ASSUME NEW r \in Request, handlerStep(r), ~RegisterUser(r), ~Login(r)
      PROVE  UNCHANGED <<users, welcomed, sessions>>
  BY <1>3 DEF handlerStep, ValidateChallenge, UserExists, RegistrationVerify, findRegistry,
              createRegistry, checkNullifier, registerNullifier, AuthVerify
<1>4. CASE UNCHANGED Shared \/ serveChallenge \/ CleanExpiredChallenges \/ tick \/ revoke
  BY <1>4 DEF Shared, serveChallenge, CleanExpiredChallenges, tick, revoke
<1>5. CASE HandleLogout \/ cleanup \/ restart
  BY <1>5 DEF HandleLogout, cleanup, restart
<1>6. QED
  BY <1>1, <1>2, <1>3, <1>4, <1>5, StepKinds DEF Fit, TypeOK

\* A request that is about to make a session has its account already.
Accounts ==
    /\ \A session \in sessions : session.spk \in users
    /\ \A r \in Request : req[r].at = "session" => req[r].spk \in users

\* Every step keeps sessions and their accounts together.
LEMMA AccountsStep == ASSUME Fit, Accounts, [Next]_vars PROVE Accounts'
<1> USE DEF Fit, TypeOK
<1>1. ASSUME NEW session \in sessions' PROVE session.spk \in users'
  <2>1. CASE session \in sessions
    BY <2>1, AccountStep DEF Accounts
  <2>2. ASSUME NEW r \in Request, Login(r), session \notin sessions
        PROVE  session.spk \in users'
    <3>1. session.spk = req[r].spk /\ req[r].at = "session"
      BY <2>2 DEF Login
    <3>2. QED
      BY <3>1, AccountStep DEF Accounts
  <2>3. QED
    BY <2>1, <2>2, AccountStep
<1>2. ASSUME NEW r \in Request, req'[r].at = "session" PROVE req'[r].spk \in users'
  <2>1. CASE req'[r] = req[r]
    BY <1>2, <2>1, AccountStep DEF Accounts
  <2>2. ASSUME NEW q \in Request, handlerStep(q) PROVE req'[r].spk \in users'
    <3>1. CASE q # r
      <4>1. req'[r] = req[r]
        BY <2>2, <3>1, HandlerMoves DEF Others
      <4>2. QED
        BY <2>1, <4>1
    <3>2. CASE q = r
      <4>1. req'[r].spk = req[r].spk
        BY <1>2, <2>2, <3>2, HandlerMoves DEF Moves, Keeps
      <4>2. \/ Came(r, "insert", "session")
            \/ Came(r, "login", "session") /\ loginLookup(req[r].spk)
        BY <1>2, <2>2, <3>2, HandlerMoves DEF Moves, Came
      <4>3. CASE Came(r, "login", "session") /\ loginLookup(req[r].spk)
        BY <4>1, <4>3, AccountStep DEF loginLookup
      <4>4. CASE Came(r, "insert", "session")
        <5>1. RegisterUser(r)
          BY <2>2, <3>2, <4>4 DEF Came, handlerStep, ValidateChallenge, UserExists,
             RegistrationVerify, findRegistry, createRegistry, checkNullifier,
             registerNullifier, AuthVerify, Login
        <5>2. ~notInserted(r)
          <6>1. notInserted(r) => req'[r].at = "done"
            BY ReplyEnds DEF notInserted, Reply
          <6>2. QED
            BY <1>2, <6>1
        <5>3. users' = users \cup {req[r].spk}
          BY <5>1, <5>2 DEF RegisterUser
        <5>4. QED
          BY <4>1, <5>3
      <4>5. QED
        BY <4>2, <4>3, <4>4
    <3>3. QED
      BY <3>1, <3>2
  <2>3. CASE \A q \in Request : ~handlerStep(q)
    <3>1. req'[r] = req[r] \/ req'[r].at \in {"done", "validate", "verify"}
      BY <2>3, OtherMoves, IdleType DEF Begins, Others
    <3>2. QED
      BY <1>2, <2>1, <3>1
  <2>4. QED
    BY <2>2, <2>3
<1>3. QED
  BY <1>1, <1>2 DEF Accounts

\* Every session has its account, whatever went on between the two.
THEOREM SessionsHaveAccounts == Spec => []SessionHasAccount
<1>1. Init => Accounts
  BY IdleType DEF Init, Accounts
<1>2. Fit /\ Accounts /\ [Next]_vars => Accounts'
  BY AccountsStep
<1>3. Accounts => SessionHasAccount
  BY DEF Accounts, SessionHasAccount
<1>4. QED
  BY <1>1, <1>2, <1>3, AlwaysFit, PTL DEF Spec

-------------------------------------------------------------------------------
(* A challenge is good for one submission. *)

Spent(c) == challenges[c].used /\ challenges[c].type # "new"

\* A used challenge is never unused again.
LEMMA SpentStays ==
    ASSUME Fit, [Next]_vars, NEW c \in Challenge, Spent(c) PROVE Spent(c)'
<1>1. \/ challenges'[c] = challenges[c]
      \/ Issued(c) \/ CleanedUp(c) \/ UsedUp(c)
  BY ChallengeStep DEF Fit
<1>2. QED
  BY <1>1 DEF Spent, Issued, CleanedUp, UsedUp

\* A use leaves the row used; a used row is never served anew.
Uses == \A c \in Challenge : uses[c] <= 1 /\ (uses[c] # 0 => Spent(c))

\* Every step keeps the count of uses at one.
LEMMA UsesStep == ASSUME Fit, Uses, [Next]_vars PROVE Uses'
<1> SUFFICES ASSUME NEW c \in Challenge PROVE (uses[c] <= 1 /\ (uses[c] # 0 => Spent(c)))'
  BY DEF Uses
<1>1. uses[c] <= 1 /\ (uses[c] # 0 => Spent(c) /\ Spent(c)')
  BY SpentStays DEF Uses
<1>2. CASE uses'[c] = uses[c]
  BY <1>1, <1>2
<1>3. CASE UsedUp(c)
  <2>1. PICK r \in Request : /\ ValidateChallenge(r) /\ fresh(c, req[r].kind)
                             /\ uses' = [uses EXCEPT ![c] = oneMore(@)]
    BY <1>3 DEF UsedUp
  <2>2. uses[c] = 0
    BY <1>1, <2>1 DEF fresh, Spent, Fit, TypeOK
  <2>3. uses'[c] = 1
    BY <2>1, <2>2 DEF oneMore, Fit, TypeOK
  <2>4. challenges[c].type # "new"
    BY <2>1 DEF fresh, Fit, TypeOK, Handler
  <2>5. Spent(c)'
    BY <1>3, <2>4 DEF UsedUp, Spent
  <2>6. QED
    BY <2>3, <2>5
<1>4. QED
  BY <1>2, <1>3, ChallengeStep DEF Issued, CleanedUp, Fit

\* A challenge lets one submission through, for any number of requests that
\* present it, restarts and clean-ups.
THEOREM ChallengeOnce == Spec => []ChallengeServesOnce
<1>1. Init => Uses
  BY DEF Init, Uses
<1>2. Fit /\ Uses /\ [Next]_vars => Uses'
  BY UsesStep
<1>3. Uses => ChallengeServesOnce
  BY DEF Uses, ChallengeServesOnce
<1>4. QED
  BY <1>1, <1>2, <1>3, AlwaysFit, PTL DEF Spec

\* A challenge that was let through is in one place: a request that has not
\* ended, or a session, or nowhere any more.
Holds(r, c) == req[r].at \notin {"done", "validate"} /\ req[r].challenge = c

OnePlace(c) ==
    /\ \A q, r \in Request : Holds(q, c) /\ Holds(r, c) => q = r
    /\ \A r \in Request : Holds(r, c) => Spent(c) /\ \A a \in sessions : a.id # c
    /\ \A a \in sessions : a.id = c => Spent(c)
    /\ \A a, b \in sessions : a.id = c /\ b.id = c => a = b

\* A request comes to hold a challenge by validating it only.
LEMMA HoldsStep ==
    ASSUME Fit, [Next]_vars, NEW c \in Challenge, NEW r \in Request, Holds(r, c)'
    PROVE  \/ Holds(r, c)
           \/ /\ ValidateChallenge(r) /\ fresh(c, req[r].kind) /\ Spent(c)'
              /\ sessions' = sessions
              /\ \A q \in Request \ {r} : req'[q] = req[q]
<1> USE DEF Fit, TypeOK
<1>0. req'[r].at \notin {"done", "validate"} /\ req'[r].challenge = c
  BY DEF Holds
<1>1. CASE req'[r] = req[r]
  BY <1>0, <1>1 DEF Holds
<1>2. ASSUME NEW q \in Request, handlerStep(q), q # r PROVE req'[r] = req[r]
  BY <1>2, HandlerMoves DEF Others
<1>3. CASE handlerStep(r)
  <2>1. /\ Keeps(r, req, req') /\ req[r].challenge = c /\ req[r].at # "done"
    BY <1>0, <1>3, HandlerMoves DEF Moves, Keeps
  <2>2. CASE req[r].at # "validate"
    BY <2>1, <2>2 DEF Holds
  <2>3. CASE req[r].at = "validate"
    <3>1. ValidateChallenge(r)
      BY <1>3, <2>3 DEF handlerStep, UserExists, RegistrationVerify, findRegistry,
         createRegistry, checkNullifier, registerNullifier, RegisterUser, AuthVerify, Login
    <3>2. \A answer \in {"no challenge", "store failed"} : ~reply(r, answer)
      BY <1>0, ReplyEnds DEF Reply
    <3>3. fresh(c, req[r].kind) /\ challenges' = [challenges EXCEPT ![c].used = TRUE]
      BY <2>1, <3>1, <3>2 DEF ValidateChallenge
    <3>4. challenges[c].type # "new"
      BY <3>3 DEF fresh, Handler
    <3>5. Spent(c)'
      BY <3>3, <3>4 DEF Spent, Row
    <3>6. sessions' = sessions
      BY <3>1 DEF ValidateChallenge, inMemory
    <3>7. QED
      BY <2>1, <3>1, <3>3, <3>5, <3>6 DEF Keeps, Others
  <2>4. QED
    BY <2>2, <2>3
<1>4. CASE \A q \in Request : ~handlerStep(q)
  <2>1. \/ req'[r] = req[r]
        \/ req'[r].at \in {"done", "validate"}
        \/ req'[r].challenge = NULL
    BY <1>4, OtherMoves, IdleType DEF Begins, Others
  <2>2. QED
    BY <1>0, <1>1, <2>1, NullAssumption
<1>5. QED
  BY <1>1, <1>2, <1>3, <1>4

\* Every step keeps a challenge in one place.
LEMMA OnePlaceStep ==
    ASSUME Fit, [Next]_vars, NEW c \in Challenge, OnePlace(c) PROVE OnePlace(c)'
<1> USE DEF Fit, TypeOK
<1>s. Spent(c) => Spent(c)'
  BY SpentStays
<1>1. ASSUME NEW r \in Request, ValidateChallenge(r), fresh(c, req[r].kind), Spent(c)',
             sessions' = sessions, \A q \in Request \ {r} : req'[q] = req[q]
      PROVE  OnePlace(c)'
  <2>1. ~Spent(c)
    BY <1>1 DEF fresh, Spent
  <2>2. (\A q \in Request : ~Holds(q, c)) /\ \A a \in sessions : a.id # c
    BY <2>1 DEF OnePlace
  <2>3. \A q \in Request \ {r} : ~Holds(q, c)'
    BY <1>1, <2>2 DEF Holds
  <2>4. QED
    BY <1>1, <2>2, <2>3 DEF OnePlace
<1>2. ASSUME \A r \in Request : Holds(r, c)' => Holds(r, c), sessions' \subseteq sessions
      PROVE  OnePlace(c)'
  BY <1>2, <1>s DEF OnePlace
<1>3. ASSUME \A r \in Request : Holds(r, c)' => Holds(r, c),
             NEW r \in Request, Login(r)
      PROVE  OnePlace(c)'
  <2> DEFINE new == [id |-> req[r].challenge, spk |-> req[r].spk,
                     expiry |-> clock + SessionFor]
  <2>1. sessions' = sessions \cup {new} /\ req[r].at = "session" /\ new.id = req[r].challenge
    BY <1>3 DEF Login
  <2>2. req'[r].at = "done"
    BY <1>3, ReplyEnds DEF Login, Reply
  <2> HIDE DEF new
  <2>3. CASE new.id # c
    BY <1>3, <1>s, <2>1, <2>3 DEF OnePlace
  <2>4. CASE new.id = c
    <3>1. Holds(r, c) /\ ~Holds(r, c)'
      BY <2>1, <2>2, <2>4 DEF Holds
    <3>2. Spent(c) /\ (\A a \in sessions : a.id # c) /\ \A q \in Request : ~Holds(q, c)'
      BY <1>3, <3>1 DEF OnePlace
    <3>3. QED
      BY <1>s, <2>1, <3>2 DEF OnePlace
  <2>5. QED
    BY <2>3, <2>4
<1>4. QED
  BY <1>1, <1>2, <1>3, HoldsStep, AccountStep

\* No challenge earns two sessions.
THEOREM SessionOnce == Spec => []OneSessionPerChallenge
<1> DEFINE Inv == \A c \in Challenge : OnePlace(c)
<1>1. Init => Inv
  BY IdleType DEF Init, OnePlace, Holds
<1>2. Fit /\ Inv /\ [Next]_vars => Inv'
  BY OnePlaceStep
<1>3. Fit /\ Inv => OneSessionPerChallenge
  BY DEF Fit, TypeOK, Session, OnePlace, OneSessionPerChallenge
<1> HIDE DEF Inv
<1>4. QED
  BY <1>1, <1>2, <1>3, AlwaysFit, PTL DEF Spec

\* Whoever was welcomed has the row that keeps a second sign-up out, by one
\* challenge, whose holder is past the insertion.
Welcome ==
    /\ \A h \in SpkHex : welcomed[h] # {} => h \in users
    /\ \A h \in SpkHex : \A c, d \in welcomed[h] : c = d
    /\ \A g, h \in SpkHex : \A c \in welcomed[g] : c \in welcomed[h] => g = h
    /\ \A h \in SpkHex : \A c \in welcomed[h] :
        Spent(c) /\ \A r \in Request : Holds(r, c) => req[r].at = "session"

\* Whoever holds a challenge of a welcome is past the insertion and stays there.
LEMMA WelcomeHolds ==
    ASSUME Fit, [Next]_vars, NEW c \in Challenge, Spent(c),
           \A r \in Request : Holds(r, c) => req[r].at = "session"
    PROVE  Spent(c)' /\ \A r \in Request : Holds(r, c)' => req'[r].at = "session"
<1>1. Spent(c)'
  BY SpentStays
<1>2. ASSUME NEW r \in Request, Holds(r, c)' PROVE req'[r].at = "session"
  <2>1. ~\E k \in Kind : fresh(c, k)
    BY DEF fresh, Spent
  <2>2. ~fresh(c, req[r].kind)
    BY <2>1 DEF Fit, TypeOK, Handler, Kind
  <2>3. req[r].at = "session"
    BY <1>2, <2>2, HoldsStep
  <2>4. req'[r].at \notin {"done", "validate"} /\ req'[r].challenge = c
    BY <1>2 DEF Holds
  <2>5. CASE req'[r] = req[r]
    BY <2>3, <2>5
  <2>6. ASSUME NEW q \in Request, handlerStep(q) PROVE req'[r] = req[r]
    BY <2>3, <2>4, <2>6, HandlerMoves DEF Others, Moves, Came
  <2>7. CASE \A q \in Request : ~handlerStep(q)
    <3>1. req'[r] = req[r] \/ req'[r].at \in {"done", "validate"} \/ req'[r].challenge = NULL
      BY <2>7, OtherMoves, IdleType DEF Begins, Others, Fit, TypeOK
    <3>2. QED
      BY <2>4, <2>5, <3>1, NullAssumption
  <2>8. QED
    BY <2>5, <2>6, <2>7
<1>3. QED
  BY <1>1, <1>2

\* Every step keeps welcomes, rows and challenges together.
LEMMA WelcomeStep ==
    ASSUME Fit, Welcome, \A c \in Challenge : OnePlace(c), [Next]_vars PROVE Welcome'
<1> USE DEF Fit, TypeOK
<1>1. CASE UNCHANGED <<users, welcomed>>
  <2>1. ASSUME NEW h \in SpkHex, NEW c \in welcomed[h]
        PROVE  Spent(c)' /\ \A r \in Request : Holds(r, c)' => req'[r].at = "session"
    <3>1. c \in Challenge
      OBVIOUS
    <3>2. Spent(c) /\ \A r \in Request : Holds(r, c) => req[r].at = "session"
      BY DEF Welcome
    <3>3. QED
      BY <3>1, <3>2, WelcomeHolds
  <2>2. QED
    BY <1>1, <2>1 DEF Welcome
<1>2. ASSUME NEW r \in Request, RegisterUser(r), ~UNCHANGED <<users, welcomed>>
      PROVE  Welcome'
  <2>1. req[r].at = "insert"
    BY <1>2 DEF RegisterUser
  <2>2. PICK h \in SpkHex, c \in Challenge :
            h = req[r].spk /\ c = req[r].challenge /\ Holds(r, c)
    BY <2>1 DEF Shape, Holds
  <2>3. /\ h \notin users /\ users' = users \cup {h}
        /\ welcomed' = [welcomed EXCEPT ![h] = @ \cup {c}]
        /\ step(r, "session") /\ UNCHANGED challenges
    BY <1>2, <2>2 DEF RegisterUser, insertable
  <2>4. Keeps(r, req, req') /\ req'[r].at = "session"
    BY <2>3, StepKeeps DEF At
  <2>5. Spent(c) /\ \A q \in Request : Holds(q, c) => q = r
    BY <2>2 DEF OnePlace
  <2>6. \A g \in SpkHex : c \notin welcomed[g]
    BY <2>1, <2>2, <2>3 DEF Welcome
  <2>7. Spent(c)' /\ \A q \in Request : Holds(q, c)' => req'[q].at = "session"
    BY <2>2, <2>3, <2>4, <2>5 DEF Spent, Holds, Keeps, Others
  <2>8. ASSUME NEW g \in SpkHex, NEW d \in welcomed[g]
        PROVE  Spent(d)' /\ \A q \in Request : Holds(q, d)' => req'[q].at = "session"
    <3>1. d \in Challenge
      OBVIOUS
    <3>2. Spent(d) /\ \A q \in Request : Holds(q, d) => req[q].at = "session"
      BY DEF Welcome
    <3>3. QED
      BY <3>1, <3>2, WelcomeHolds
  <2>9. welcomed[h] = {}
    BY <2>2, <2>3 DEF Welcome
  <2>10. welcomed' = [welcomed EXCEPT ![h] = {c}]
    BY <2>3, <2>9
  <2>11. welcomed'[h] = {c} /\ \A g \in SpkHex \ {h} : welcomed'[g] = welcomed[g]
    BY <2>2, <2>10
  <2>12. \A g \in SpkHex : welcomed'[g] # {} => g \in users'
    BY <2>3, <2>11 DEF Welcome
  <2>13. \A g \in SpkHex : \A d, e \in welcomed'[g] : d = e
    BY <2>3, <2>11 DEF Welcome
  <2>14. \A f, g \in SpkHex : \A d \in welcomed'[f] : d \in welcomed'[g] => f = g
    BY <2>6, <2>11 DEF Welcome
  <2>15. ASSUME NEW g \in SpkHex, NEW d \in welcomed'[g]
         PROVE  Spent(d)' /\ \A q \in Request : Holds(q, d)' => req'[q].at = "session"
    <3>1. d = c \/ d \in welcomed[g]
      BY <2>11
    <3>2. QED
      BY <2>7, <2>8, <3>1
  <2>16. QED
    BY <2>12, <2>13, <2>14, <2>15 DEF Welcome
<1>3. QED
  BY <1>1, <1>2, AccountStep

\* Every account of a key string was made by one challenge and every challenge
\* made one account at most, for any number of concurrent attempts, clean-ups
\* and restarts.
THEOREM SignupOnce == Spec => []AccountsMatchChallenges
<1> DEFINE Inv == Welcome /\ \A c \in Challenge : OnePlace(c)
<1>1. Init => Inv
  BY IdleType DEF Init, Welcome, OnePlace, Holds
<1>2. Fit /\ Inv /\ [Next]_vars => Inv'
  BY WelcomeStep, OnePlaceStep
<1>3. Inv => AccountsMatchChallenges
  BY DEF Welcome, AccountsMatchChallenges
<1> HIDE DEF Inv
<1>4. QED
  BY <1>1, <1>2, <1>3, AlwaysFit, PTL DEF Spec

\* What was cleaned up was out of date, unless the server's clock is ahead of UTC.
Outdated ==
    \A c \in Challenge :
        challenges[c].type = "gone" => challenges[c].created < localTime - KeptFor

\* Every step keeps cleaned-up challenges outdated.
LEMMA OutdatedStep == ASSUME Fit, Outdated, [Next]_vars PROVE Outdated'
<1> SUFFICES ASSUME NEW c \in Challenge, challenges'[c].type = "gone"
             PROVE  challenges'[c].created < localTime' - KeptFor
  BY DEF Outdated
<1>t. /\ clock \in Int /\ clock' \in Int /\ ZoneOffset \in Int /\ KeptFor \in Int
      /\ challenges[c].created \in Int /\ clock' >= clock
  BY ChallengeStep, TimeAssumption DEF Fit, TypeOK, Row
<1>1. CASE challenges'[c] = challenges[c]
  BY <1>t, <1>1 DEF Outdated, localTime
<1>2. CASE CleanedUp(c)
  BY <1>t, <1>2 DEF CleanedUp, stale, localTime
<1>3. CASE Issued(c)
  BY <1>3 DEF Issued
<1>4. CASE UsedUp(c)
  <2>1. challenges[c].type # "gone"
    BY <1>4 DEF UsedUp, fresh, Fit, TypeOK, Handler
  <2>2. QED
    BY <1>4, <2>1 DEF UsedUp
<1>5. QED
  BY <1>1, <1>2, <1>3, <1>4, ChallengeStep DEF Fit

\* A submission that waits for its challenge has had no answer.
Unanswered == \A r \in Request : req[r].at = "validate" => req[r].reply = "none"

\* Every step keeps waiting submissions unanswered.
LEMMA UnansweredStep == ASSUME Fit, Unanswered, [Next]_vars PROVE Unanswered'
<1> USE DEF Fit, TypeOK
<1>1. ASSUME NEW q \in Request, handlerStep(q) PROVE Unanswered'
  <2>1. Others(q, req, req') /\ req'[q].at # "validate"
    BY <1>1, HandlerMoves DEF Moves, Came
  <2>2. QED
    BY <2>1 DEF Unanswered, Others
<1>2. ASSUME \A q \in Request : ~handlerStep(q) PROVE Unanswered'
  BY <1>2, OtherMoves, IdleType DEF Begins, Others, Unanswered
<1>3. QED
  BY <1>1, <1>2

\* On a server in UTC or west of it, whoever signs up in time is never told that
\* the challenge is gone, whenever the clean-up runs.
THEOREM FreshAccepted ==
    ASSUME ZoneOffset <= 0 PROVE Spec => FreshChallengeAccepted
<1> DEFINE Late(r) == LET row == challenges[req[r].challenge]
                      IN  \/ row.used
                          \/ row.type \notin {"signup", "gone"}
                          \/ clock - row.created >= ValidFor
<1>1. Init => Outdated /\ Unanswered
  BY IdleType DEF Init, Outdated, Unanswered
<1>2. Fit /\ Outdated /\ Unanswered /\ [Next]_vars => (Outdated /\ Unanswered)'
  BY OutdatedStep, UnansweredStep
<1>3. ASSUME Fit, Outdated, Unanswered, [Next]_vars, NEW r \in Request,
             req[r].at = "validate", req[r].kind = "signup", req'[r].reply = "no challenge"
      PROVE  Late(r)
  <2>1. handlerStep(r)
    <3>1. req'[r] # req[r]
      BY <1>3 DEF Unanswered
    <3>2. ASSUME NEW q \in Request, handlerStep(q) PROVE q = r
      BY <1>3, <3>1, <3>2, HandlerMoves DEF Others
    <3>3. CASE \A q \in Request : ~handlerStep(q)
      BY <1>3, <3>1, <3>3, OtherMoves, IdleType DEF Begins, Others, Fit, TypeOK
    <3>4. QED
      BY <3>2, <3>3
  <2>2. ~fresh(req[r].challenge, "signup")
    <3>1. ~Answers(r)
      BY <1>3, AnsweredType DEF Answers
    <3>2. ~Moves(r)
      BY <1>3 DEF Moves, Came, Unanswered
    <3>3. QED
      BY <1>3, <2>1, <3>1, <3>2, HandlerMoves
  <2>3. PICK c \in Challenge : c = req[r].challenge
    BY <1>3 DEF Fit, Shape
  <2>4. challenges[c].type = "gone" => challenges[c].created < localTime - KeptFor
    BY <1>3 DEF Outdated
  <2>5. challenges[c] \in Row /\ clock \in Int
    <3>1. challenges \in [Challenge -> Row] /\ clock \in 0..MaxTime
      BY <1>3 DEF Fit, TypeOK
    <3>2. MaxTime \in Int
      BY TimeAssumption
    <3>3. QED
      BY <3>1, <3>2
  <2>6. challenges[c].created \in Int /\ challenges[c].used \in BOOLEAN
    BY <2>5 DEF Row
  <2>7. \/ challenges[c].used
        \/ challenges[c].type # "signup"
        \/ clock - challenges[c].created >= ValidFor
    <3>1. \/ challenges[c].used
          \/ challenges[c].type # "signup"
          \/ ~(challenges[c].created > localTime - ValidFor)
      BY <2>2, <2>3 DEF fresh
    <3>2. ValidFor \in Int /\ ZoneOffset \in Int
      BY TimeAssumption
    <3>3. ~(challenges[c].created > localTime - ValidFor) =>
            clock - challenges[c].created >= ValidFor
      BY <2>5, <2>6, <3>2 DEF localTime
    <3>4. QED
      BY <3>1, <3>3
  <2>8. challenges[c].type = "gone" => clock - challenges[c].created >= ValidFor
    BY <2>4, <2>5, <2>6, TimeAssumption DEF localTime
  <2>9. QED
    BY <2>3, <2>7, <2>8
<1>4. Fit /\ Outdated /\ Unanswered /\ [Next]_vars =>
        \A r \in Request :
            /\ req[r].at = "validate" /\ req[r].kind = "signup"
            /\ req'[r].reply = "no challenge"
            => Late(r)
  BY <1>3
<1>5. QED
  BY <1>1, <1>2, <1>4, AlwaysFit, PTL DEF Spec, FreshChallengeAccepted

-------------------------------------------------------------------------------
(* The nullifier check while requests do not overlap in it. *)

nullifierVars == <<registryOf, registry, admitted, overlapped>>

Alone ==
    /\ \A q, r \in Request : handlesNullifier(q) /\ handlesNullifier(r) => q = r
    /\ \A r \in Request :
        /\ req[r].at = "create" => registryOf[req[r].name] = NULL
        /\ req[r].at \in {"check", "register"} => req[r].reg = registryOf[req[r].name]
        /\ req[r].at = "register" => ~known(r)
    /\ \A n \in Name, i \in Nullifier :
        /\ admitted[<<n, i>>] <= 1
        /\ admitted[<<n, i>>] # 0 =>
            registryOf[n] # NULL /\ i \in registry[<<n, registryOf[n]>>]

\* Outside handlers and restarts the nullifier part stays.
LEMMA NullifierVarsStay ==
    ASSUME req \in [Request -> Handler], [Next]_vars,
           \A r \in Request : ~handlerStep(r), ~restart
    PROVE  UNCHANGED nullifierVars
<1> USE DEF nullifierVars, stored, inMemory, history
<1>1. CASE UNCHANGED Shared \/ serveChallenge \/ CleanExpiredChallenges \/ tick \/ revoke
  BY <1>1 DEF Shared, serveChallenge, CleanExpiredChallenges, tick, revoke
<1>2. CASE HandleLogout \/ cleanup
  BY <1>2 DEF HandleLogout, cleanup
<1>3. QED
  BY <1>1, <1>2, StepKinds

\* A step keeps Alone when the nullifier part is untouched and nobody enters it.
LEMMA AloneStays ==
    ASSUME Alone, UNCHANGED nullifierVars,
           \A r \in Request : handlesNullifier(r)' => req'[r] = req[r]
    PROVE  Alone'
  BY DEF Alone, nullifierVars, handlesNullifier, known, inHand

\* A request that leaves the nullifier part leaves the others' part as it is.
LEMMA AloneLeaves ==
    ASSUME Alone, NEW r \in Request, UNCHANGED nullifierVars, Others(r, req, req'),
           ~handlesNullifier(r)'
    PROVE  Alone'
  BY AloneStays DEF Others

\* While there is no overlap every step keeps the nullifier part right.
LEMMA AloneStep ==
    ASSUME Fit, [Next]_vars, ~overlapped => Alone, ~overlapped' PROVE Alone'
<1> USE DEF Fit, TypeOK
<1>1. CASE restart
  <2>1. /\ \A r \in Request : req'[r] = idle
        /\ \A n \in Name, i \in Nullifier : admitted'[<<n, i>>] = 0
    BY <1>1 DEF restart
  <2>2. QED
    BY <2>1, IdleType DEF Alone, handlesNullifier
<1>2. ASSUME \A r \in Request : ~handlerStep(r), ~restart PROVE Alone'
  <2>1. UNCHANGED nullifierVars
    BY <1>2, NullifierVarsStay
  <2>2. \A r \in Request : handlesNullifier(r)' => req'[r] = req[r]
    BY <1>2, OtherMoves DEF Begins, Others, handlesNullifier
  <2>3. Alone
    BY <2>1 DEF nullifierVars
  <2>4. QED
    BY <2>1, <2>2, <2>3, AloneStays
<1>3. ASSUME NEW r \in Request, handlerStep(r), Alone PROVE Alone'
  <2>0. Others(r, req, req')
    BY <1>3, HandlerMoves
  <2>1. CASE \/ ValidateChallenge(r) \/ UserExists(r) \/ RegisterUser(r)
             \/ AuthVerify(r) \/ Login(r)
    <3>1. UNCHANGED nullifierVars
      BY <2>1 DEF ValidateChallenge, UserExists, RegisterUser, AuthVerify, Login,
                  nullifierVars, inMemory, history
    <3>2. req[r].at \in {"validate", "exists", "insert", "login", "session"}
      BY <2>1 DEF ValidateChallenge, UserExists, RegisterUser, AuthVerify, Login
    <3>3. ~handlesNullifier(r)'
      BY <1>3, <3>2, HandlerMoves DEF Moves, Came, handlesNullifier
    <3>4. QED
      BY <1>3, <2>0, <3>1, <3>3, AloneLeaves
  <2>2. CASE RegistrationVerify(r)
    <3>1. UNCHANGED <<registryOf, registry, admitted>> /\ req[r].at = "verify"
      BY <2>2 DEF RegistrationVerify, inMemory
    <3>2. CASE UNCHANGED overlapped /\ ~handlesNullifier(r)'
      BY <1>3, <2>0, <3>1, <3>2, AloneLeaves DEF nullifierVars
    <3>3. CASE step(r, "registry") /\ \A o \in Request : ~handlesNullifier(o)
      <4>1. req'[r].at = "registry"
        BY <3>3, StepKeeps DEF At
      <4>2. \A q \in Request \ {r} : ~handlesNullifier(q)'
        BY <2>0, <3>3 DEF Others, handlesNullifier
      <4>3. QED
        BY <1>3, <3>1, <4>1, <4>2 DEF Alone, handlesNullifier
    <3>4. CASE afterProof(r) /\ UNCHANGED overlapped
      <4>1. req'[r].at \in {"done", "insert"}
        BY <3>4, AfterProofMoves
      <4>2. QED
        BY <3>2, <3>4, <4>1 DEF handlesNullifier
    <3>5. CASE (\E answer \in {"bad proof", "aborted"} : reply(r, answer)) /\ UNCHANGED overlapped
      <4>1. req'[r].at = "done"
        BY <3>5, ReplyEnds DEF Reply
      <4>2. QED
        BY <3>2, <3>5, <4>1 DEF handlesNullifier
    <3>6. CASE /\ step(r, "registry")
               /\ overlapped' = (overlapped \/ \E o \in Request : handlesNullifier(o))
      BY <3>3, <3>6
    <3>7. QED
      BY <2>2, <3>4, <3>5, <3>6 DEF RegistrationVerify
  <2>3. CASE \/ findRegistry(r) \/ createRegistry(r)
             \/ checkNullifier(r) \/ registerNullifier(r)
    <3> DEFINE n == req[r].name
               i == req[r].nullifier
    <3>1. handlesNullifier(r) /\ \A q \in Request \ {r} : ~handlesNullifier(q)
      BY <1>3, <2>3 DEF findRegistry, createRegistry, checkNullifier, registerNullifier,
                        handlesNullifier, Alone
    <3>2. \A q \in Request \ {r} : ~handlesNullifier(q)'
      BY <2>0, <3>1 DEF Others, handlesNullifier
    <3>3. n \in Name /\ i \in Nullifier
      BY <3>1 DEF handlesNullifier, Shape, Nullifying
    <3>4. SUFFICES
            /\ req'[r].at = "create" => registryOf'[req'[r].name] = NULL
            /\ req'[r].at \in {"check", "register"} => req'[r].reg = registryOf'[req'[r].name]
            /\ req'[r].at = "register" => ~known(r)'
            /\ \A m \in Name, j \in Nullifier :
                /\ admitted'[<<m, j>>] <= 1
                /\ admitted'[<<m, j>>] # 0 =>
                    registryOf'[m] # NULL /\ j \in registry'[<<m, registryOf'[m]>>]
      BY <3>2 DEF Alone, handlesNullifier
    <3>5. CASE findRegistry(r)
      <4>1. UNCHANGED <<registryOf, registry, admitted>> /\ req[r].at = "registry"
        BY <3>5 DEF findRegistry, inMemory, history
      <4>2. \/ req'[r].at = "done"
            \/ req'[r].at = "create" /\ req'[r].name = n /\ registryOf[n] = NULL
            \/ req'[r].at = "check" /\ req'[r].name = n /\ req'[r].reg = registryOf[n]
        BY <1>3, <4>1, HandlerMoves DEF Moves, Keeps, Came
      <4>3. QED
        BY <1>3, <4>1, <4>2 DEF Alone
    <3>6. CASE createRegistry(r)
      <4>1. /\ registryOf' = [registryOf EXCEPT ![n] = r] /\ req[r].at = "create"
            /\ UNCHANGED <<registry, admitted>>
        BY <3>6 DEF createRegistry, history
      <4>2. req'[r].at = "check" /\ req'[r].reg = r /\ req'[r].name = n
        BY <3>6, CheckKeeps DEF createRegistry, Keeps
      <4>3. \A j \in Nullifier : admitted[<<n, j>>] = 0
        BY <1>3, <3>3, <4>1 DEF Alone
      <4> HIDE DEF n
      <4>4. registryOf'[n] = r /\ \A m \in Name \ {n} : registryOf'[m] = registryOf[m]
        BY <3>3, <4>1
      <4>5. QED
        BY <1>3, <4>1, <4>2, <4>3, <4>4 DEF Alone
    <3>7. CASE checkNullifier(r)
      <4>1. UNCHANGED <<registryOf, registry, admitted>> /\ req[r].at = "check"
        BY <3>7 DEF checkNullifier, inMemory, history
      <4>2. \/ req'[r].at = "done"
            \/ /\ req'[r].at = "register" /\ req'[r].reg = req[r].reg /\ ~known(r)
               /\ req'[r].name = n /\ req'[r].nullifier = i
        BY <1>3, <4>1, HandlerMoves DEF Moves, Keeps, Came
      <4>3. QED
        BY <1>3, <4>1, <4>2 DEF Alone, known, inHand
    <3>8. CASE registerNullifier(r)
      <4> DEFINE x == req[r].reg
      <4>1. /\ registry' = [registry EXCEPT ![<<n, x>>] = @ \cup {i}]
            /\ admitted' = [admitted EXCEPT ![<<n, i>>] = oneMore(@)]
            /\ registryOf' = registryOf /\ afterProof(r) /\ req[r].at = "register"
        BY <3>8 DEF registerNullifier, inHand
      <4>2. x = registryOf[n] /\ x \in Request /\ i \notin registry[<<n, x>>]
        BY <1>3, <4>1 DEF Alone, known, Shape, inHand
      <4>3. req'[r].at \in {"done", "insert"}
        BY <4>1, AfterProofMoves
      <4> HIDE DEF i, x, n
      <4>4. admitted[<<n, i>>] = 0
        BY <1>3, <3>3, <4>2 DEF Alone
      <4>5. admitted' = [admitted EXCEPT ![<<n, i>>] = 1]
        BY <4>1, <4>4 DEF oneMore
      <4>6. registryOf[n] # NULL
        BY <4>2, NullAssumption
      <4>7. ASSUME NEW m \in Name, NEW j \in Nullifier
            PROVE  /\ admitted'[<<m, j>>] <= 1
                   /\ admitted'[<<m, j>>] # 0 =>
                        registryOf'[m] # NULL /\ j \in registry'[<<m, registryOf'[m]>>]
        <5>1. CASE m = n /\ j = i
          BY <3>3, <4>1, <4>2, <4>5, <4>6, <5>1
        <5>2. CASE ~(m = n /\ j = i)
          <6>1. admitted'[<<m, j>>] = admitted[<<m, j>>]
            BY <3>3, <4>5, <5>2
          <6>2. \/ registryOf[m] = NULL
                \/ registry[<<m, registryOf[m]>>] \subseteq registry'[<<m, registryOf[m]>>]
            BY <3>3, <4>1, <4>2
          <6>3. QED
            BY <1>3, <4>1, <6>1, <6>2 DEF Alone
        <5>3. QED
          BY <5>1, <5>2
      <4>8. QED
        BY <4>3, <4>7
    <3>9. QED
      BY <2>3, <3>5, <3>6, <3>7, <3>8
  <2>4. QED
    BY <1>3, <2>1, <2>2, <2>3 DEF handlerStep
<1>4. ASSUME NEW r \in Request, handlerStep(r) PROVE ~overlapped
  BY <1>4 DEF handlerStep, ValidateChallenge, UserExists, RegistrationVerify, findRegistry,
     createRegistry, checkNullifier, registerNullifier, RegisterUser, AuthVerify, Login,
     inMemory, history
<1>5. QED
  BY <1>1, <1>2, <1>3, <1>4

\* Without overlap the check lets a nullifier through once under a name in the
\* life of a server process, whoever sends it and to whichever handler.
THEOREM NullifierOnceAlone == Spec => []NullifierAdmitsOnceAlone
<1> DEFINE Inv == ~overlapped => Alone
<1>1. Init => Inv
  BY IdleType DEF Init, Alone, handlesNullifier
<1>2. Fit /\ Inv /\ [Next]_vars => Inv'
  BY AloneStep
<1>3. Inv => NullifierAdmitsOnceAlone
  BY DEF Alone, NullifierAdmitsOnceAlone
<1> HIDE DEF Inv
<1>4. QED
  BY <1>1, <1>2, <1>3, AlwaysFit, PTL DEF Spec

===============================================================================
