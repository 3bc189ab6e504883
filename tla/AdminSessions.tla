---------------------------- MODULE AdminSessions ----------------------------
(***************************************************************************)
(* Sessions of the admin service: rows of user_sessions, the cookies that  *)
(* browsers hold, and a key for cookies that every start of the service    *)
(* makes anew.  A browser has several requests open at a time; each sends  *)
(* the cookie that the browser had when it began.                          *)
(***************************************************************************)
EXTENDS Naturals, FiniteSets

CONSTANTS
  Browsers,
  People,       \* users, all of whom exist
  Pages,        \* goroutines of the admin service, with a request each
  MaxSessions,  \* how many sessions are ever made
  MaxSent,      \* how many requests browsers send
  MaxStarts,    \* how often the service starts
  SessionErrors \* TRUE: statements may fail

ASSUME SessionsAssumption ==
  /\ Browsers # {} /\ People # {}
  /\ MaxSessions \in Nat /\ MaxSent \in Nat /\ MaxStarts \in Nat \ {0}
  /\ SessionErrors \in BOOLEAN

VARIABLES
  auth,     \* "db" or "saml", from the configuration
  sessions, \* user_sessions, by id
  start,    \* which start of the service this is: its key
  cookie,   \* the cookie of each browser: the id of a session, or 0
  page,     \* the request that each goroutine handles
  sent,     \* how many there were
  accepted, \* history: who logged in last on each browser
  refused   \* history: the sessions whose cookie was refused, other than by an error

sessionsVars == <<auth, sessions, start, cookie, page, sent, accepted, refused>>

SessionId == 1 .. MaxSessions

Cookie == 0 .. MaxSessions

SessionRow ==
  [user : People, key : 1 .. MaxStarts, expired : BOOLEAN, deleted : BOOLEAN]

PageSteps ==
  {"idle", "auth", "save", "new", "destroy", "expire", "answer", "error"}

(* cookie was sent, session is the one of the request, saved says that it  *)
(* goes back with the answer.                                              *)
PageState ==
  [pc : PageSteps, kind : {"login", "page", "logout"}, from : Browsers, user : People,
   cookie : Cookie, session : Cookie, saved : BOOLEAN]

SessionsTypeOK ==
  /\ auth \in {"db", "saml"}
  /\ DOMAIN sessions \subseteq SessionId /\ \A i \in DOMAIN sessions : sessions[i] \in SessionRow
  /\ start \in 1 .. MaxStarts
  /\ cookie \in [Browsers -> Cookie]
  /\ page \in [Pages -> PageState]
  /\ sent \in 0 .. MaxSent
  /\ accepted \in [Browsers -> SUBSET People]
  /\ refused \subseteq SessionId

-----------------------------------------------------------------------------
NoRequest ==
  [pc |-> "idle", kind |-> "page", from |-> CHOOSE b \in Browsers : TRUE,
   user |-> CHOOSE u \in People : TRUE, cookie |-> 0, session |-> 0, saved |-> FALSE]

SessionsInit ==
  /\ auth \in {"db", "saml"}
  /\ sessions = <<>> /\ start = 1 /\ sent = 0
  /\ cookie = [b \in Browsers |-> 0]
  /\ page = [r \in Pages |-> NoRequest]
  /\ accepted = [b \in Browsers |-> {}] /\ refused = {}

InState(r, pc) == page[r].pc = pc

Go(r, pc) == page' = [page EXCEPT ![r].pc = pc]

(* Get: what the row of a cookie is looked for with, and its key. *)
Alive(c) ==
  /\ c \in DOMAIN sessions
  /\ ~sessions[c].deleted /\ ~sessions[c].expired /\ sessions[c].key = start

(* A login has the right password; with SAML the user is the one of the    *)
(* identity provider, whoever the cookie belongs to.                       *)
SendRequest(r, b, kind, u) ==
  /\ InState(r, "idle") /\ sent < MaxSent /\ sent' = sent + 1
  /\ kind = "login" => auth = "db"
  /\ kind # "login" /\ auth = "db" => u = NoRequest.user  \* not looked at
  /\ page' = [page EXCEPT ![r] =
       [pc |-> IF kind = "login" THEN "save" ELSE "auth", kind |-> kind, from |-> b,
        user |-> u, cookie |-> cookie[b], session |-> 0, saved |-> FALSE]]
  /\ UNCHANGED <<auth, sessions, start, cookie, accepted, refused>>

-----------------------------------------------------------------------------
(* Mutants.  Each repeats a definition that follows with a plausible bug:  *)
(* the user of the session is not compared; the row of the cookie is       *)
(* renewed instead of making another one.                                  *)

SaveAnyone(r) ==
  /\ InState(r, "save")
  /\ IF Alive(page[r].cookie)
     THEN page' = [page EXCEPT ![r].session = page[r].cookie, ![r].saved = TRUE,
                                     ![r].pc = "answer"]
     ELSE Go(r, "new")
  /\ UNCHANGED <<auth, sessions, start, cookie, sent, accepted, refused>>

RenewSession(r) ==
  /\ InState(r, "new")
  /\ \E i \in SessionId :
       /\ IF page[r].cookie # 0 THEN i = page[r].cookie
          ELSE i \notin DOMAIN sessions /\ \A j \in SessionId \ DOMAIN sessions : i <= j
       /\ sessions' = [j \in DOMAIN sessions \cup {i} |->
            IF j = i THEN [user |-> page[r].user, key |-> start, expired |-> FALSE, deleted |-> FALSE]
            ELSE sessions[j]]
       /\ page' = [page EXCEPT ![r].session = i, ![r].saved = TRUE, ![r].pc = "answer"]
  /\ UNCHANGED <<auth, start, cookie, sent, accepted, refused>>

-----------------------------------------------------------------------------
(* handlerAuthCheck: CheckAuth, and with SAML a new session for a user     *)
(* that has none.  An error of the database is a missing session.          *)
CheckAuth(r) ==
  /\ InState(r, "auth")
  /\ LET c == page[r].cookie
         onward == IF page[r].kind = "logout" THEN "destroy" ELSE "answer"
     IN  \/ /\ Alive(c)
            /\ page' = [page EXCEPT ![r].session = c, ![r].pc = onward]
            /\ UNCHANGED refused
         \/ /\ ~Alive(c) \/ SessionErrors
            /\ Go(r, IF auth = "saml" THEN "save" ELSE "error")
            /\ refused' = IF Alive(c) THEN refused ELSE refused \cup ({c} \ {0})
  /\ UNCHANGED <<auth, sessions, start, cookie, sent, accepted>>

(* The answer to a request that was let in with a new session. *)
AfterSave(r) == IF page[r].kind = "logout" THEN "destroy" ELSE "answer"

(* Save looks at the cookie again.  A live session of another user is an error. *)
Save(r) ==
  /\ InState(r, "save")
  /\ LET c == page[r].cookie
     IN  \/ /\ Alive(c) /\ sessions[c].user = page[r].user
            /\ page' = [page EXCEPT ![r].session = c, ![r].saved = TRUE,
                                          ![r].pc = AfterSave(r)]
         \/ Alive(c) /\ sessions[c].user # page[r].user /\ Go(r, "error")
         \/ (~Alive(c) \/ SessionErrors) /\ Go(r, "new")
  /\ UNCHANGED <<auth, sessions, start, cookie, sent, accepted, refused>>

NewSession(r) ==
  /\ InState(r, "new")
  /\ \/ \E i \in SessionId \ DOMAIN sessions :
          /\ \A j \in SessionId \ DOMAIN sessions : i <= j
          /\ sessions' = [j \in DOMAIN sessions \cup {i} |->
               IF j = i THEN [user |-> page[r].user, key |-> start, expired |-> FALSE,
                              deleted |-> FALSE]
               ELSE sessions[j]]
          /\ page' = [page EXCEPT ![r].session = i, ![r].saved = TRUE, ![r].pc = AfterSave(r)]
     \/ SessionErrors /\ Go(r, "error") /\ UNCHANGED sessions
  /\ UNCHANGED <<auth, start, cookie, sent, accepted, refused>>

(* Destroy looks for the cookie of the request once more, not for the      *)
(* session that let the request in.                                        *)
Destroy(r) ==
  /\ InState(r, "destroy")
  /\ LET c == page[r].cookie
     IN  \/ c = 0 /\ Go(r, "answer")
         \/ Alive(c) /\ Go(r, "expire")
         \/ c # 0 /\ (~Alive(c) \/ SessionErrors) /\ Go(r, "error")
  /\ UNCHANGED <<auth, sessions, start, cookie, sent, accepted, refused>>

Expire(r) ==
  /\ InState(r, "expire")
  /\ \/ /\ sessions' = [sessions EXCEPT ![page[r].cookie].expired = TRUE]
        /\ Go(r, "answer")
     \/ SessionErrors /\ Go(r, "error") /\ UNCHANGED sessions
  /\ UNCHANGED <<auth, start, cookie, sent, accepted, refused>>

(* The answer, the redirection of a refused page or an error, in any       *)
(* order.  The cookie of a session that was saved goes with it, also when  *)
(* a later step failed, unless the answer is lost.                         *)
AnswerRequest(r) ==
  /\ page[r].pc \in {"answer", "error"}
  /\ \/ /\ page[r].saved
        /\ cookie' = [cookie EXCEPT ![page[r].from] = page[r].session]
        /\ accepted' = [accepted EXCEPT ![page[r].from] = {page[r].user}]
     \/ UNCHANGED <<cookie, accepted>>
  /\ page' = [page EXCEPT ![r] = NoRequest]
  /\ UNCHANGED <<auth, sessions, start, sent, refused>>

-----------------------------------------------------------------------------
(* expires_at passes. *)
SessionAges(i) ==
  /\ i \in DOMAIN sessions /\ ~sessions[i].expired
  /\ sessions' = [sessions EXCEPT ![i].expired = TRUE]
  /\ UNCHANGED <<auth, start, cookie, page, sent, accepted, refused>>

(* The goroutine of the admin service that deletes expired sessions, of    *)
(* whatever start; the rows stay, marked.                                  *)
CleanupSessions ==
  /\ \E i \in DOMAIN sessions : sessions[i].expired /\ ~sessions[i].deleted
  /\ sessions' = [i \in DOMAIN sessions |-> [sessions[i] EXCEPT !.deleted = @ \/ sessions[i].expired]]
  /\ UNCHANGED <<auth, start, cookie, page, sent, accepted, refused>>

(* CreateSessionManager makes a new key; open requests are lost. *)
RestartAdmin ==
  /\ start < MaxStarts /\ start' = start + 1
  /\ page' = [r \in Pages |-> NoRequest]
  /\ UNCHANGED <<auth, sessions, cookie, sent, accepted, refused>>

PageStep(r) ==
  CheckAuth(r) \/ Save(r) \/ NewSession(r) \/ Destroy(r) \/ Expire(r) \/ AnswerRequest(r)

SessionsNext ==
  \/ \E r \in Pages :
       \/ PageStep(r)
       \/ \E b \in Browsers, kind \in {"login", "page", "logout"}, u \in People :
            SendRequest(r, b, kind, u)
  \/ \E i \in SessionId : SessionAges(i)
  \/ CleanupSessions \/ RestartAdmin

SessionsSpec == SessionsInit /\ [][SessionsNext]_sessionsVars

-----------------------------------------------------------------------------
(* handlerAuthCheck acts for the user of the session, Save for the one who *)
(* logs in: the cookie of a browser is of a session of the user who was    *)
(* accepted on it last, in whatever order requests are handled and         *)
(* answered.                                                               *)
CookieMatchesLogin ==
  \A b \in Browsers : cookie[b] # 0 =>
    cookie[b] \in DOMAIN sessions /\ accepted[b] = {sessions[cookie[b]].user}

(* Logging out, the age of a session, and a restart are final: a cookie    *)
(* that CheckAuth refused never lets a request in again, whatever other    *)
(* requests of the browser do meanwhile.                                   *)
RefusedForGood ==
  [][\A r \in Pages :
       (InState(r, "auth") /\ page'[r].session # 0) => page[r].cookie \notin refused]_sessionsVars
=============================================================================
