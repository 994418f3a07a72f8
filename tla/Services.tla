------------------------------ MODULE Services ------------------------------
(***************************************************************************)
(* Components that share no state as they are modelled -- WebSessions,     *)
(* Access, Skills, Administration and ProjectKey -- beside each other.  A  *)
(* behaviour moves one of them, chosen at its start, and leaves the others *)
(* in their initial state: since none reads another's variables, this is   *)
(* what each of them does in any interleaving, at the cost of the sum of   *)
(* their states and not of the product.                                    *)
(* Two kinds of browser are told apart: one that has several requests in   *)
(* progress, and one that sends a request when the previous one is over,   *)
(* for which more is promised.                                             *)
(***************************************************************************)
EXTENDS WebSessions, Access, Skills, Administration, ProjectKey

VARIABLES
    part,  \* the component that moves
    alone  \* the browser sends one request at a time

servicesVars == <<part, alone, vars, accessVars, skillVars, adminVars, keyVars>>

Parts == {"sessions", "access", "skills", "administration", "keys"}

AtMostOne(S) == \A r, s \in S : r = s
Busy == {r \in Requests : ~On(r, "idle")}

ServicesInit ==
    /\ part \in Parts
    /\ alone \in (IF part = "sessions" THEN BOOLEAN ELSE {FALSE})
    /\ Init /\ AccessInit /\ SkillsInit /\ AdministrationInit /\ KeyInit

Browsing == part = "sessions" /\ UNCHANGED <<part, accessVars, skillVars, adminVars, keyVars>>
Serving  == part = "access" /\ UNCHANGED <<part, vars, skillVars, adminVars, keyVars>>
Learning == part = "skills" /\ UNCHANGED <<part, vars, accessVars, adminVars, keyVars>>
Governing ==
    part = "administration" /\ UNCHANGED <<part, vars, accessVars, skillVars, keyVars>>
Identifying ==
    part = "keys" /\ UNCHANGED <<part, vars, accessVars, skillVars, adminVars>>

ServicesNext ==
    /\ UNCHANGED alone
    /\ \/ Browsing /\ Next /\ (alone => AtMostOne(Busy'))
       \/ Serving /\ AccessNext
       \/ Learning /\ SkillsNext
       \/ Governing /\ AdministrationNext
       \/ Identifying /\ KeyNext

ServicesSpec == ServicesInit /\ [][ServicesNext]_servicesVars

(***************************************************************************)
(* Properties.                                                             *)
(***************************************************************************)
(* Once a logout or a reuse revocation has finished, no token of that      *)
(* chain authenticates a request sent afterwards, for a browser that sends *)
(* one request at a time ("Reutilizacion tras el cierre", openspec         *)
(* web-session-auth); ClosedStaysClosed of WebSessions is the same for all.*)
ClosedStaysClosedAlone == alone => ClosedStaysClosed

(* ActiveUserStays of WebSessions, for that browser: it is refused only    *)
(* after its chain was closed, at the absolute expiry, or when it had been *)
(* away too long (web_sessions.py, resolve).                               *)
ActiveUserStaysAlone == alone => ActiveUserStays
=============================================================================
