------------------------------ MODULE Boundary ------------------------------
(***************************************************************************)
(* One HTTP request through the stack of middleware that create_app (src/  *)
(* recallum/app.py) installs: RequestTelemetryMiddleware (telemetry/       *)
(* http.py) outermost, then RequestBodyLimitMiddleware,                    *)
(* TrustedClientResolver and MCPBoundaryMiddleware (http_boundary.py),     *)
(* then the application, while the client sends its body chunk by chunk    *)
(* and may hang up.  The rate limits and the bearer key are in Access.     *)
(*                                                                         *)
(* A chunk is its size; the last one of a body is the one without more.    *)
(* The application (Starlette and its handlers) is external: it reads what *)
(* it wants of the body, answers or fails, and some handlers keep a        *)
(* listener waiting for http.disconnect: "stream" gives up its answer when *)
(* that comes, "await" ends only then.                                     *)
(***************************************************************************)
EXTENDS Naturals, Sequences, FiniteSets, SequencesExt

CONSTANTS
    Requests,     \* [path, host, origin, declared, chunks, long, forged, hops]; what
                  \* is declared is the size, or NoLimit
    Handlers,     \* subset of {"plain", "stream", "await"}
    LoginBytes, GeneralBytes,
    NoLimit,
    TrustedHops,  \* addresses inside the trusted networks
    Garbage       \* what is not an address

Total(chunks) == SumFunctionOnSet(chunks, DOMAIN chunks)

(* What reaches the middleware: the server sends a body in at least one    *)
(* chunk and holds it to its Content-Length; and the networks that         *)
(* TrustedClientResolver trusts are those whose hosts forge no header.     *)
ASSUME RequestsAssumption ==
    /\ {LoginBytes, GeneralBytes} \subseteq Nat /\ NoLimit \notin {LoginBytes, GeneralBytes}
    /\ \A r \in Requests :
          /\ r.chunks \in Seq(Nat) /\ r.chunks # <<>>
          /\ r.declared \in {NoLimit, Total(r.chunks)}
          /\ r.hops \in Seq(ToSet(r.hops)) /\ r.forged \in Seq(ToSet(r.forged))
          /\ r.hops # <<>> /\ (r.forged # <<>> => r.hops[1] \notin TrustedHops)

VARIABLES
    request, handler,
    hungUp,       \* the client is gone
    where,        \* the part of the stack that has the request
    buffered,     \* messages RequestBodyLimitMiddleware has received
    replayed,     \* how many of them the application has
    listener,     \* "off", "waiting" or "told"
    answer,       \* "none", "started" or "complete"
    completed,    \* response_complete is set
    status,       \* status_code of the telemetry
    clientIp,
    telemetry     \* the status codes emitted

boundaryVars == <<request, handler, hungUp, where, buffered, replayed, listener, answer,
                  completed, status, clientIp, telemetry>>

BoundaryInit ==
    /\ request \in Requests /\ handler \in Handlers
    /\ hungUp = FALSE /\ where = "limit" /\ buffered = <<>> /\ replayed = 0
    /\ listener = "off" /\ answer = "none" /\ completed = FALSE
    /\ status = 500 /\ clientIp = "unknown" /\ telemetry = <<>>

Upload == request.chunks
Hangup == [size |-> 0, more |-> FALSE, gone |-> TRUE]
Chunk(n) == [size |-> Upload[n], more |-> n < Len(Upload), gone |-> FALSE]
SizeOf(messages) == Total([n \in DOMAIN messages |-> messages[n].size])
IsWhole(messages) == messages # <<>> /\ ~Last(messages).more

(* _limit_for *)
BodyLimit ==
    CASE request.path = "/api/v1/auth/login" -> LoginBytes
      [] request.path \in {"/api/v1/memories", "/mcp", "/mcp/"} -> GeneralBytes
      [] OTHER -> NoLimit
Limited == BodyLimit # NoLimit

(* The server's receive: once the client is gone it says nothing else.     *)
Received(messages) == IF hungUp THEN Hangup ELSE Chunk(Len(messages) + 1)

HangUp ==
    /\ ~hungUp /\ where # "done"
    /\ hungUp' = TRUE
    /\ UNCHANGED <<request, handler, where, buffered, replayed, listener, answer, completed,
                   status, clientIp, telemetry>>

(* A middleware answers instead of the application. *)
Reject(code) ==
    /\ answer' = "complete" /\ status' = code /\ where' = "emit"
    /\ UNCHANGED <<request, handler, hungUp, replayed, listener, clientIp, telemetry>>
Pass(next) ==
    /\ where' = next
    /\ UNCHANGED <<request, handler, hungUp, replayed, listener, answer, status, telemetry>>

(***************************************************************************)
(* RequestBodyLimitMiddleware.                                             *)
(***************************************************************************)
CheckDeclared ==
    /\ where = "limit"
    /\ UNCHANGED <<buffered, completed>>
    /\ CASE ~Limited -> Pass("resolve") /\ UNCHANGED clientIp
         [] Limited /\ request.declared # NoLimit /\ request.declared > BodyLimit -> Reject(413)
         [] OTHER -> Pass("buffer") /\ UNCHANGED clientIp

(* Mutant of TooLarge: each chunk is measured by itself. *)
ChunkTooLarge(messages) == Last(messages).size > BodyLimit
TooLarge(messages) == SizeOf(messages) > BodyLimit
(* _password_exceeds_limit: a body that was cut off is no JSON.            *)
PasswordExceedsLimit(messages) ==
    request.long /\ request.path # "/mcp" /\ request.path # "/mcp/" /\ ~Last(messages).gone

BufferChunk ==
    /\ where = "buffer"
    /\ UNCHANGED completed
    /\ LET messages == Append(buffered, Received(buffered))
       IN CASE TooLarge(messages) -> Reject(413) /\ UNCHANGED buffered
            [] ~TooLarge(messages) /\ ~IsWhole(messages) ->
                  Pass("buffer") /\ buffered' = messages /\ UNCHANGED clientIp
            [] ~TooLarge(messages) /\ IsWhole(messages) ->
                  IF PasswordExceedsLimit(messages)
                  THEN Reject(422) /\ UNCHANGED buffered
                  ELSE Pass("resolve") /\ buffered' = messages /\ UNCHANGED clientIp

(***************************************************************************)
(* TrustedClientResolver: each proxy appends the address it was called     *)
(* from; the last hop is the peer of the server.                           *)
(***************************************************************************)
Forwarded == request.forged \o SubSeq(request.hops, 1, Len(request.hops) - 1)
Outside(s) == {n \in DOMAIN s : s[n] \notin TrustedHops}
(* Mutant of Untrusted: the header is read from its start. *)
FirstUntrusted(s) == s[CHOOSE n \in Outside(s) : \A m \in Outside(s) : n <= m]
Untrusted(s) == s[CHOOSE n \in Outside(s) : \A m \in Outside(s) : m <= n]
ResolveClientIp(peer, forwarded) ==
    IF peer \in TrustedHops /\ forwarded # <<>> /\ ~Contains(forwarded, Garbage)
       /\ Outside(forwarded) # {}
    THEN Untrusted(forwarded)
    ELSE peer

Resolve ==
    /\ where = "resolve"
    /\ clientIp' = ResolveClientIp(Last(request.hops), Forwarded)
    /\ Pass("guard") /\ UNCHANGED <<buffered, completed>>

(* MCPBoundaryMiddleware: one good host, at most one good origin, and the  *)
(* redirect of the missing slash.                                          *)
HostAllowed(host) == host = "allowed"
OriginAllowed(origin) == origin \in {"none", "allowed"}
Guard ==
    /\ where = "guard"
    /\ UNCHANGED <<buffered, completed>>
    /\ CASE request.path \notin {"/mcp", "/mcp/"} -> Pass("app") /\ UNCHANGED clientIp
         [] OTHER ->
               IF ~HostAllowed(request.host) THEN Reject(421)
               ELSE IF ~OriginAllowed(request.origin) THEN Reject(403)
               ELSE IF request.path = "/mcp" THEN Reject(308)
               ELSE Pass("app") /\ UNCHANGED clientIp

(***************************************************************************)
(* The application, on replay_receive and tracked_send.                    *)
(***************************************************************************)
Heard == SubSeq(buffered, 1, replayed)

AppRead ==
    /\ where = "app" /\ answer = "none" /\ listener = "off"
    /\ ~IsWhole(Heard)
    /\ replayed' = replayed + 1
    /\ buffered' = IF Limited THEN buffered ELSE Append(buffered, Received(buffered))
    /\ UNCHANGED <<request, handler, hungUp, where, listener, answer, completed, status,
                   clientIp, telemetry>>

(* What is left of the body is no disconnect, so a listener goes through it. *)
Listen ==
    /\ where = "app" /\ handler # "plain" /\ listener = "off"
    /\ IsWhole(Heard) /\ ~Last(Heard).gone
    /\ listener' = "waiting"
    /\ UNCHANGED <<request, handler, hungUp, where, buffered, replayed, answer, completed,
                   status, clientIp, telemetry>>

(* Mutant of DisconnectDue: nothing left to replay counts as a disconnect. *)
ReplayExhausted == TRUE
DisconnectDue == IF Limited THEN completed ELSE hungUp \/ answer = "complete"
HearDisconnect ==
    /\ where = "app" /\ listener = "waiting" /\ DisconnectDue
    /\ listener' = "told"
    /\ UNCHANGED <<request, handler, hungUp, where, buffered, replayed, answer, completed,
                   status, clientIp, telemetry>>

StartAnswer ==
    /\ where = "app" /\ answer = "none" /\ listener # "told"
    /\ handler # "plain" => listener = "waiting"
    /\ answer' = "started" /\ \E code \in {200, 401} : status' = code
    /\ UNCHANGED <<request, handler, hungUp, where, buffered, replayed, listener, completed,
                   clientIp, telemetry>>

(* Mutant of CompletedNow: the event waits for the application's return. *)
CompletedLater == completed
CompletedNow == IF Limited THEN TRUE ELSE completed
CompleteAnswer ==
    /\ where = "app" /\ answer = "started"
    /\ handler = "stream" => listener # "told"
    /\ answer' = "complete" /\ completed' = CompletedNow
    /\ UNCHANGED <<request, handler, hungUp, where, buffered, replayed, listener, status,
                   clientIp, telemetry>>

(* It returns, gives up, or raises at any point, also after its answer;    *)
(* finally, response_complete is set.                                      *)
Ended ==
    CASE handler = "plain"  -> answer = "complete"
      [] handler = "stream" -> answer = "complete" \/ listener = "told"
      [] handler = "await"  -> listener = "told"
LeaveApp(next) ==
    /\ where = "app" /\ where' = next
    /\ completed' = Limited
    /\ UNCHANGED <<request, handler, hungUp, buffered, replayed, listener, answer, status,
                   clientIp, telemetry>>
AppReturn == Ended /\ LeaveApp("emit")
(* Mutant of AfterRaise: the record is not emitted in a finally block. *)
Unrecorded == "done"
AfterRaise == "emit"
AppRaise == LeaveApp(AfterRaise)

EmitOnce ==
    /\ where = "emit" /\ where' = "done"
    /\ telemetry' = Append(telemetry, status)
    /\ UNCHANGED <<request, handler, hungUp, buffered, replayed, listener, answer, completed,
                   status, clientIp>>

Middleware == CheckDeclared \/ BufferChunk \/ Resolve \/ Guard \/ EmitOnce
Application ==
    AppRead \/ Listen \/ HearDisconnect \/ StartAnswer \/ CompleteAnswer \/ AppReturn
BoundaryNext == HangUp \/ Middleware \/ Application \/ AppRaise

BoundarySpec == BoundaryInit /\ [][BoundaryNext]_boundaryVars

(***************************************************************************)
(* Properties.                                                             *)
(***************************************************************************)
(* The application reads the chunks the client sent, in order and none     *)
(* twice; a limited path sees them only when the body is whole, or cut off *)
(* by the client, and within the limit; and a body within it is never      *)
(* refused for its size (RequestBodyLimitMiddleware).                      *)
BodyIntact ==
    /\ \A n \in 1..replayed : buffered[n] \in {Chunk(n), Hangup}
    /\ where = "app" /\ Limited =>
          IsWhole(buffered) /\ SizeOf(buffered) <= BodyLimit
    /\ status = 413 => Total(Upload) > BodyLimit

(* A handler hears of a disconnect only when its answer is complete or the *)
(* client has gone: an answer in progress is never given up for a client   *)
(* that waits (replay_receive).                                            *)
NoEarlyDisconnect ==
    listener = "told" => answer = "complete" \/ hungUp

(* Every request leaves exactly one record, with the status the client was *)
(* sent, or 500 ("Emit exactly one content-free timing record per HTTP     *)
(* request", telemetry/http.py), also when the application raises.         *)
OneRecord ==
    where = "done" => telemetry = <<IF answer = "none" THEN 500 ELSE status>>

(* A request is attributed to the nearest hop outside the trusted          *)
(* networks, whatever header it came with, or to the server's peer         *)
(* ("without trusting headers from an untrusted peer",                     *)
(* resolve_client_ip).                                                     *)
AttributedToSender ==
    where = "app" =>
        LET far == Outside(request.hops)
        IN \/ clientIp = Last(request.hops) /\ (far = {} \/ Contains(Forwarded, Garbage)
                                                \/ Last(request.hops) \notin TrustedHops)
           \/ \E n \in far : clientIp = request.hops[n] /\ \A m \in far : m <= n

(* A handler that waits for its listener is let go once its answer is      *)
(* complete: nothing else would wake it (replay_receive, tracked_send).    *)
ListenerFreed == answer = "complete" /\ listener = "waiting" => DisconnectDue

(* A handler hears of a disconnect only when its answer is complete or its *)
(* client has gone; once its answer is complete it is due to hear of one.  *)
DisconnectsHeard == NoEarlyDisconnect /\ ListenerFreed

(* The application gets the request that was sent, its body and its        *)
(* sender, however it was cut up, relayed or forged on the way.            *)
RequestIntact == BodyIntact /\ AttributedToSender
=============================================================================
