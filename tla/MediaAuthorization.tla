------------------------- MODULE MediaAuthorization -------------------------
(***************************************************************************)
(* Who may publish, watch or play back a camera.  The server signs tokens  *)
(* (auth.rs) for clients in the answer to their snapshots and for signed-in *)
(* viewers; MediaMTX presents them in POST media-auth (routes/media.rs),   *)
(* which asks the tables again.  Between the two, clients are rotated,     *)
(* paired again, revoked and deleted, cameras change with every snapshot,  *)
(* and the server is started again with another media_token_ttl.           *)
(*                                                                         *)
(* A camera has the identity of its client.  A credential is the number of *)
(* its pairing: random_token never repeats one.  Viewers are signed in.    *)
(***************************************************************************)
EXTENDS Naturals, FiniteSets

CONSTANTS
    Clients,
    Ttls,          \* the values of media_token_ttl between which restarts choose
    None,          \* no token, no client
    MaxTime,       \* bound: the clock
    MaxPairings,   \* bound: credentials given out
    MaxRotations,  \* bound: rotations of a client
    MaxTokens      \* bound: tokens signed

ASSUME ConstantsAssumption ==
    /\ Ttls \subseteq Nat /\ Ttls # {}
    /\ None \notin Clients
    /\ MaxTime \in Nat /\ MaxPairings \in Nat /\ MaxRotations \in Nat /\ MaxTokens \in Nat

VARIABLES
    client,     \* [Clients -> row of xcocs: its state, and its credential or 0]
    camera,     \* [Clients -> row of cameras: not deleted, enabled, has_sub_stream, storage_mode]
    issued,     \* how many credentials have been given out
    now,
    ttl,        \* media_token_ttl of the running server
    tokens,     \* the tokens signed so far
    request,    \* a viewer's request in progress
    rotations,  \* history: [Clients -> how often it has been rotated]
    reported    \* history: [Clients -> its last report since then]

vars == <<client, camera, issued, now, ttl, tokens, request, rotations, reported>>

Profiles == {"main", "sub"}
Storages == {"client", "server"}

(* A snapshot reports one camera or none.                                  *)
Nothing == [status |-> "none", sub |-> FALSE, storage |-> "client"]
Reports == [status : {"online", "offline", "disabled"}, sub : BOOLEAN, storage : Storages]
Shown(r) == r.status \in {"online", "offline"}

Client == [state : {"none", "present", "revoked", "deleted"}, token : 0..MaxPairings]
Camera == [present : BOOLEAN, enabled : BOOLEAN, sub : BOOLEAN, storage : Storages]
Token  == [camera : Clients, path : Profiles, action : {"read", "playback", "publish"},
           sub : Clients \cup {None}, binding : 0..MaxPairings, iat : Nat, exp : Nat,
           rotations : 0..MaxRotations]

Idle == [pc |-> "idle", kind |-> "read", camera |-> None, path |-> "main", token |-> None]

Init ==
    /\ client = [c \in Clients |-> [state |-> "none", token |-> 0]]
    /\ camera = [c \in Clients |-> [present |-> FALSE, enabled |-> FALSE, sub |-> FALSE, storage |-> "client"]]
    /\ issued = 0 /\ now = 0 /\ ttl \in Ttls
    /\ tokens = {}
    /\ request = Idle
    /\ rotations = [c \in Clients |-> 0]
    /\ reported = [c \in Clients |-> Nothing]

Present(c) == client[c].state = "present"

-----------------------------------------------------------------------------
(* Tokens                                                                  *)

(* issue_media_token: the binding, if any, is that of the credential.      *)
Signed(c, path, action, sub, binding) ==
    [camera |-> c, path |-> path, action |-> action, sub |-> sub, binding |-> binding,
     iat |-> now, exp |-> now + ttl, rotations |-> rotations[c]]
Sign(new) ==
    /\ Cardinality(tokens \cup new) <= MaxTokens
    /\ tokens' = tokens \cup new

(* decode_media_token, for a token of this server.                         *)
Decodes(t) ==
    /\ t.iat <= now /\ now <= t.exp
    /\ t.exp - t.iat = ttl
    /\ (t.action = "publish") = (t.binding # 0)

(* Slip: the client is compared, and not its credential.                   *)
BoundToClient(t) == t.sub = t.camera
(* Slip: storage is left to the handler that signed the token.             *)
StoresAnywhere(t) == TRUE

Bound(t)  == t.sub = t.camera /\ client[t.camera].token # 0 /\ t.binding = client[t.camera].token
Stores(t) == camera[t.camera].storage = "server"

(* media_request_permitted: the tables as they are now.                    *)
Permitted(t, action) ==
    /\ Present(t.camera) /\ camera[t.camera].present
    /\ t.path = "main" \/ camera[t.camera].sub
    /\ \/ action = "read" /\ camera[t.camera].enabled
       \/ action = "playback" /\ Stores(t)
       \/ action = "publish" /\ camera[t.camera].enabled /\ Bound(t)

(* media_auth.                                                             *)
Admits(t, path, action) ==
    Decodes(t) /\ t.path = path /\ t.action = action /\ Permitted(t, action)

-----------------------------------------------------------------------------
(* Clients                                                                 *)

Create(c) ==
    /\ client[c].state = "none"
    /\ client' = [client EXCEPT ![c].state = "present"]
    /\ UNCHANGED <<camera, issued, now, ttl, tokens, request, rotations, reported>>

(* Whoever knows the authorization code, and only once.                    *)
Pair(c) ==
    /\ Present(c) /\ client[c].token = 0
    /\ issued < MaxPairings
    /\ issued' = issued + 1
    /\ client' = [client EXCEPT ![c].token = issued + 1]
    /\ UNCHANGED <<camera, now, ttl, tokens, request, rotations, reported>>

(* Slip: a camera that is known keeps its has_sub_stream.                  *)
UpsertKeepingSub(c, r) ==
    [present |-> TRUE, enabled |-> Shown(r), storage |-> r.storage,
     sub |-> IF camera[c].present THEN camera[c].sub ELSE r.sub]

(* CLIENT_CAMERA_UPSERT: revives a deleted camera.                         *)
Upsert(c, r) == [present |-> TRUE, enabled |-> Shown(r), sub |-> r.sub, storage |-> r.storage]

Removed(c) == [camera[c] EXCEPT !.present = FALSE, !.enabled = FALSE]

(* A camera that is online and whose media path is ready is granted a URL  *)
(* for each of its streams.                                                *)
Granted(c, r, ready) ==
    {Signed(c, path, "publish", c, client[c].token) :
        path \in {p \in Profiles : r.status = "online" /\ ready /\ (p = "sub" => r.sub)}}

(* A snapshot, authenticated by the credential it carries.                 *)
Snapshot(c, r, ready) ==
    /\ Present(c) /\ client[c].token # 0
    /\ camera' = [camera EXCEPT ![c] = IF r = Nothing THEN Removed(c) ELSE Upsert(c, r)]
    /\ Sign(Granted(c, r, ready))
    /\ reported' = [reported EXCEPT ![c] = r]
    /\ UNCHANGED <<client, issued, now, ttl, request, rotations>>

(* Slip: the cameras stay as they are until the next snapshot.             *)
RotateClientOnly(c) ==
    /\ Present(c) /\ rotations[c] < MaxRotations
    /\ client' = [client EXCEPT ![c].token = 0]
    /\ rotations' = [rotations EXCEPT ![c] = @ + 1]
    /\ reported' = [reported EXCEPT ![c] = Nothing]
    /\ UNCHANGED <<camera, issued, now, ttl, tokens, request>>

(* update_client_authorization: a new code, no credential, no camera.      *)
Rotate(c) ==
    /\ Present(c) /\ rotations[c] < MaxRotations
    /\ client' = [client EXCEPT ![c].token = 0]
    /\ camera' = [camera EXCEPT ![c].enabled = FALSE]
    /\ rotations' = [rotations EXCEPT ![c] = @ + 1]
    /\ reported' = [reported EXCEPT ![c] = Nothing]
    /\ UNCHANGED <<issued, now, ttl, tokens, request>>

(* Slip: a client can be deleted without being revoked first.              *)
DeleteAtOnce(c) ==
    /\ client[c].state \in {"present", "revoked"}
    /\ client' = [client EXCEPT ![c].state = "deleted"]
    /\ UNCHANGED <<camera, issued, now, ttl, tokens, request, rotations, reported>>

(* revoke_client: first the client and its camera are taken out of use; a  *)
(* second request deletes both, once the camera's media is gone.           *)
Revoke(c) ==
    /\ Present(c)
    /\ client' = [client EXCEPT ![c].state = "revoked"]
    /\ camera' = [camera EXCEPT ![c] = Removed(c)]
    /\ UNCHANGED <<issued, now, ttl, tokens, request, rotations, reported>>
Delete(c) ==
    /\ client[c].state = "revoked"
    /\ client' = [client EXCEPT ![c].state = "deleted"]
    /\ UNCHANGED <<camera, issued, now, ttl, tokens, request, rotations, reported>>

-----------------------------------------------------------------------------
(* Viewers                                                                 *)

(* stream_ticket, list_recordings and play_recording read the camera ...   *)
Ask(kind, c, path) ==
    /\ request.pc = "idle"
    /\ camera[c].present
    /\ kind = "read" => camera[c].enabled
    /\ kind = "playback" => camera[c].storage = "server"
    /\ path = "sub" => camera[c].sub
    /\ request' = [Idle EXCEPT !.pc = "loaded", !.kind = kind, !.camera = c, !.path = path]
    /\ UNCHANGED <<client, camera, issued, now, ttl, tokens, rotations, reported>>

(* ... and sign a token afterwards: for the browser, or for a request of   *)
(* the server's own to MediaMTX.                                           *)
Answer ==
    /\ request.pc = "loaded"
    /\ LET t == Signed(request.camera, request.path, request.kind, None, 0) IN
          /\ Sign({t})
          /\ request' = IF request.kind = "read" THEN Idle
                        ELSE [request EXCEPT !.pc = "asking", !.token = t]
    /\ UNCHANGED <<client, camera, issued, now, ttl, rotations, reported>>

(* MediaMTX comes back to media-auth before it serves recordings.          *)
Stream ==
    /\ request.pc = "asking"
    /\ Admits(request.token, request.path, "playback")
    /\ request' = [request EXCEPT !.pc = "streaming"]
    /\ UNCHANGED <<client, camera, issued, now, ttl, tokens, rotations, reported>>
Refuse ==
    /\ request.pc = "asking"
    /\ ~Admits(request.token, request.path, "playback")
    /\ request' = Idle
    /\ UNCHANGED <<client, camera, issued, now, ttl, tokens, rotations, reported>>

(* The stream ends, or the viewer or MediaMTX goes away.                   *)
Leave ==
    /\ request.pc # "idle"
    /\ request' = Idle
    /\ UNCHANGED <<client, camera, issued, now, ttl, tokens, rotations, reported>>

-----------------------------------------------------------------------------

Tick ==
    /\ now < MaxTime
    /\ now' = now + 1
    /\ UNCHANGED <<client, camera, issued, ttl, tokens, request, rotations, reported>>

(* A restart keeps the tables and the signing key.                         *)
Restart ==
    /\ ttl' \in Ttls
    /\ request' = Idle
    /\ UNCHANGED <<client, camera, issued, now, tokens, rotations, reported>>

Next ==
    \/ \E c \in Clients : Create(c) \/ Pair(c) \/ Rotate(c) \/ Revoke(c) \/ Delete(c)
    \/ \E c \in Clients, r \in Reports \cup {Nothing}, ready \in BOOLEAN : Snapshot(c, r, ready)
    \/ \E kind \in {"read", "playback"}, c \in Clients, path \in Profiles : Ask(kind, c, path)
    \/ Answer \/ Stream \/ Refuse \/ Leave
    \/ Tick \/ Restart

Spec == Init /\ [][Next]_vars

-----------------------------------------------------------------------------
(* Properties                                                              *)

(* Rows, tokens and requests keep their shape; a camera in use has a       *)
(* client, and a token is at hand when MediaMTX is asked.                  *)
TypeOK ==
    /\ client \in [Clients -> Client]
    /\ camera \in [Clients -> Camera]
    /\ issued \in 0..MaxPairings /\ now \in Nat /\ ttl \in Ttls
    /\ tokens \in SUBSET Token
    /\ request \in [pc : {"idle", "loaded", "asking", "streaming"}, kind : {"read", "playback"},
                    camera : Clients \cup {None}, path : Profiles, token : Token \cup {None}]
    /\ request.pc # "idle" => request.camera \in Clients
    /\ request.pc = "asking" => request.token \in tokens
    /\ rotations \in [Clients -> 0..MaxRotations]
    /\ reported \in [Clients -> Reports \cup {Nothing}]
    /\ \A c \in Clients : camera[c].present => Present(c)

(* Once a client has been rotated, nothing is published with a URL that it *)
(* was granted before, even after it has been paired again                 *)
(* (publish_binding, and the credential that rotation clears).  That a     *)
(* revoked client's grants end is asked for by Permitted itself (Present). *)
RotationEndsGrants ==
    \A t \in tokens : Admits(t, t.path, "publish") => t.rotations = rotations[t.camera]

(* A camera is watched or published only while the client that is paired   *)
(* now has itself reported it in use: a rotation takes it from viewers     *)
(* whose tickets are still good, until the next report.                    *)
ShownIsReported ==
    \A t \in tokens, action \in {"read", "publish"} :
        Admits(t, t.path, action) => /\ client[t.camera].token # 0
                                     /\ Shown(reported[t.camera])

(* A granted URL works until it expires, as long as its client is not      *)
(* rotated or revoked and goes on reporting the stream: no other handler,  *)
(* no renewed grant and no later snapshot takes it away.                   *)
GrantsStayUsable ==
    \A t \in tokens :
        /\ t.action = "publish" /\ t.rotations = rotations[t.camera] /\ Present(t.camera)
        /\ Shown(reported[t.camera]) /\ (t.path = "sub" => reported[t.camera].sub)
        /\ now <= t.exp /\ t.exp - t.iat = ttl
        => Admits(t, t.path, "publish")

(* Recordings are streamed only if the camera is the server's to record    *)
(* when the stream begins, though the handler looked at it long before.    *)
StreamsServerRecordings ==
    [][request'.pc = "streaming" /\ request.pc # "streaming" =>
          /\ Present(request.camera) /\ camera[request.camera].present
          /\ camera[request.camera].storage = "server"]_vars

=============================================================================
