---------------------- MODULE MediaAuthorizationProofs ----------------------
(***************************************************************************)
(* The invariants of MediaAuthorization for any clients, lifetimes and     *)
(* bounds.  They are not inductive: they follow from how the credential of *)
(* a grant relates to the one its client has now (GrantsNameCredentials)   *)
(* and how the camera's row relates to what was last reported (RowIsReport). *)
(***************************************************************************)
EXTENDS MediaAuthorization, TLAPS

Request == [pc : {"idle", "loaded", "asking", "streaming"}, kind : {"read", "playback"},
            camera : Clients \cup {None}, path : Profiles, token : Token \cup {None}]

(* A grant carries a credential that was given out, and it is the one its  *)
(* client has exactly if the client has not been rotated since.            *)
GrantsNameCredentials ==
    /\ \A c \in Clients : client[c].token <= issued
    /\ \A t \in tokens : t.action = "publish" =>
          /\ t.sub = t.camera
          /\ t.binding \in 1..issued
          /\ t.rotations <= rotations[t.camera]
          /\ t.binding = client[t.camera].token <=> t.rotations = rotations[t.camera]

(* A camera is enabled only by a report of the client that is paired now,  *)
(* and the row of a client in use says what that report said.              *)
RowIsReport ==
    \A c \in Clients :
        /\ client[c].state = "none" => ~Shown(reported[c])
        /\ camera[c].enabled => client[c].token # 0 /\ Shown(reported[c])
        /\ Present(c) /\ Shown(reported[c]) =>
              camera[c].present /\ camera[c].enabled /\ camera[c].sub = reported[c].sub

(* Tokens are not from the future, and MediaMTX is asked with the one that *)
(* was signed for the request.                                             *)
TokensAreSound ==
    /\ \A t \in tokens : t.iat <= now
    /\ request.pc = "asking" => request.token.camera = request.camera

IInv == TypeOK /\ GrantsNameCredentials /\ RowIsReport /\ TokensAreSound

-----------------------------------------------------------------------------
LEMMA TypeFacts ==
    ASSUME TypeOK
    PROVE  /\ client \in [Clients -> Client] /\ camera \in [Clients -> Camera]
           /\ issued \in Nat /\ now \in Nat /\ ttl \in Nat
           /\ tokens \in SUBSET Token /\ request \in Request
           /\ rotations \in [Clients -> 0..MaxRotations] /\ reported \in [Clients -> Reports \cup {Nothing}]
           /\ MaxRotations \in Nat /\ MaxPairings \in Nat
BY ConstantsAssumption DEF TypeOK, Request

(* A token that is signed is a token of now, for the client as it is.      *)
LEMMA SignedIsToken ==
    ASSUME TypeOK, NEW c \in Clients, NEW path \in Profiles,
           NEW action \in {"read", "playback", "publish"}, NEW sub \in Clients \cup {None},
           NEW binding \in Nat, binding <= MaxPairings
    PROVE  /\ Signed(c, path, action, sub, binding) \in Token
           /\ Signed(c, path, action, sub, binding).camera = c
           /\ Signed(c, path, action, sub, binding).action = action
           /\ Signed(c, path, action, sub, binding).sub = sub
           /\ Signed(c, path, action, sub, binding).binding = binding
           /\ Signed(c, path, action, sub, binding).iat = now
           /\ Signed(c, path, action, sub, binding).rotations = rotations[c]
BY TypeFacts DEF Signed, Token

LEMMA Initially == Init => IInv
<1> SUFFICES ASSUME Init PROVE IInv
  OBVIOUS
<1>1. TypeOK
  BY ConstantsAssumption DEF Init, TypeOK, Client, Camera, Idle, Profiles, Storages, Present
<1>2. GrantsNameCredentials
  BY DEF Init, GrantsNameCredentials
<1>3. RowIsReport
  BY DEF Init, RowIsReport, Shown, Nothing
<1>4. TokensAreSound
  BY DEF Init, TokensAreSound, Idle
<1> QED  BY <1>1, <1>2, <1>3, <1>4 DEF IInv

-----------------------------------------------------------------------------
(* The handlers, one by one                                                *)


LEMMA CreateKeeps == ASSUME IInv, NEW c \in Clients, Create(c) PROVE IInv'
<1>1. /\ client' \in [Clients -> Client]
      /\ \A d \in Clients : client'[d].token = client[d].token
      /\ \A d \in Clients : client'[d].state = IF d = c THEN "present" ELSE client[d].state
  BY TypeFacts DEF IInv, Create, Client
<1>2. client[c].state = "none" /\ ~Shown(reported[c])
  BY DEF IInv, Create, RowIsReport
<1>3. TypeOK'
  BY <1>1 DEF IInv, Create, TypeOK, Present
<1>4. GrantsNameCredentials'
  <2>1. \A t \in tokens : t.camera \in Clients
    BY TypeFacts DEF IInv, Token
  <2> QED  BY <1>1, <2>1 DEF IInv, Create, GrantsNameCredentials
<1>5. RowIsReport'
  BY <1>1, <1>2 DEF IInv, Create, RowIsReport, Present
<1>6. TokensAreSound'
  BY DEF IInv, Create, TokensAreSound
<1> QED  BY <1>3, <1>4, <1>5, <1>6 DEF IInv

(* A new credential is no grant's yet.                                     *)
LEMMA PairKeeps == ASSUME IInv, NEW c \in Clients, Pair(c) PROVE IInv'
<1>1. /\ client' \in [Clients -> Client] /\ issued' = issued + 1 /\ issued' \in 0..MaxPairings
      /\ \A d \in Clients : client'[d].state = client[d].state
      /\ \A d \in Clients : client'[d].token = IF d = c THEN issued + 1 ELSE client[d].token
  BY TypeFacts DEF IInv, Pair, Client
<1>2. client[c].token = 0
  BY DEF Pair
<1>3. TypeOK'
  BY <1>1 DEF IInv, Pair, TypeOK, Present
<1>4. GrantsNameCredentials'
  <2>1. \A t \in tokens : t.camera \in Clients
    BY TypeFacts DEF IInv, Token
  <2>2. \A d \in Clients : client'[d].token <= issued'
    BY <1>1, TypeFacts DEF IInv, GrantsNameCredentials, Client
  <2>3. ASSUME NEW t \in tokens, t.action = "publish"
        PROVE  /\ t.binding \in 1..issued'
               /\ t.binding = client'[t.camera].token <=> t.rotations = rotations[t.camera]
    <3>1. t.binding \in 1..issued /\ (t.binding = client[t.camera].token <=> t.rotations = rotations[t.camera])
      BY <2>3 DEF IInv, GrantsNameCredentials
    <3>2. CASE t.camera = c
      BY <1>1, <1>2, <2>1, <3>1, <3>2, TypeFacts DEF IInv
    <3>3. CASE t.camera # c
      BY <1>1, <2>1, <3>1, <3>3, TypeFacts DEF IInv
    <3> QED  BY <3>2, <3>3
  <2> QED  BY <2>2, <2>3 DEF IInv, Pair, GrantsNameCredentials
<1>5. RowIsReport'
  BY <1>1, <1>2, TypeFacts DEF IInv, Pair, RowIsReport, Present
<1>6. TokensAreSound'
  BY DEF IInv, Pair, TokensAreSound
<1> QED  BY <1>3, <1>4, <1>5, <1>6 DEF IInv

(* What a rotation counts no grant has seen.                               *)
LEMMA RotateKeeps == ASSUME IInv, NEW c \in Clients, Rotate(c) PROVE IInv'
<1>1. /\ client' \in [Clients -> Client]
      /\ \A d \in Clients : client'[d].state = client[d].state
      /\ \A d \in Clients : client'[d].token = IF d = c THEN 0 ELSE client[d].token
  BY TypeFacts DEF IInv, Rotate, Client
<1>2. /\ camera' \in [Clients -> Camera]
      /\ \A d \in Clients : camera'[d].present = camera[d].present
      /\ ~camera'[c].enabled /\ \A d \in Clients \ {c} : camera'[d] = camera[d]
  BY TypeFacts DEF IInv, Rotate, Camera
<1>3. /\ rotations' \in [Clients -> 0..MaxRotations]
      /\ \A d \in Clients : rotations'[d] = IF d = c THEN rotations[c] + 1 ELSE rotations[d]
  BY TypeFacts DEF IInv, Rotate
<1>4. /\ reported' \in [Clients -> Reports \cup {Nothing}]
      /\ reported'[c] = Nothing /\ \A d \in Clients \ {c} : reported'[d] = reported[d]
  BY TypeFacts DEF IInv, Rotate
<1>5. TypeOK'
  BY <1>1, <1>2, <1>3, <1>4 DEF IInv, Rotate, TypeOK, Present
<1>6. GrantsNameCredentials'
  <2>1. \A d \in Clients : client'[d].token <= issued
    BY <1>1, TypeFacts DEF IInv, GrantsNameCredentials
  <2>2. ASSUME NEW t \in tokens, t.action = "publish"
        PROVE  /\ t.rotations <= rotations'[t.camera]
               /\ t.binding = client'[t.camera].token <=> t.rotations = rotations'[t.camera]
    <3>1. /\ t.binding \in 1..issued /\ t.rotations <= rotations[t.camera]
          /\ t.binding = client[t.camera].token <=> t.rotations = rotations[t.camera]
      BY <2>2 DEF IInv, GrantsNameCredentials
    <3>2. t.camera \in Clients /\ t.rotations \in Nat /\ rotations[t.camera] \in Nat
      BY TypeFacts DEF IInv, Token
    <3>3. CASE t.camera = c
      BY <1>1, <1>3, <3>1, <3>2, <3>3, TypeFacts DEF IInv
    <3>4. CASE t.camera # c
      BY <1>1, <1>3, <3>1, <3>2, <3>4
    <3> QED  BY <3>3, <3>4
  <2> QED  BY <2>1, <2>2 DEF IInv, Rotate, GrantsNameCredentials
<1>7. RowIsReport'
  BY <1>1, <1>2, <1>4 DEF IInv, RowIsReport, Present, Shown, Nothing
<1>8. TokensAreSound'
  BY DEF IInv, Rotate, TokensAreSound
<1> QED  BY <1>5, <1>6, <1>7, <1>8 DEF IInv

LEMMA RevokeKeeps == ASSUME IInv, NEW c \in Clients, Revoke(c) \/ Delete(c) PROVE IInv'
<1>1. /\ client' \in [Clients -> Client]
      /\ \A d \in Clients : client'[d].token = client[d].token
      /\ \A d \in Clients \ {c} : client'[d].state = client[d].state
      /\ client'[c].state \in {"revoked", "deleted"}
  BY TypeFacts DEF IInv, Revoke, Delete, Client
<1>2. /\ camera' \in [Clients -> Camera]
      /\ \A d \in Clients \ {c} : camera'[d] = camera[d]
      /\ ~camera'[c].present /\ (camera'[c].enabled => camera[c].enabled)
  <2>1. CASE Revoke(c)
    BY <2>1, TypeFacts DEF IInv, Revoke, Removed, Camera
  <2>2. CASE Delete(c)
    BY <2>2, TypeFacts DEF IInv, Delete, TypeOK, Present
  <2> QED  BY <2>1, <2>2
<1>3. UNCHANGED <<issued, now, ttl, tokens, request, rotations, reported>>
  BY DEF Revoke, Delete
<1>4. TypeOK'
  BY <1>1, <1>2, <1>3 DEF IInv, TypeOK, Present
<1>5. GrantsNameCredentials'
  <2>1. \A t \in tokens : t.camera \in Clients
    BY TypeFacts DEF IInv, Token
  <2> QED  BY <1>1, <1>3, <2>1 DEF IInv, GrantsNameCredentials
<1>6. RowIsReport'
  BY <1>1, <1>2, <1>3 DEF IInv, RowIsReport, Present
<1>7. TokensAreSound'
  BY <1>3 DEF IInv, TokensAreSound
<1> QED  BY <1>4, <1>5, <1>6, <1>7 DEF IInv

(* A report replaces the row, and what it is granted carries the client's  *)
(* present credential.                                                     *)
LEMMA SnapshotKeeps ==
    ASSUME IInv, NEW c \in Clients, NEW r \in Reports \cup {Nothing}, NEW ready \in BOOLEAN,
           Snapshot(c, r, ready)
    PROVE  IInv'
<1>0. /\ Present(c) /\ client[c].token # 0 /\ client[c].token \in Nat /\ client[c].token <= MaxPairings
      /\ client[c].token \in 1..issued
  BY TypeFacts DEF IInv, Snapshot, Client, GrantsNameCredentials
<1>1. \A t \in Granted(c, r, ready) :
         /\ t \in Token /\ t.camera = c /\ t.action = "publish" /\ t.sub = c
         /\ t.binding = client[c].token /\ t.iat = now /\ t.rotations = rotations[c]
  BY <1>0, SignedIsToken DEF IInv, Granted
<1>2. /\ tokens' = tokens \cup Granted(c, r, ready)
      /\ UNCHANGED <<client, issued, now, ttl, request, rotations>>
  BY DEF Snapshot, Sign
<1>3. /\ camera' \in [Clients -> Camera] /\ \A d \in Clients \ {c} : camera'[d] = camera[d]
      /\ r = Nothing => ~camera'[c].present /\ ~camera'[c].enabled
      /\ r # Nothing => /\ camera'[c].present /\ camera'[c].enabled = Shown(r)
                        /\ camera'[c].sub = r.sub
  <2>1. CASE r = Nothing
    BY <2>1, TypeFacts DEF IInv, Snapshot, Removed, Camera
  <2>2. CASE r # Nothing
    <3>1. r.sub \in BOOLEAN /\ r.storage \in Storages /\ Shown(r) \in BOOLEAN
      BY <2>2 DEF Reports, Shown
    <3>2. camera' = [camera EXCEPT ![c] = Upsert(c, r)]
      BY <2>2 DEF Snapshot
    <3> QED  BY <2>2, <3>1, <3>2, TypeFacts DEF IInv, Upsert, Camera
  <2> QED  BY <2>1, <2>2
<1>4. /\ reported' \in [Clients -> Reports \cup {Nothing}]
      /\ reported'[c] = r /\ \A d \in Clients \ {c} : reported'[d] = reported[d]
  BY TypeFacts DEF IInv, Snapshot
<1>5. TypeOK'
  BY <1>0, <1>1, <1>2, <1>3, <1>4 DEF IInv, TypeOK, Present
<1>6. GrantsNameCredentials'
  <2>1. rotations[c] \in Nat
    BY TypeFacts DEF IInv
  <2> QED  BY <1>0, <1>1, <1>2, <2>1 DEF IInv, GrantsNameCredentials
<1>7. RowIsReport'
  <2> SUFFICES ASSUME NEW d \in Clients
               PROVE  /\ client[d].state = "none" => ~Shown(reported'[d])
                      /\ camera'[d].enabled => client[d].token # 0 /\ Shown(reported'[d])
                      /\ client[d].state = "present" /\ Shown(reported'[d]) =>
                            camera'[d].present /\ camera'[d].enabled /\ camera'[d].sub = reported'[d].sub
    BY <1>2 DEF RowIsReport, Present
  <2>1. CASE d # c
    BY <1>3, <1>4, <2>1 DEF IInv, RowIsReport, Present
  <2>2. CASE d = c /\ r = Nothing
    BY <1>3, <1>4, <2>2 DEF Shown, Nothing
  <2>3. CASE d = c /\ r # Nothing
    BY <1>0, <1>3, <1>4, <2>3 DEF Present
  <2> QED  BY <2>1, <2>2, <2>3
<1>8. TokensAreSound'
  BY <1>1, <1>2, TypeFacts DEF IInv, TokensAreSound
<1> QED  BY <1>5, <1>6, <1>7, <1>8 DEF IInv

-----------------------------------------------------------------------------
(* A viewer's request only signs tokens without a credential.              *)
LEMMA AskKeeps ==
    ASSUME IInv, NEW kind \in {"read", "playback"}, NEW c \in Clients, NEW path \in Profiles,
           Ask(kind, c, path)
    PROVE  IInv'
<1>1. request' \in Request /\ request'.pc = "loaded" /\ request'.camera = c
  BY DEF Ask, Idle, Request
<1>2. UNCHANGED <<client, camera, issued, now, ttl, tokens, rotations, reported>>
  BY DEF Ask
<1>3. TypeOK'
  BY <1>1, <1>2 DEF IInv, TypeOK, Request, Present
<1> QED  BY <1>1, <1>2, <1>3 DEF IInv, GrantsNameCredentials, RowIsReport, TokensAreSound, Present

LEMMA AnswerKeeps == ASSUME IInv, Answer PROVE IInv'
<1> DEFINE t == Signed(request.camera, request.path, request.kind, None, 0)
<1>1. /\ request.camera \in Clients /\ request.path \in Profiles
      /\ request.kind \in {"read", "playback", "publish"} /\ request \in Request
      /\ 0 <= MaxPairings /\ request.kind # "publish"
      /\ None \in Clients \cup {None}
  BY TypeFacts DEF IInv, Answer, TypeOK, Request
<1>2. t \in Token /\ t.camera = request.camera /\ t.action = request.kind /\ t.iat = now
  <2>1. TypeOK /\ 0 \in Nat
    BY DEF IInv
  <2>2. request.kind \in {"read", "playback"} /\ None \in Clients \cup {None}
    BY <1>1
  <2> QED  BY <1>1, <2>1, <2>2, TypeFacts DEF Signed, Token
<1>3. tokens' = tokens \cup {t} /\ UNCHANGED <<client, camera, issued, now, ttl, rotations, reported>>
  BY DEF Answer, Sign
<1>4. \/ request' = Idle
      \/ request' = [request EXCEPT !.pc = "asking", !.token = t]
  BY DEF Answer
<1> HIDE DEF t
<1>5. /\ request' \in Request /\ (request'.pc # "idle" => request'.camera \in Clients)
      /\ request'.pc = "asking" => request'.token = t /\ request'.camera = request.camera
  <2>1. CASE request' = Idle
    BY <2>1 DEF Idle, Request, Profiles
  <2>2. CASE request' = [request EXCEPT !.pc = "asking", !.token = t]
    BY <1>1, <1>2, <2>2 DEF Request
  <2> QED  BY <1>4, <2>1, <2>2
<1>6. TypeOK'
  BY <1>2, <1>3, <1>5 DEF IInv, TypeOK, Request, Present
<1>7. GrantsNameCredentials'
  BY <1>1, <1>2, <1>3 DEF IInv, GrantsNameCredentials
<1>8. RowIsReport' /\ TokensAreSound'
  BY <1>2, <1>3, <1>5, TypeFacts DEF IInv, RowIsReport, TokensAreSound, Present
<1> QED  BY <1>6, <1>7, <1>8 DEF IInv

LEMMA RequestMoves == ASSUME IInv, Stream \/ Refuse \/ Leave PROVE IInv'
<1>1. UNCHANGED <<client, camera, issued, now, ttl, tokens, rotations, reported>>
  BY DEF Stream, Refuse, Leave
<1>2. request' \in Request /\ request'.pc # "asking" /\ (request'.pc # "idle" => request'.camera \in Clients)
  <2>1. CASE Stream
    BY <2>1, TypeFacts DEF IInv, TypeOK, Stream, Request
  <2>2. CASE Refuse \/ Leave
    BY <2>2 DEF Refuse, Leave, Idle, Request, Profiles
  <2> QED  BY <2>1, <2>2
<1>3. TypeOK'
  BY <1>1, <1>2 DEF IInv, TypeOK, Request, Present
<1> QED  BY <1>1, <1>2, <1>3 DEF IInv, GrantsNameCredentials, RowIsReport, TokensAreSound, Present

LEMMA TimeKeeps == ASSUME IInv, Tick \/ Restart PROVE IInv'
<1>1. UNCHANGED <<client, camera, issued, tokens, rotations, reported>>
  BY DEF Tick, Restart
<1>2. now' \in Nat /\ now' >= now /\ ttl' \in Ttls /\ request' \in Request
  BY TypeFacts DEF IInv, TypeOK, Tick, Restart, Idle, Request, Profiles
<1>3. request' = request \/ request' = Idle
  BY DEF Tick, Restart
<1>4. TypeOK'
  BY <1>1, <1>2, <1>3 DEF IInv, TypeOK, Request, Present, Idle
<1>5. TokensAreSound'
  BY <1>1, <1>2, <1>3, TypeFacts DEF IInv, TokensAreSound, Idle, Token
<1> QED  BY <1>1, <1>4, <1>5 DEF IInv, GrantsNameCredentials, RowIsReport, Present

LEMMA Inductive == IInv /\ [Next]_vars => IInv'
<1> SUFFICES ASSUME IInv, [Next]_vars PROVE IInv'
  OBVIOUS
<1>1. CASE UNCHANGED vars
  BY <1>1 DEF vars, IInv, TypeOK, GrantsNameCredentials, RowIsReport, TokensAreSound, Present
<1>2. CASE Next
  BY <1>2, CreateKeeps, PairKeeps, RotateKeeps, RevokeKeeps, SnapshotKeeps, AskKeeps, AnswerKeeps,
     RequestMoves, TimeKeeps DEF Next
<1> QED  BY <1>1, <1>2

-----------------------------------------------------------------------------
(* Rows, tokens and requests keep their shape, and no camera outlives its  *)
(* client: the state of routes/clients.rs and routes/media.rs.             *)
THEOREM TypeCorrect == Spec => []TypeOK
<1>1. IInv => TypeOK
  BY DEF IInv
<1> QED  BY <1>1, Initially, Inductive, PTL DEF Spec

(* A grant of before a rotation is never admitted again (publish_binding), *)
(* however often the client has been paired since.                         *)
THEOREM RotationIsFinal == Spec => []RotationEndsGrants
<1>1. IInv => RotationEndsGrants
  <2> SUFFICES ASSUME IInv, NEW t \in tokens, Admits(t, t.path, "publish")
               PROVE  t.rotations = rotations[t.camera]
    BY DEF RotationEndsGrants
  <2>1. t.action = "publish" /\ t.binding = client[t.camera].token
    BY DEF Admits, Permitted, Bound
  <2> QED  BY <2>1 DEF IInv, GrantsNameCredentials
<1> QED  BY <1>1, Initially, Inductive, PTL DEF Spec

(* What media-auth lets through is shown by the client that is paired now. *)
THEOREM OnlyShownIsAdmitted == Spec => []ShownIsReported
<1>1. IInv => ShownIsReported
  <2> SUFFICES ASSUME IInv, NEW t \in tokens, NEW action \in {"read", "publish"},
                      Admits(t, t.path, action)
               PROVE  client[t.camera].token # 0 /\ Shown(reported[t.camera])
    BY DEF ShownIsReported
  <2>1. t.camera \in Clients
    BY TypeFacts DEF IInv, Token
  <2>2. camera[t.camera].enabled
    BY DEF Admits, Permitted
  <2> QED  BY <2>1, <2>2 DEF IInv, RowIsReport
<1> QED  BY <1>1, Initially, Inductive, PTL DEF Spec

(* The other direction: what a client was granted it can use until its     *)
(* expiry, whatever else the server does in between.                       *)
THEOREM GrantsAreKept == Spec => []GrantsStayUsable
<1>1. IInv => GrantsStayUsable
  <2> SUFFICES ASSUME IInv, NEW t \in tokens, t.action = "publish", t.rotations = rotations[t.camera],
                      Present(t.camera), Shown(reported[t.camera]),
                      t.path = "sub" => reported[t.camera].sub,
                      now <= t.exp, t.exp - t.iat = ttl
               PROVE  Admits(t, t.path, "publish")
    BY DEF GrantsStayUsable
  <2>1. t.camera \in Clients /\ t.path \in Profiles
    BY TypeFacts DEF IInv, Token
  <2>2. t.binding \in 1..issued /\ t.sub = t.camera /\ t.binding = client[t.camera].token
    BY DEF IInv, GrantsNameCredentials
  <2>3. /\ camera[t.camera].present /\ camera[t.camera].enabled
        /\ camera[t.camera].sub = reported[t.camera].sub
    BY <2>1 DEF IInv, RowIsReport
  <2>4. Decodes(t)
    BY <2>2 DEF IInv, TokensAreSound, Decodes
  <2>5. Bound(t)
    BY <2>2, TypeFacts DEF IInv, Bound
  <2>6. Permitted(t, "publish")
    BY <2>1, <2>3, <2>5 DEF Permitted, Profiles
  <2> QED  BY <2>4, <2>6 DEF Admits
<1> QED  BY <1>1, Initially, Inductive, PTL DEF Spec

(* A stream of recordings begins only for a camera that the server records *)
(* at that moment (play_recording, and media_auth behind MediaMTX).        *)
THEOREM StreamsAreServerRecordings == Spec => StreamsServerRecordings
<1>1. IInv /\ [Next]_vars =>
         [request'.pc = "streaming" /\ request.pc # "streaming" =>
             /\ Present(request.camera) /\ camera[request.camera].present
             /\ camera[request.camera].storage = "server"]_vars
  <2> SUFFICES ASSUME IInv, [Next]_vars, request'.pc = "streaming", request.pc # "streaming"
               PROVE  /\ Present(request.camera) /\ camera[request.camera].present
                      /\ camera[request.camera].storage = "server"
    OBVIOUS
  <2>1. Stream
    <3>1. request' # request
      OBVIOUS
    <3>2. request' # Idle
      BY DEF Idle
    <3>3. ASSUME Answer PROVE FALSE
      <4>1. request' = [request EXCEPT !.pc = "asking",
                          !.token = Signed(request.camera, request.path, request.kind, None, 0)]
        BY <3>2, <3>3 DEF Answer
      <4>2. request \in Request
        BY TypeFacts DEF IInv
      <4> QED  BY <4>1, <4>2 DEF Request
    <3>4. ASSUME NEW kind \in {"read", "playback"}, NEW c \in Clients, NEW path \in Profiles, Ask(kind, c, path)
          PROVE  FALSE
      BY <3>4 DEF Ask, Idle
    <3> QED
      BY <3>1, <3>2, <3>3, <3>4
         DEF Next, vars, Create, Pair, Rotate, Revoke, Delete, Snapshot, Refuse, Leave, Tick, Restart
  <2>2. request.pc = "asking" /\ Permitted(request.token, "playback")
    BY <2>1 DEF Stream, Admits
  <2>3. request.token.camera = request.camera
    BY <2>2 DEF IInv, TokensAreSound
  <2> QED  BY <2>2, <2>3 DEF Permitted, Stores
<1> QED  BY <1>1, Initially, Inductive, PTL DEF Spec, StreamsServerRecordings

=============================================================================
