--------------------------- MODULE PreviewsProofs ---------------------------
(***************************************************************************)
(* Proofs about Previews, for every set of cameras, viewers and preview    *)
(* objects, every limit and timeout; and, in the second half, about        *)
(* SceneRules, which it instantiates.                                      *)
(***************************************************************************)
EXTENDS Previews, Sequences, SequenceTheorems, FunctionTheorems, FiniteSetTheorems, TLAPS

\* What the maps of the gateway say of each other, and of the objects that are
\* not listed: a listed preview runs, and one that does not run has no sessions,
\* so that stopping it twice ends nobody's session.  The list is finite, so its
\* length is a number.
Running ==
  /\ IsFiniteSet(Live)
  /\ \A c \in Live : preview[listed[c]].phase = "runs"
  /\ \A p \in Preview : preview[p].phase # "runs" => preview[p].sessions = {}

MapTypes ==
  /\ limit \in 1..MaxLive
  /\ listed \in [Camera -> {0} \union Preview]
  /\ session \in [Viewer -> Camera \union {Off}]
  /\ preview \in [Preview -> Object]
  /\ age \in [Viewer -> 0..(Timeout + 1)]

Maps == MapTypes /\ SessionsConsistent /\ Running

\* The coroutines around the maps
Rest ==
  /\ rows \in [Camera -> Source \union {Off}]
  /\ playable \in [Camera -> Source \union {Off}]
  /\ viewer \in [Viewer -> Browser]
  /\ mjpeg \subseteq Viewer
  /\ sweep \in [expired : SUBSET Viewer, at : {0} \union Preview]
  /\ editor \in [pc : {"idle", "remove", "sync", "previews", "captures"},
                 todo : SUBSET Camera, at : {0} \union Preview, wanted : [Camera -> Source \union {Off}]]
  /\ edits \in 0..MaxEdits

PInv == Maps /\ Rest

LEMMA Parts == PInv <=> Consistent /\ Running
  BY DEF PInv, Maps, MapTypes, Rest, Consistent, TypeOK

-----------------------------------------------------------------------------
(* Lemmas about the operators *)

RunningObject ==
  [camera : Camera, source : Source, sessions : SUBSET Viewer, phase : {"runs", "ending"}]

\* An object that runs may lose or gain sessions and be halted.
LEMMA ObjectType ==
  ASSUME NEW o \in Object, o.phase = "runs", NEW S \in SUBSET Viewer
  PROVE  /\ With(o, S) \in Object
         /\ With(o, S).sessions = S
         /\ With(o, S).phase = "runs"
         /\ With(o, S).camera = o.camera
         /\ Halted(o) \in Object
         /\ Halted(o).sessions = {} /\ Halted(o).phase = "ending"
<1>1. o \in RunningObject
  BY DEF Object, NoObject, RunningObject
<1> DEFINE fewer == With(o, S)
<1>2. /\ fewer \in RunningObject
      /\ fewer.sessions = S /\ fewer.phase = "runs" /\ fewer.camera = o.camera
  BY <1>1 DEF RunningObject, With
<1>3. /\ Halted(o) \in RunningObject
      /\ Halted(o).sessions = {} /\ Halted(o).phase = "ending"
  BY <1>1 DEF RunningObject, Halted
<1>4. RunningObject \subseteq Object
  BY DEF Object, RunningObject
<1>5. QED
  BY <1>2, <1>3, <1>4

\* The listed preview of a live camera is an object, and no other camera's.
LEMMA ListedType ==
  ASSUME Maps, NEW c \in Camera, listed[c] # 0
  PROVE  /\ c \in Live /\ listed[c] \in Preview
         /\ preview[listed[c]] \in Object /\ preview[listed[c]].phase = "runs"
         /\ preview[listed[c]].sessions \in SUBSET Viewer
         /\ \A d \in Camera : listed[d] = listed[c] => d = c
<1>1. c \in Live /\ listed[c] \in Preview
  BY DEF Maps, MapTypes, Live
<1>2. preview[listed[c]] \in Object /\ preview[listed[c]].phase = "runs"
  BY <1>1 DEF Maps, MapTypes, Running
<1>3. preview[listed[c]].sessions \in SUBSET Viewer
  BY <1>2 DEF Object, NoObject
<1>4. \A d \in Camera : listed[d] = listed[c] => d = c
  BY <1>1 DEF Maps, SessionsConsistent, Live
<1>5. QED
  BY <1>1, <1>2, <1>3, <1>4

\* No list that is part of a list within the limit is too long.
LEMMA FewerLive ==
  ASSUME Maps, Live' \subseteq Live, UNCHANGED limit
  PROVE  IsFiniteSet(Live') /\ Cardinality(Live') <= limit'
<1>1. IsFiniteSet(Live) /\ Cardinality(Live) <= limit /\ limit \in Nat
  BY PreviewsAssumption DEF Maps, MapTypes, SessionsConsistent, Running
<1>2. IsFiniteSet(Live') /\ Cardinality(Live') <= Cardinality(Live)
  BY <1>1, FS_Subset
<1>3. Cardinality(Live) \in Nat /\ Cardinality(Live') \in Nat
  BY <1>1, <1>2, FS_CardinalityType
<1>4. QED
  BY <1>1, <1>2, <1>3

LEMMA ForgetType ==
  ASSUME Maps, NEW V, Forget(V)
  PROVE  /\ session' \in [Viewer -> Camera \union {Off}]
         /\ age' \in [Viewer -> 0..(Timeout + 1)]
         /\ \A v \in Viewer : session'[v] = IF v \in V THEN Off ELSE session[v]
  BY PreviewsAssumption DEF Maps, MapTypes, Forget

\* Previews are taken off the list and halted, or lose sessions but not all: then
\* the maps agree afterwards if the sessions that ended are forgotten.
LEMMA SessionsEnd ==
  ASSUME Maps, UNCHANGED limit,
         NEW off \in SUBSET Live, NEW V \in SUBSET Viewer, Forget(V),
         listed' = [c \in Camera |-> IF c \in off THEN 0 ELSE listed[c]],
         preview' \in [Preview -> Object],
         \A c \in off : preview'[listed[c]].sessions = {} /\ preview'[listed[c]].phase = "ending",
         \A c \in Live \ off :
           /\ preview'[listed[c]].sessions = preview[listed[c]].sessions \ V
           /\ ~(preview[listed[c]].sessions \subseteq V)
           /\ preview'[listed[c]].phase = "runs"
           /\ preview'[listed[c]].camera = preview[listed[c]].camera,
         \A p \in Preview : (\A c \in Live : listed[c] # p) => preview'[p] = preview[p],
         \A v \in Viewer : session[v] \in off => v \in V
  PROVE  Maps'
<1>1. MapTypes'
  BY ForgetType DEF Maps, MapTypes
<1>2. Live' = Live \ off
  BY DEF Live
<1>3. \A c \in Live' : c \in Camera /\ listed'[c] = listed[c] /\ listed[c] \in Preview
  BY <1>2 DEF Live, Maps, MapTypes
<1>4. IsFiniteSet(Live') /\ Cardinality(Live') <= limit'
  BY <1>2, FewerLive
<1>5. \A v \in Viewer, c \in Camera :
        session'[v] = c <=> listed'[c] # 0 /\ v \in preview'[listed'[c]].sessions
  <2> SUFFICES ASSUME NEW v \in Viewer, NEW c \in Camera
               PROVE  session'[v] = c <=> listed'[c] # 0 /\ v \in preview'[listed'[c]].sessions
    OBVIOUS
  <2>1. session[v] = c <=> c \in Live /\ v \in preview[listed[c]].sessions
    BY DEF Maps, SessionsConsistent, Live
  <2>2. session'[v] = c <=> session[v] = c /\ v \notin V
    BY ForgetType, PreviewsAssumption
  <2>3. CASE c \in Live'
    BY <1>2, <1>3, <2>1, <2>2, <2>3 DEF Live
  <2>4. CASE c \notin Live'
    <3>1. listed'[c] = 0
      BY <2>4 DEF Live
    <3>2. c \notin Live \/ c \in off
      BY <1>2, <2>4
    <3>3. QED
      BY <2>1, <2>2, <3>1, <3>2
  <2>5. QED
    BY <2>3, <2>4
<1>6. \A c \in Live' : preview'[listed'[c]].camera = c /\ preview'[listed'[c]].sessions # {}
  <2>1. \A c \in Live' : /\ preview[listed[c]].camera = c
                         /\ preview'[listed[c]].camera = preview[listed[c]].camera
                         /\ preview'[listed[c]].sessions = preview[listed[c]].sessions \ V
                         /\ ~(preview[listed[c]].sessions \subseteq V)
    BY <1>2 DEF Maps, SessionsConsistent
  <2>2. QED
    BY <1>3, <2>1
<1>7. \A p \in Preview : preview'[p].phase = "runs" => \E c \in Live' : listed'[c] = p
  <2> SUFFICES ASSUME NEW p \in Preview, preview'[p].phase = "runs"
               PROVE  \E c \in Live' : listed'[c] = p
    OBVIOUS
  <2>1. CASE \A c \in Live : listed[c] # p
    BY <2>1 DEF Maps, SessionsConsistent
  <2>2. CASE \E c \in Live : listed[c] = p
    BY <1>2, <1>3, <2>2
  <2>3. QED
    BY <2>1, <2>2
<1>8. \A c \in Live' : preview'[listed'[c]].phase = "runs"
  BY <1>2, <1>3
<1>9. \A p \in Preview : preview'[p].phase # "runs" => preview'[p].sessions = {}
  <2> SUFFICES ASSUME NEW p \in Preview, preview'[p].phase # "runs"
               PROVE  preview'[p].sessions = {}
    OBVIOUS
  <2>1. CASE \A c \in Live : listed[c] # p
    BY <2>1 DEF Maps, Running
  <2>2. CASE \E c \in Live : listed[c] = p
    BY <2>2
  <2>3. QED
    BY <2>1, <2>2
<1>10. QED
  BY <1>1, <1>4, <1>5, <1>6, <1>7, <1>8, <1>9 DEF Maps, SessionsConsistent, Running

-----------------------------------------------------------------------------
(* What ends sessions *)

\* stop_preview
LEMMA StopPreviewKeeps ==
  ASSUME Maps, NEW v \in Viewer, StopPreview(v), UNCHANGED limit
  PROVE  Maps'
<1> DEFINE c == session[v]
<1>1. Forget({v})
  BY DEF StopPreview
<1>2. {v} \in SUBSET Viewer /\ {} \in SUBSET Live
  OBVIOUS
<1>3. CASE c = Off \/ listed[c] = 0
  <2>1. UNCHANGED <<listed, preview>>
    BY <1>3 DEF StopPreview
  <2>2. c = Off
    BY <1>3 DEF Maps, MapTypes, SessionsConsistent
  <2>3. \A d \in Live : preview[listed[d]].sessions \ {v} = preview[listed[d]].sessions
                       /\ ~(preview[listed[d]].sessions \subseteq {v})
    <3> SUFFICES ASSUME NEW d \in Live
                 PROVE  v \notin preview[listed[d]].sessions /\ preview[listed[d]].sessions # {}
      OBVIOUS
    <3>1. QED
      BY <2>2, PreviewsAssumption DEF Maps, SessionsConsistent, Live
  <2>4. /\ listed' = [d \in Camera |-> IF d \in {} THEN 0 ELSE listed[d]]
        /\ preview' \in [Preview -> Object]
    BY <2>1 DEF Maps, MapTypes
  <2>5. \A d \in Live : preview[listed[d]].phase = "runs"
    BY DEF Maps, Running
  <2>6. /\ \A d \in {} : preview'[listed[d]].sessions = {} /\ preview'[listed[d]].phase = "ending"
        /\ \A d \in Live \ {} :
              /\ preview'[listed[d]].sessions = preview[listed[d]].sessions \ {v}
              /\ ~(preview[listed[d]].sessions \subseteq {v})
              /\ preview'[listed[d]].phase = "runs"
              /\ preview'[listed[d]].camera = preview[listed[d]].camera
        /\ \A p \in Preview : (\A d \in Live : listed[d] # p) => preview'[p] = preview[p]
        /\ \A u \in Viewer : session[u] \in {} => u \in {v}
    BY <2>1, <2>3, <2>5
  <2>7. QED
    BY <1>1, <1>2, <2>4, <2>6, SessionsEnd, Zenon
<1>4. CASE c # Off /\ listed[c] # 0 /\ IsLast(v)
  <2>1. c \in Camera
    BY <1>4 DEF Maps, MapTypes
  <2>2. /\ c \in Live /\ listed[c] \in Preview
        /\ preview[listed[c]] \in Object /\ preview[listed[c]].phase = "runs"
        /\ \A d \in Camera : listed[d] = listed[c] => d = c
    BY <1>4, <2>1, ListedType
  <2>3. /\ listed' = [d \in Camera |-> IF d \in {c} THEN 0 ELSE listed[d]]
        /\ preview' = [preview EXCEPT ![listed[c]] = Halted(preview[listed[c]])]
    BY <1>4, <2>1, <2>2 DEF StopPreview, Maps, MapTypes
  <2>4. /\ Halted(preview[listed[c]]) \in Object
        /\ Halted(preview[listed[c]]).sessions = {}
        /\ Halted(preview[listed[c]]).phase = "ending"
    BY <2>2, ObjectType
  <2>5. preview' \in [Preview -> Object]
    BY <2>2, <2>3, <2>4 DEF Maps, MapTypes
  <2>6. \A d \in Live \ {c} : /\ preview'[listed[d]] = preview[listed[d]]
                              /\ preview[listed[d]].phase = "runs"
                              /\ preview[listed[d]].sessions # {}
                              /\ v \notin preview[listed[d]].sessions
    BY <2>1, <2>2, <2>3 DEF Maps, MapTypes, SessionsConsistent, Running, Live
  <2>7. \A u \in Viewer : session[u] \in {c} => u \in {v}
    <3>1. \A u \in Viewer : session[u] = c => u \in preview[listed[c]].sessions
      BY <2>1 DEF Maps, SessionsConsistent
    <3>2. preview[listed[c]].sessions \subseteq {v}
      BY <1>4 DEF IsLast
    <3>3. QED
      BY <3>1, <3>2
  <2>8. /\ preview'[listed[c]] = Halted(preview[listed[c]])
        /\ \A p \in Preview : p # listed[c] => preview'[p] = preview[p]
    BY <2>2, <2>3 DEF Maps, MapTypes
  <2>9. /\ {c} \in SUBSET Live
        /\ \A d \in {c} : preview'[listed[d]].sessions = {} /\ preview'[listed[d]].phase = "ending"
        /\ \A d \in Live \ {c} :
              /\ preview'[listed[d]].sessions = preview[listed[d]].sessions \ {v}
              /\ ~(preview[listed[d]].sessions \subseteq {v})
              /\ preview'[listed[d]].phase = "runs"
              /\ preview'[listed[d]].camera = preview[listed[d]].camera
        /\ \A p \in Preview : (\A d \in Live : listed[d] # p) => preview'[p] = preview[p]
    BY <2>2, <2>4, <2>6, <2>8
  <2>10. QED
    BY <1>1, <2>3, <2>5, <2>7, <2>9, SessionsEnd, Zenon
<1>5. CASE c # Off /\ listed[c] # 0 /\ ~IsLast(v)
  <2>1. c \in Camera
    BY <1>5 DEF Maps, MapTypes
  <2> DEFINE fewer == With(preview[listed[c]], preview[listed[c]].sessions \ {v})
  <2>2. /\ c \in Live /\ listed[c] \in Preview
        /\ preview[listed[c]] \in Object /\ preview[listed[c]].phase = "runs"
        /\ preview[listed[c]].sessions \in SUBSET Viewer
        /\ \A d \in Camera : listed[d] = listed[c] => d = c
    BY <1>5, <2>1, ListedType
  <2>3. /\ listed' = [d \in Camera |-> IF d \in {} THEN 0 ELSE listed[d]]
        /\ preview' = [preview EXCEPT ![listed[c]] = fewer]
    <3>1. listed \in [Camera -> {0} \union Preview]
      BY DEF Maps, MapTypes
    <3>2. listed' = [listed EXCEPT ![c] = IF IsLast(v) THEN 0 ELSE listed[c]]
      BY <1>5 DEF StopPreview
    <3>3. preview' = [preview EXCEPT ![listed[c]] =
                        IF IsLast(v) THEN Halted(preview[listed[c]]) ELSE fewer]
      BY <1>5 DEF StopPreview
    <3> HIDE DEF fewer
    <3>4. QED
      BY <1>5, <2>1, <3>1, <3>2, <3>3
  <2>4. /\ fewer \in Object /\ fewer.phase = "runs" /\ fewer.camera = preview[listed[c]].camera
        /\ fewer.sessions = preview[listed[c]].sessions \ {v}
    BY <2>2, ObjectType
  <2> HIDE DEF fewer
  <2>5. preview' \in [Preview -> Object]
    BY <2>2, <2>3, <2>4 DEF Maps, MapTypes
  <2>6. /\ preview'[listed[c]] = fewer
        /\ \A p \in Preview : p # listed[c] => preview'[p] = preview[p]
    BY <2>2, <2>3 DEF Maps, MapTypes
  <2>7. \A d \in Live \ {c} : /\ preview'[listed[d]] = preview[listed[d]]
                              /\ preview[listed[d]].phase = "runs"
                              /\ preview[listed[d]].sessions # {}
                              /\ v \notin preview[listed[d]].sessions
    BY <2>1, <2>2, <2>6 DEF Maps, MapTypes, SessionsConsistent, Running, Live
  <2>8. ~(preview[listed[c]].sessions \subseteq {v})
    BY <1>5 DEF IsLast
  <2>9. /\ \A d \in {} : preview'[listed[d]].sessions = {} /\ preview'[listed[d]].phase = "ending"
        /\ \A d \in Live \ {} :
              /\ preview'[listed[d]].sessions = preview[listed[d]].sessions \ {v}
              /\ ~(preview[listed[d]].sessions \subseteq {v})
              /\ preview'[listed[d]].phase = "runs"
              /\ preview'[listed[d]].camera = preview[listed[d]].camera
        /\ \A p \in Preview : (\A d \in Live : listed[d] # p) => preview'[p] = preview[p]
        /\ \A u \in Viewer : session[u] \in {} => u \in {v}
    BY <2>2, <2>4, <2>6, <2>7, <2>8
  <2>10. QED
    BY <1>1, <1>2, <2>3, <2>5, <2>9, SessionsEnd, Zenon
<1>6. QED
  BY <1>3, <1>4, <1>5

\* stop_camera_preview
LEMMA StopCameraKeeps ==
  ASSUME Maps, NEW c \in Camera, StopCameraPreview(c), UNCHANGED limit
  PROVE  Maps'
<1>1. CASE listed[c] = 0
  <2>1. UNCHANGED <<listed, preview>> /\ session' = session /\ age' = age
    BY <1>1 DEF StopCameraPreview, Forget, Maps, MapTypes
  <2>2. Live' = Live
    BY <2>1 DEF Live
  <2>3. QED
    BY <2>1, <2>2 DEF Maps, MapTypes, SessionsConsistent, Running
<1>2. CASE listed[c] # 0
  <2> DEFINE V == preview[listed[c]].sessions
  <2>1. /\ c \in Live /\ listed[c] \in Preview /\ V \in SUBSET Viewer
        /\ preview[listed[c]] \in Object /\ preview[listed[c]].phase = "runs"
        /\ \A d \in Camera : listed[d] = listed[c] => d = c
    BY <1>2, ListedType
  <2>2. /\ Forget(V)
        /\ listed' = [d \in Camera |-> IF d \in {c} THEN 0 ELSE listed[d]]
        /\ preview' = [preview EXCEPT ![listed[c]] = Halted(preview[listed[c]])]
    BY <1>2 DEF StopCameraPreview, Maps, MapTypes
  <2>3. /\ Halted(preview[listed[c]]) \in Object
        /\ Halted(preview[listed[c]]).sessions = {}
        /\ Halted(preview[listed[c]]).phase = "ending"
    BY <2>1, ObjectType
  <2>4. /\ preview' \in [Preview -> Object]
        /\ preview'[listed[c]] = Halted(preview[listed[c]])
        /\ \A p \in Preview : p # listed[c] => preview'[p] = preview[p]
    BY <2>1, <2>2, <2>3 DEF Maps, MapTypes
  <2>5. \A v \in Viewer : session[v] \in {c} => v \in V
    BY DEF Maps, SessionsConsistent
  <2>6. \A d \in Live \ {c} : /\ preview'[listed[d]] = preview[listed[d]]
                              /\ preview[listed[d]].phase = "runs"
                              /\ preview[listed[d]].sessions # {}
    BY <2>1, <2>4 DEF Maps, MapTypes, SessionsConsistent, Running, Live
  <2>7. \A d \in Live \ {c} : preview[listed[d]].sessions \intersect V = {}
    <3> SUFFICES ASSUME NEW d \in Live \ {c}, NEW v \in V, v \in preview[listed[d]].sessions
                 PROVE  FALSE
      OBVIOUS
    <3>1. v \in Viewer /\ d \in Camera /\ listed[d] # 0
      BY <2>1 DEF Live
    <3>2. session[v] = d /\ session[v] = c
      BY <1>2, <3>1 DEF Maps, SessionsConsistent
    <3>3. QED
      BY <3>2
  <2> HIDE DEF V
  <2>8. /\ {c} \in SUBSET Live
        /\ \A d \in {c} : preview'[listed[d]].sessions = {} /\ preview'[listed[d]].phase = "ending"
        /\ \A d \in Live \ {c} :
              /\ preview'[listed[d]].sessions = preview[listed[d]].sessions \ V
              /\ ~(preview[listed[d]].sessions \subseteq V)
              /\ preview'[listed[d]].phase = "runs"
              /\ preview'[listed[d]].camera = preview[listed[d]].camera
        /\ \A p \in Preview : (\A d \in Live : listed[d] # p) => preview'[p] = preview[p]
    BY <2>1, <2>3, <2>4, <2>6, <2>7
  <2>9. QED
    BY <2>1, <2>2, <2>4, <2>5, <2>8, SessionsEnd, Zenon
<1>3. QED
  BY <1>1, <1>2

\* The sweeper ends the expired sessions of the previews of K.
LEMMA ReleaseKeeps ==
  ASSUME Maps, NEW E \in SUBSET Viewer, NEW K \in SUBSET Live, Release(E, K), UNCHANGED limit
  PROVE  Maps'
<1> DEFINE off == {c \in K : preview[listed[c]].sessions \ E = {}}
           V == {v \in E : session[v] \in K}
<1>1. /\ off \in SUBSET Live /\ V \in SUBSET Viewer
      /\ Forget(V)
      /\ listed' = [c \in Camera |-> IF c \in off THEN 0 ELSE listed[c]]
      /\ preview' = [p \in Preview |->
           IF \E c \in off : listed[c] = p THEN Halted(preview[p])
           ELSE IF \E c \in K : listed[c] = p THEN With(preview[p], preview[p].sessions \ E)
           ELSE preview[p]]
  BY DEF Release
<1>2. \A c \in Live : /\ c \in Camera /\ listed[c] # 0 /\ listed[c] \in Preview
                      /\ preview[listed[c]] \in Object /\ preview[listed[c]].phase = "runs"
                      /\ preview[listed[c]].sessions \in SUBSET Viewer
                      /\ \A d \in Live : listed[d] = listed[c] => d = c
  BY ListedType DEF Live
<1>3. \A c \in Live, v \in Viewer : v \in preview[listed[c]].sessions <=> session[v] = c
  BY <1>2 DEF Maps, SessionsConsistent
<1>4. ASSUME NEW c \in off
      PROVE  /\ preview'[listed[c]] = Halted(preview[listed[c]])
             /\ preview'[listed[c]] \in Object
             /\ preview'[listed[c]].sessions = {} /\ preview'[listed[c]].phase = "ending"
  <2>1. preview'[listed[c]] = Halted(preview[listed[c]])
    BY <1>1, <1>2
  <2>2. QED
    BY <1>1, <1>2, <2>1, ObjectType
<1>5. ASSUME NEW c \in K \ off
      PROVE  /\ preview'[listed[c]] \in Object
             /\ preview'[listed[c]].sessions = preview[listed[c]].sessions \ V
             /\ ~(preview[listed[c]].sessions \subseteq V)
             /\ preview'[listed[c]].phase = "runs"
             /\ preview'[listed[c]].camera = preview[listed[c]].camera
  <2>1. c \in Live /\ ~(\E d \in off : listed[d] = listed[c])
    BY <1>1, <1>2
  <2>2. preview'[listed[c]] = With(preview[listed[c]], preview[listed[c]].sessions \ E)
    BY <1>1, <1>2, <2>1
  <2>3. preview[listed[c]].sessions \ E = preview[listed[c]].sessions \ V
    BY <1>2, <1>3, <2>1
  <2>4. preview[listed[c]].sessions \ E # {}
    OBVIOUS
  <2> HIDE DEF off, V
  <2>5. QED
    BY <1>2, <2>1, <2>2, <2>3, <2>4, ObjectType
<1>6. ASSUME NEW p \in Preview, \A c \in K : listed[c] # p
      PROVE  preview'[p] = preview[p]
  BY <1>1, <1>6
<1>7. ASSUME NEW c \in Live \ K
      PROVE  /\ preview'[listed[c]].sessions = preview[listed[c]].sessions \ V
             /\ ~(preview[listed[c]].sessions \subseteq V)
             /\ preview'[listed[c]].phase = "runs"
             /\ preview'[listed[c]].camera = preview[listed[c]].camera
  <2>1. preview'[listed[c]] = preview[listed[c]]
    BY <1>2, <1>6
  <2>2. preview[listed[c]].sessions \intersect V = {}
    BY <1>2, <1>3
  <2>3. preview[listed[c]].sessions # {}
    BY DEF Maps, SessionsConsistent
  <2>4. QED
    BY <1>2, <2>1, <2>2, <2>3
<1>8. preview' \in [Preview -> Object]
  <2> SUFFICES ASSUME NEW p \in Preview
               PROVE  preview'[p] \in Object
    BY <1>1
  <2>1. CASE \E c \in K : listed[c] = p
    BY <1>4, <1>5, <2>1
  <2>2. CASE \A c \in K : listed[c] # p
    BY <1>6, <2>2 DEF Maps, MapTypes
  <2>3. QED
    BY <2>1, <2>2
<1>9. \A v \in Viewer : session[v] \in off => v \in V
  BY <1>1, <1>3
<1>10. \A c \in Live \ off :
         /\ preview'[listed[c]].sessions = preview[listed[c]].sessions \ V
         /\ ~(preview[listed[c]].sessions \subseteq V)
         /\ preview'[listed[c]].phase = "runs"
         /\ preview'[listed[c]].camera = preview[listed[c]].camera
  <2> HIDE DEF off, V
  <2>1. QED
    BY <1>5, <1>7
<1>11. \A c \in off : preview'[listed[c]].sessions = {} /\ preview'[listed[c]].phase = "ending"
  BY <1>4
<1>12. \A p \in Preview : (\A c \in Live : listed[c] # p) => preview'[p] = preview[p]
  BY <1>6
<1> HIDE DEF off, V
<1>13. QED
  BY <1>1, <1>8, <1>9, <1>10, <1>11, <1>12, SessionsEnd, Zenon

LEMMA EndSessionsKeeps ==
  ASSUME Maps, NEW E \in SUBSET Viewer, EndSessions(E), UNCHANGED limit
  PROVE  Maps' /\ sweep' \in [expired : SUBSET Viewer, at : {0} \union Preview]
<1> DEFINE concerned == {c \in Live : preview[listed[c]].sessions \intersect E # {}}
           emptied == {c \in concerned : preview[listed[c]].sessions \subseteq E}
<1>1. CASE emptied = {}
  <2>1. Release(E, concerned) /\ sweep' = [expired |-> {}, at |-> 0]
    BY <1>1 DEF EndSessions
  <2>2. QED
    BY <2>1, ReleaseKeeps
<1>2. CASE emptied # {}
  <2>1. PICK c \in emptied, K \in SUBSET (concerned \ emptied) :
          /\ Release(E, K \union {c})
          /\ sweep' = [expired |-> E \ {v \in Viewer : session[v] \in K \union {c}},
                       at |-> listed[c]]
    BY <1>2 DEF EndSessions
  <2>2. K \union {c} \in SUBSET Live /\ listed[c] \in Preview
    BY DEF Live, Maps, MapTypes
  <2>3. QED
    BY <2>1, <2>2, ReleaseKeeps
<1>3. QED
  BY <1>1, <1>2

-----------------------------------------------------------------------------
(* What begins them, and the ends of processes *)

\* start_preview: the limit is looked at and the list changed in one locked
\* section, so it is not exceeded.
LEMMA StartKeeps ==
  ASSUME PInv, NEW v \in Viewer, NEW c \in Camera, StartPreview(v, c)
  PROVE  Maps'
<1> USE DEF PInv
<1>1. session[v] = Off /\ (\A p \in Preview : v \notin preview[p].sessions) /\ MayPlay(c)
  BY DEF StartPreview, Referred
<1>2. /\ session' = [session EXCEPT ![v] = c] /\ age' = [age EXCEPT ![v] = 0]
      /\ UNCHANGED limit
  BY DEF StartPreview, Gateway
<1>3. CASE listed[c] # 0
  <2> DEFINE p == listed[c]
             more == With(preview[p], preview[p].sessions \union {v})
  <2>1. /\ c \in Live /\ p \in Preview
        /\ preview[p] \in Object /\ preview[p].phase = "runs"
        /\ preview[p].sessions \in SUBSET Viewer
        /\ \A d \in Camera : listed[d] = p => d = c
    BY <1>3, ListedType
  <2>2. listed' = listed /\ preview' = [preview EXCEPT ![p] = more]
    <3>1. listed' = [listed EXCEPT ![c] = p] /\ preview' = [preview EXCEPT ![p] = more]
      BY <1>3 DEF StartPreview
    <3>2. QED
      BY <3>1 DEF Maps, MapTypes
  <2>3. /\ more \in Object /\ more.phase = "runs" /\ more.camera = preview[p].camera
        /\ more.sessions = preview[p].sessions \union {v}
    BY <2>1, ObjectType
  <2> HIDE DEF more
  <2>4. /\ preview' \in [Preview -> Object] /\ preview'[p] = more
        /\ \A q \in Preview : q # p => preview'[q] = preview[q]
    BY <2>1, <2>2, <2>3 DEF Maps, MapTypes
  <2>5. MapTypes'
    BY <1>2, <2>2, <2>4, PreviewsAssumption DEF Maps, MapTypes
  <2>6. Live' = Live
    BY <2>2 DEF Live
  <2>7. Running'
    BY <2>1, <2>2, <2>3, <2>4, <2>6 DEF Maps, Running, Live
  <2>8. \A u \in Viewer, d \in Camera :
          session'[u] = d <=> listed'[d] # 0 /\ u \in preview'[listed'[d]].sessions
    <3> SUFFICES ASSUME NEW u \in Viewer, NEW d \in Camera
                 PROVE  session'[u] = d <=> listed'[d] # 0 /\ u \in preview'[listed'[d]].sessions
      OBVIOUS
    <3>1. session'[u] = IF u = v THEN c ELSE session[u]
      BY <1>2 DEF Maps, MapTypes
    <3>2. session[u] = d <=> listed[d] # 0 /\ u \in preview[listed[d]].sessions
      BY DEF Maps, SessionsConsistent
    <3>3. session[u] = d => listed[d] \in Preview
      BY <3>2, ListedType
    <3>4. listed[d] # 0 => listed[d] \in Preview
      BY ListedType
    <3>5. CASE d = c
      BY <1>3, <2>1, <2>2, <2>3, <2>4, <3>1, <3>2, <3>5
    <3>6. CASE d # c
      <4>1. listed[d] # p
        BY <2>1, <3>6
      <4>2. listed[d] # 0 => preview'[listed[d]] = preview[listed[d]]
        BY <2>4, <3>4, <4>1
      <4>3. listed[d] # 0 => v \notin preview[listed[d]].sessions
        BY <1>1, <3>4
      <4>4. QED
        BY <1>1, <2>2, <3>1, <3>2, <3>6, <4>2, <4>3, PreviewsAssumption
    <3>7. QED
      BY <3>5, <3>6
  <2>9. \A d \in Live' : preview'[listed'[d]].camera = d /\ preview'[listed'[d]].sessions # {}
    BY <2>1, <2>2, <2>3, <2>4, <2>6 DEF Maps, MapTypes, SessionsConsistent, Live
  <2>10. \A q \in Preview : preview'[q].phase = "runs" => \E d \in Live' : listed'[d] = q
    BY <2>1, <2>2, <2>4, <2>6 DEF Maps, SessionsConsistent
  <2>11. Cardinality(Live') <= limit'
    BY <1>2, <2>6 DEF Maps, SessionsConsistent
  <2>12. QED
    BY <2>5, <2>7, <2>8, <2>9, <2>10, <2>11 DEF Maps, SessionsConsistent
<1>4. CASE listed[c] = 0
  <2> DEFINE p == FreePreview
             new == [camera |-> c, source |-> playable[c], sessions |-> {v}, phase |-> "runs"]
  <2>1. p \in Preview /\ Free(p) /\ p # 0
    <3>1. \E q \in Preview : Free(q)
      BY DEF StartPreview
    <3>2. QED
      BY <3>1, PreviewsAssumption DEF FreePreview
  <2>2. listed' = [listed EXCEPT ![c] = p] /\ preview' = [preview EXCEPT ![p] = new]
    BY <1>4 DEF StartPreview
  <2>3. new \in Object
    <3>1. playable[c] \in Source
      BY <1>1 DEF MayPlay, Rest
    <3>2. QED
      BY <3>1 DEF Object
  <2>4. /\ new.camera = c /\ new.sessions = {v} /\ new.phase = "runs"
    OBVIOUS
  <2>5. \A d \in Camera : listed[d] # p
    BY <2>1 DEF Free
  <2> HIDE DEF new, p
  <2>6. /\ preview' \in [Preview -> Object] /\ preview'[p] = new
        /\ \A q \in Preview : q # p => preview'[q] = preview[q]
        /\ listed' \in [Camera -> {0} \union Preview] /\ listed'[c] = p
        /\ \A d \in Camera : d # c => listed'[d] = listed[d]
    BY <2>1, <2>2, <2>3 DEF Maps, MapTypes
  <2>7. MapTypes'
    BY <1>2, <2>6, PreviewsAssumption DEF Maps, MapTypes
  <2>8. Live' = Live \union {c} /\ c \notin Live
    BY <1>4, <2>1, <2>6 DEF Live
  <2>9. \A d \in Live : d \in Camera /\ d # c /\ listed'[d] = listed[d] /\ listed[d] \in Preview
                       /\ listed[d] # p
    BY <2>5, <2>6, <2>8, ListedType DEF Live
  <2>10. IsFiniteSet(Live') /\ Cardinality(Live') <= limit'
    <3>1. IsFiniteSet(Live) /\ Cardinality(Live) < limit
      BY <1>1, <1>4 DEF MayPlay, Maps, Running
    <3>2. IsFiniteSet(Live \union {c}) /\ Cardinality(Live \union {c}) = Cardinality(Live) + 1
      BY <2>8, <3>1, FS_AddElement
    <3>3. Cardinality(Live) \in Nat /\ limit \in Nat
      BY <3>1, FS_CardinalityType, PreviewsAssumption DEF Maps, MapTypes
    <3>4. QED
      BY <1>2, <2>8, <3>1, <3>2, <3>3
  <2>11. \A d \in Live' : /\ preview'[listed'[d]].phase = "runs"
                          /\ preview'[listed'[d]].camera = d
                          /\ preview'[listed'[d]].sessions # {}
    BY <2>4, <2>6, <2>8, <2>9 DEF Maps, SessionsConsistent, Running
  <2>12. \A q \in Preview : /\ preview'[q].phase # "runs" => preview'[q].sessions = {}
                            /\ preview'[q].phase = "runs" => \E d \in Live' : listed'[d] = q
    <3> SUFFICES ASSUME NEW q \in Preview
                 PROVE  /\ preview'[q].phase # "runs" => preview'[q].sessions = {}
                        /\ preview'[q].phase = "runs" => \E d \in Live' : listed'[d] = q
      OBVIOUS
    <3>1. CASE q = p
      BY <2>4, <2>6, <2>8, <3>1
    <3>2. CASE q # p
      BY <2>6, <2>8, <2>9, <3>2 DEF Maps, SessionsConsistent, Running
    <3>3. QED
      BY <3>1, <3>2
  <2>13. \A u \in Viewer, d \in Camera :
           session'[u] = d <=> listed'[d] # 0 /\ u \in preview'[listed'[d]].sessions
    <3> SUFFICES ASSUME NEW u \in Viewer, NEW d \in Camera
                 PROVE  session'[u] = d <=> listed'[d] # 0 /\ u \in preview'[listed'[d]].sessions
      OBVIOUS
    <3>1. session'[u] = IF u = v THEN c ELSE session[u]
      BY <1>2 DEF Maps, MapTypes
    <3>2. session[u] = d <=> listed[d] # 0 /\ u \in preview[listed[d]].sessions
      BY DEF Maps, SessionsConsistent
    <3>3. CASE d = c
      BY <1>4, <2>1, <2>4, <2>6, <3>1, <3>2, <3>3
    <3>4. CASE d # c
      <4>1. listed[d] # 0 => listed[d] \in Preview /\ listed[d] # p
        BY <2>5, ListedType
      <4>2. listed[d] # 0 => /\ preview'[listed[d]] = preview[listed[d]]
                            /\ v \notin preview[listed[d]].sessions
        BY <1>1, <2>6, <4>1
      <4>3. listed'[d] = listed[d]
        BY <2>6, <3>4
      <4>4. QED
        BY <1>1, <3>1, <3>2, <3>4, <4>2, <4>3, PreviewsAssumption
    <3>5. QED
      BY <3>3, <3>4
  <2>14. QED
    BY <2>7, <2>10, <2>11, <2>12, <2>13 DEF Maps, SessionsConsistent, Running
<1>5. QED
  BY <1>3, <1>4

-----------------------------------------------------------------------------
(* Steps *)

\* The maps do not notice a process that ends: it is not listed.
LEMMA ProcessKeeps ==
  ASSUME PInv, NEW p \in Preview, ProcessEnds(p)
  PROVE  PInv'
<1> USE DEF PInv
<1>1. /\ preview' = [preview EXCEPT ![p] = NoObject] /\ preview[p].phase = "ending"
      /\ UNCHANGED <<limit, rows, playable, listed, session, age, viewer, mjpeg, sweep, editor, edits>>
  BY DEF ProcessEnds
<1>2. \A c \in Live : listed[c] # p /\ listed[c] \in Preview
  BY <1>1, ListedType DEF Live
<1>3. /\ preview' \in [Preview -> Object] /\ preview'[p] = NoObject
      /\ \A q \in Preview : q # p => preview'[q] = preview[q]
  BY <1>1 DEF Maps, MapTypes, Object
<1>4. Live' = Live /\ \A c \in Live : preview'[listed'[c]] = preview[listed[c]]
  BY <1>1, <1>2, <1>3 DEF Live
<1>5. MapTypes' /\ Rest'
  BY <1>1, <1>3 DEF Maps, MapTypes, Rest
<1>6. Running'
  BY <1>3, <1>4 DEF Maps, Running, NoObject
<1>7. SessionsConsistent'
  <2>1. \A v \in Viewer, c \in Camera :
          session'[v] = c <=> listed'[c] # 0 /\ v \in preview'[listed'[c]].sessions
    BY <1>1, <1>4 DEF Maps, SessionsConsistent, Live
  <2>2. \A q \in Preview : preview'[q].phase = "runs" => \E c \in Live' : listed'[c] = q
    BY <1>1, <1>3, <1>4 DEF Maps, SessionsConsistent, NoObject
  <2>3. /\ \A c \in Live' : preview'[listed'[c]].camera = c /\ preview'[listed'[c]].sessions # {}
        /\ Cardinality(Live') <= limit'
    BY <1>1, <1>4 DEF Maps, SessionsConsistent
  <2>4. QED
    BY <2>1, <2>2, <2>3 DEF SessionsConsistent
<1>8. QED
  BY <1>5, <1>6, <1>7 DEF Maps

\* Steps that leave the maps alone
LEMMA MapsUnchanged ==
  ASSUME Maps, UNCHANGED <<limit, listed, session, preview>>,
         age' \in [Viewer -> 0..(Timeout + 1)]
  PROVE  Maps'
<1>1. Live' = Live
  BY DEF Live
<1>2. QED
  BY <1>1 DEF Maps, MapTypes, SessionsConsistent, Running

\* What becomes of the browser of a viewer
LEMMA BrowserTyped ==
  ASSUME viewer \in [Viewer -> Browser], NEW v \in Viewer
  PROVE  /\ [viewer EXCEPT ![v] = [does |-> "nothing", camera |-> Off]] \in [Viewer -> Browser]
         /\ [viewer EXCEPT ![v].does = "vanished"] \in [Viewer -> Browser]
         /\ [viewer EXCEPT ![v].does = "cut"] \in [Viewer -> Browser]
         /\ \A c \in Camera :
              [viewer EXCEPT ![v] = [does |-> "watches", camera |-> c]] \in [Viewer -> Browser]
<1>1. /\ [does |-> "nothing", camera |-> Off] \in Browser
      /\ \A c \in Camera : [does |-> "watches", camera |-> c] \in Browser
      /\ \A b \in Browser : [b EXCEPT !.does = "vanished"] \in Browser
      /\ \A b \in Browser : [b EXCEPT !.does = "cut"] \in Browser
  BY DEF Browser
<1>2. QED BY <1>1

LEMMA ViewerKeeps ==
  ASSUME PInv, NEW v \in Viewer, ViewerStep(v)
  PROVE  PInv'
<1> USE DEF PInv
<1>1. CASE \E c \in Camera : StartPreview(v, c)
  <2>1. PICK c \in Camera : StartPreview(v, c)
    BY <1>1
  <2>2. Maps'
    BY <2>1, StartKeeps
  <2>3. Rest'
    BY <2>1, BrowserTyped DEF StartPreview, Gateway, Rest
  <2>4. QED
    BY <2>2, <2>3
<1>2. CASE MjpegEnds(v) \/ StopByViewer(v)
  <2>1. Maps'
    <3>1. UNCHANGED limit
      BY <1>2 DEF MjpegEnds, StopByViewer, Gateway
    <3>2. StopPreview(v) \/ UNCHANGED <<listed, session, preview, age>>
      BY <1>2 DEF MjpegEnds, StopByViewer
    <3>3. QED
      BY <3>1, <3>2, StopPreviewKeeps, MapsUnchanged DEF Maps, MapTypes
  <2>2. viewer' \in [Viewer -> Browser] /\ mjpeg' \subseteq Viewer
    BY <1>2, BrowserTyped DEF MjpegEnds, StopByViewer, Rest
  <2>4. UNCHANGED <<limit, rows, playable, editor, edits, sweep>>
    BY <1>2 DEF MjpegEnds, StopByViewer, Gateway
  <2>5. Rest'
    BY <2>2, <2>4 DEF Rest
  <2>3. QED
    BY <2>1, <2>5
<1>3. CASE Heartbeat(v) \/ OpenMjpeg(v) \/ MjpegTouches(v) \/ Vanish(v) \/ CutOff(v)
         \/ ComeBack(v)
  <2>1. /\ UNCHANGED <<limit, rows, playable, editor, edits, sweep, listed, session, preview>>
        /\ age' \in {age, [age EXCEPT ![v] = 0]}
    BY <1>3 DEF Heartbeat, OpenMjpeg, MjpegTouches, Vanish, CutOff, ComeBack, Gateway
  <2>2. Maps'
    BY <2>1, MapsUnchanged, PreviewsAssumption DEF Maps, MapTypes
  <2>3. viewer \in [Viewer -> Browser] /\ mjpeg \subseteq Viewer
    BY DEF Rest
  <2>4. viewer' \in [Viewer -> Browser] /\ mjpeg' \subseteq Viewer
    <3>1. CASE Heartbeat(v) \/ ComeBack(v)
      BY <2>3, <3>1, BrowserTyped DEF Heartbeat, ComeBack
    <3>2. CASE OpenMjpeg(v) \/ MjpegTouches(v)
      BY <2>3, <3>2 DEF OpenMjpeg, MjpegTouches
    <3>3. CASE Vanish(v)
      BY <2>3, <3>3, BrowserTyped DEF Vanish
    <3>4. CASE CutOff(v)
      BY <2>3, <3>4, BrowserTyped DEF CutOff
    <3>5. QED BY <1>3, <3>1, <3>2, <3>3, <3>4
  <2>6. Rest'
    BY <2>1, <2>4 DEF Rest
  <2>7. QED
    BY <2>2, <2>6
<1>4. QED
  BY <1>1, <1>2, <1>3 DEF ViewerStep

LEMMA SweeperKeeps ==
  ASSUME PInv, Sweeper
  PROVE  PInv'
<1> USE DEF PInv
<1>1. /\ \E E \in SUBSET Viewer : EndSessions(E)
      /\ UNCHANGED <<limit, rows, playable, viewer, mjpeg, editor, edits>>
  BY DEF Sweeper, Sweep, SweepResumes, Rest
<1>2. Maps' /\ sweep' \in [expired : SUBSET Viewer, at : {0} \union Preview]
  BY <1>1, EndSessionsKeeps
<1>3. QED
  BY <1>1, <1>2 DEF Rest

LEMMA EditorKeeps ==
  ASSUME PInv, EditorStep
  PROVE  PInv'
<1> USE DEF PInv
<1>1. UNCHANGED <<limit, rows, edits, viewer, mjpeg, sweep>>
  BY DEF EditorStep, RemovePreview, Sync, SyncResumes, SyncSources, Viewers
<1>2. CASE RemovePreview
  <2>1. PICK c \in editor.todo : StopCameraPreview(c) /\ editor' = [Resting EXCEPT !.pc = "sync", !.at = listed[c]]
    BY <1>2 DEF RemovePreview
  <2>2. c \in Camera
    BY <2>1 DEF Rest
  <2>3. Maps'
    BY <1>1, <2>1, <2>2, StopCameraKeeps
  <2>4. listed[c] \in {0} \union Preview
    BY <2>2 DEF Maps, MapTypes
  <2>5. Rest'
    BY <1>1, <1>2, <2>1, <2>4 DEF RemovePreview, Rest, Resting, NoWanted
  <2>6. QED
    BY <2>3, <2>5
<1>3. ASSUME NEW todo \in SUBSET Camera, NEW wanted \in [Camera -> Source \union {Off}],
             SyncGoesOn(todo, wanted), UNCHANGED playable
      PROVE  PInv'
  <2>1. CASE todo = {}
    BY <1>1, <1>3, <2>1, MapsUnchanged DEF SyncGoesOn, Resting, Rest, Maps, MapTypes
  <2>2. CASE todo # {}
    <3>1. PICK c \in todo :
            /\ StopCameraPreview(c)
            /\ editor' = [pc |-> "previews", todo |-> todo \ {c}, at |-> listed[c], wanted |-> wanted]
      BY <1>3, <2>2 DEF SyncGoesOn
    <3>2. Maps'
      BY <1>1, <3>1, StopCameraKeeps
    <3>3. listed[c] \in {0} \union Preview
      BY DEF Maps, MapTypes
    <3>4. Rest'
      BY <1>1, <1>3, <3>1, <3>3 DEF Rest
    <3>5. QED
      BY <3>2, <3>4
  <2>3. QED
    BY <2>1, <2>2
<1>4. CASE Sync
  <2>1. {c \in Live : preview[listed[c]].source # rows[c]} \in SUBSET Camera
    BY DEF Live
  <2>2. QED
    BY <1>3, <1>4, <2>1 DEF Sync, Rest
<1>5. CASE SyncResumes
  BY <1>3, <1>5 DEF SyncResumes, Rest
<1>6. CASE SyncSources
  BY <1>1, <1>6, MapsUnchanged DEF SyncSources, Rest, Resting, NoWanted, Maps, MapTypes
<1>7. QED
  BY <1>2, <1>4, <1>5, <1>6 DEF EditorStep

-----------------------------------------------------------------------------
(* Theorems *)

LEMMA InvariantHolds == Spec => []PInv
<1>1. Init => PInv
  <2> SUFFICES ASSUME Init PROVE PInv
    OBVIOUS
  <2>1. Live = {}
    BY DEF Init, Live
  <2>2. IsFiniteSet(Live) /\ Cardinality(Live) = 0
    BY <2>1, FS_EmptySet
  <2>3. MapTypes
    BY PreviewsAssumption DEF Init, MapTypes, Object
  <2>4. Running /\ SessionsConsistent
    BY <2>1, <2>2, PreviewsAssumption DEF Init, Running, SessionsConsistent, NoObject
  <2>5. Rest
    BY PreviewsAssumption DEF Init, Rest, Resting, NoWanted, Browser
  <2>6. QED
    BY <2>3, <2>4, <2>5 DEF PInv, Maps
<1>2. PInv /\ [Next]_vars => PInv'
  <2> SUFFICES ASSUME PInv, [Next]_vars
               PROVE  PInv'
    OBVIOUS
  <2>1. CASE Tick
    <3>1. age' \in [Viewer -> 0..(Timeout + 1)]
      BY <2>1, PreviewsAssumption DEF Tick, PInv, Maps, MapTypes
    <3>2. QED
      BY <2>1, <3>1, MapsUnchanged DEF Tick, PInv, Rest
  <2>2. ASSUME NEW c \in Camera, NEW s \in Source \union {Off}, Edit(c, s)
        PROVE  PInv'
    <3>1. edits + 1 \in 0..MaxEdits
      BY <2>2, PreviewsAssumption DEF Edit, PInv, Rest
    <3>2. QED
      BY <2>2, <3>1, MapsUnchanged DEF Edit, Viewers, PInv, Rest, Maps, MapTypes
  <2>3. ASSUME NEW c \in Camera, Delete(c)
        PROVE  PInv'
    <3>1. edits + 1 \in 0..MaxEdits
      BY <2>3, PreviewsAssumption DEF Delete, PInv, Rest
    <3>2. QED
      BY <2>3, <3>1, MapsUnchanged DEF Delete, Viewers, PInv, Rest, Maps, MapTypes
  <2>4. CASE UNCHANGED vars
    BY <2>4, MapsUnchanged DEF vars, PInv, Rest, Maps, MapTypes
  <2>5. QED
    BY <2>1, <2>2, <2>3, <2>4, ViewerKeeps, ProcessKeeps, SweeperKeeps, EditorKeeps DEF Next
<1>3. QED
  BY <1>1, <1>2, PTL DEF Spec

\* The gateway's maps and the preview objects always say the same, and there are
\* never more previews than max_live_previews, for any number of cameras and
\* viewers, whatever the sweeper, generators, closing viewers and changes of
\* cameras do while others wait for processes to end.
THEOREM ConsistentAlways == Spec => []Consistent
<1>1. PInv => Consistent
  BY Parts
<1>2. QED
  BY <1>1, InvariantHolds, PTL

-----------------------------------------------------------------------------
(***************************************************************************)
(* The rules of a camera (SceneRules), for every number of tracks, length  *)
(* of a second, loss of tracks, and sets and changes of modes.  The        *)
(* invariant says of each counter what it counts in the history: a streak  *)
(* of hits, the last five looks for smoke, and the visits of the zone and  *)
(* of the hall that have not ended.                                        *)
(***************************************************************************)
CONSTANTS Track, LostCycles, Second, Config, Switch, MaxPass, MaxTracking, MaxEdit

VARIABLES modes, active, version, rules, stale, day, fresh, pass, passes, seen, verdict

Scene == INSTANCE SceneRules

-----------------------------------------------------------------------------
(* Windows of frames *)

\* The library's operators, for the two numbers of a comparison
LEMMA MinMax ==
  ASSUME NEW a \in Int, NEW b \in Int
  PROVE  /\ Scene!Min({a, b}) = IF a <= b THEN a ELSE b
         /\ Scene!Max({a, b}) = IF a <= b THEN b ELSE a
<1> DEFINE m == IF a <= b THEN a ELSE b
           x == IF a <= b THEN b ELSE a
<1>1. Scene!Min({a, b}) = m
  <2>1. m \in {a, b} /\ (\A y \in {a, b} : m <= y)
    OBVIOUS
  <2>2. \A z \in {a, b} : (\A y \in {a, b} : z <= y) => z = m
    OBVIOUS
  <2> HIDE DEF m
  <2>3. QED BY <2>1, <2>2 DEF Scene!Min
<1>2. Scene!Max({a, b}) = x
  <2>1. x \in {a, b} /\ (\A y \in {a, b} : x >= y)
    OBVIOUS
  <2>2. \A z \in {a, b} : (\A y \in {a, b} : z >= y) => z = x
    OBVIOUS
  <2> HIDE DEF x
  <2>3. QED BY <2>1, <2>2 DEF Scene!Max
<1>3. QED BY <1>1, <1>2

\* The last n elements of s
LEMMA LastOfIs ==
  ASSUME NEW T, NEW s \in Seq(T), NEW n \in Nat \ {0}
  PROVE  /\ Scene!LastOf(s, n) \in Seq(T)
         /\ Len(s) <= n => Len(Scene!LastOf(s, n)) = Len(s)
         /\ Len(s) > n => Len(Scene!LastOf(s, n)) = n
         /\ \A i \in 1 .. Len(Scene!LastOf(s, n)) :
              Scene!LastOf(s, n)[i] = s[Len(s) - Len(Scene!LastOf(s, n)) + i]
<1> DEFINE l == Len(s)
           f == Scene!Max({1, l - n + 1})
           m == IF l <= n THEN l ELSE n
           w == Scene!LastOf(s, n)
<1>1. l \in Nat /\ DOMAIN s = 1 .. l /\ m \in Nat /\ l - n + 1 \in Int
      /\ (l <= n => m = l) /\ (l > n => m = n)
  OBVIOUS
<1>2. w = SubSeq(s, f, l)
  BY DEF Scene!LastOf
<1> HIDE DEF l, m
<1>3. /\ 1 <= l - n + 1 => f = l - n + 1
      /\ ~(1 <= l - n + 1) => f = 1
  <2>1. PICK a \in Int, b \in Int : a = 1 /\ b = l - n + 1
    BY <1>1
  <2>2. Scene!Max({a, b}) = IF a <= b THEN b ELSE a
    BY <2>1, MinMax
  <2>3. QED BY <2>1, <2>2
<1> HIDE DEF f, w
<1>4. f = l - m + 1 /\ m <= l /\ m <= n
  <2>1. CASE l <= n
    <3>1. m = l
      BY <1>1, <2>1
    <3>2. f = 1
      <4>1. CASE 1 <= l - n + 1
        BY <1>1, <1>3, <2>1, <4>1
      <4>2. QED BY <1>3, <4>1
    <3>3. QED BY <1>1, <2>1, <3>1, <3>2
  <2>2. CASE ~(l <= n)
    <3>1. m = n /\ 1 <= l - n + 1
      BY <1>1, <2>2
    <3>2. QED BY <1>1, <1>3, <2>2, <3>1
  <2>3. QED BY <2>1, <2>2
<1>5. f \in 1 .. l + 1 /\ l \in 0 .. l /\ (f <= l => l - f + 1 = m) /\ (~(f <= l) => m = 0)
      /\ \A i \in 1 .. m : f + i - 1 = l - m + i
  BY <1>1, <1>4
<1>6. /\ SubSeq(s, f, l) \in Seq(T)
      /\ Len(SubSeq(s, f, l)) = IF f <= l THEN l - f + 1 ELSE 0
      /\ \A i \in 1 .. l - f + 1 : SubSeq(s, f, l)[i] = s[f + i - 1]
  BY <1>5, SubSeqProperties DEF l
<1>7. l - f + 1 = m
  BY <1>1, <1>4
<1>8. Len(w) = m
  BY <1>2, <1>5, <1>6
<1>9. w \in Seq(T) /\ Len(w) = m /\ \A i \in 1 .. m : w[i] = s[l - m + i]
  BY <1>2, <1>5, <1>6, <1>7, <1>8
<1>10. QED BY <1>1, <1>9 DEF l, w

\* Two sequences with the same elements
LEMMA SameElements ==
  ASSUME NEW T, NEW s \in Seq(T), NEW u \in Seq(T), Len(s) = Len(u),
         \A i \in 1 .. Len(s) : s[i] = u[i]
  PROVE  s = u
  OBVIOUS

\* A window of a window
LEMMA LastOfAppend ==
  ASSUME NEW T, NEW s \in Seq(T), NEW e \in T, NEW n \in Nat \ {0}
  PROVE  Scene!LastOf(Append(Scene!LastOf(s, n), e), n) = Scene!LastOf(Append(s, e), n)
<1> DEFINE w == Scene!LastOf(s, n)
           a == Append(w, e)
           b == Append(s, e)
           u == Scene!LastOf(a, n)
           v == Scene!LastOf(b, n)
           l == Len(s)
           m == Len(w)
           h == Len(u)
<1>1. /\ w \in Seq(T) /\ (l <= n => m = l) /\ (l > n => m = n)
      /\ \A i \in 1 .. m : w[i] = s[l - m + i]
  BY LastOfIs
<1>2. l \in Nat /\ m \in Nat
  BY <1>1
<1> HIDE DEF w
<1>3. /\ a \in Seq(T) /\ Len(a) = m + 1 /\ a[m + 1] = e
      /\ \A i \in 1 .. m : a[i] = w[i]
  BY <1>1
<1>4. /\ b \in Seq(T) /\ Len(b) = l + 1 /\ b[l + 1] = e
      /\ \A i \in 1 .. l : b[i] = s[i]
  OBVIOUS
<1> HIDE DEF a, b, m, l
<1>5. /\ u \in Seq(T) /\ (Len(a) <= n => h = Len(a)) /\ (Len(a) > n => h = n)
      /\ \A i \in 1 .. h : u[i] = a[Len(a) - h + i]
  BY <1>3, LastOfIs
<1>6. /\ v \in Seq(T) /\ (Len(b) <= n => Len(v) = Len(b)) /\ (Len(b) > n => Len(v) = n)
      /\ \A i \in 1 .. Len(v) : v[i] = b[Len(b) - Len(v) + i]
  BY <1>4, LastOfIs
<1>7. h \in Nat
  BY <1>5
<1> HIDE DEF u, v, h
<1>8. Len(v) = h /\ (m + 1 <= n => h = m + 1) /\ (m + 1 > n => h = n)
  BY <1>1, <1>2, <1>3, <1>4, <1>5, <1>6
<1>9. ASSUME NEW i \in 1 .. h PROVE a[m + 1 - h + i] = b[l + 1 - h + i]
  <2>1. CASE i = h
    <3>1. m + 1 - h + i = m + 1 /\ l + 1 - h + i = l + 1
      BY <1>2, <1>7, <2>1
    <3>2. QED BY <1>3, <1>4, <3>1
  <2>2. CASE i # h
    <3>1. /\ m + 1 - h + i \in 1 .. m /\ l + 1 - h + i \in 1 .. l
          /\ l - m + (m + 1 - h + i) = l + 1 - h + i
      BY <1>1, <1>2, <1>7, <1>8, <1>9, <2>2
    <3>2. a[m + 1 - h + i] = s[l - m + (m + 1 - h + i)]
      BY <1>1, <1>3, <3>1
    <3>3. QED BY <1>4, <3>1, <3>2
  <2>3. QED BY <2>1, <2>2
<1>10. \A i \in 1 .. h : u[i] = v[i]
  <2>1. \A i \in 1 .. h : u[i] = a[m + 1 - h + i]
    BY <1>2, <1>3, <1>5, <1>7
  <2>2. \A i \in 1 .. h : v[i] = b[l + 1 - h + i]
    BY <1>2, <1>4, <1>6, <1>7, <1>8
  <2>3. QED BY <1>9, <2>1, <2>2
<1>11. u = v
  BY <1>5, <1>6, <1>8, <1>10, SameElements DEF h
<1>12. QED BY <1>11 DEF a, b, w, u, v

LEMMA SceneCardinality ==
  ASSUME NEW S
  PROVE  Scene!Cardinality(S) = Cardinality(S)
BY Zenon DEF Scene!Cardinality, Cardinality

\* A window in which every frame is a hit
LEMMA LastAllIs ==
  ASSUME NEW s \in Seq(BOOLEAN), NEW n \in Nat \ {0}
  PROVE  Scene!LastAll(s, n) <=> Len(s) >= n /\ \A i \in Len(s) - n + 1 .. Len(s) : s[i]
<1> DEFINE w == Scene!LastOf(s, n)
           l == Len(s)
<1>1. CASE l >= n
  <2>1. w \in Seq(BOOLEAN) /\ Len(w) = n /\ \A i \in 1 .. n : w[i] = s[l - n + i]
    <3>1. l \in Nat /\ (l <= n => n = l) /\ (l <= n => Len(w) = l) /\ (l > n => Len(w) = n)
      BY <1>1, LastOfIs
    <3>2. Len(w) = n
      BY <3>1
    <3>3. w \in Seq(BOOLEAN) /\ \A i \in 1 .. Len(w) : w[i] = s[l - Len(w) + i]
      BY LastOfIs
    <3> HIDE DEF w, l
    <3>4. QED BY <3>2, <3>3
  <2>2. DOMAIN w = 1 .. n /\ l \in Nat
    BY <2>1
  <2> DEFINE H == {i \in DOMAIN w : w[i]}
  <2> HIDE DEF w, l
  <2>3. H \subseteq 1 .. n /\ IsFiniteSet(1 .. n) /\ Cardinality(1 .. n) = n
    BY <2>2, FS_Interval
  <2>4. Cardinality(H) = n <=> H = 1 .. n
    BY <2>3, FS_Subset
  <2>5. H = 1 .. n <=> \A i \in 1 .. n : s[l - n + i]
    BY <2>1, <2>2
  <2>6. (\A i \in 1 .. n : s[l - n + i]) <=> (\A i \in l - n + 1 .. l : s[i])
    <3>1. \A i \in 1 .. n : l - n + i \in l - n + 1 .. l
      BY <2>2
    <3>2. \A i \in l - n + 1 .. l : i - l + n \in 1 .. n /\ l - n + (i - l + n) = i
      BY <2>2
    <3>3. QED BY <3>1, <3>2
  <2>7. Scene!Hits(w) = Cardinality(H)
    BY SceneCardinality DEF Scene!Hits
  <2>8. QED BY <1>1, <2>4, <2>5, <2>6, <2>7 DEF Scene!LastAll, w, l
<1>2. CASE ~(l >= n)
  BY <1>2 DEF Scene!LastAll
<1>3. QED BY <1>1, <1>2

\* n is the number of hits since the last miss, up to m.
Streak(n, s, m) ==
  /\ n <= Len(s) /\ \A i \in Len(s) - n + 1 .. Len(s) : s[i]
  /\ n < m /\ n < Len(s) => ~s[Len(s) - n]

LEMMA StreakGrows ==
  ASSUME NEW s \in Seq(BOOLEAN), NEW m \in Nat \ {0}, NEW n \in 0 .. m, Streak(n, s, m),
         NEW e \in BOOLEAN, NEW k \in Nat, e = FALSE => k = 0,
         e = TRUE => k = Scene!Min({n + 1, m})
  PROVE  Streak(k, Append(s, e), m) /\ k \in 0 .. m
<1> DEFINE l == Len(s)
           a == Append(s, e)
<1>1. /\ e = FALSE => k = 0
      /\ e = TRUE /\ n + 1 <= m => k = n + 1
      /\ e = TRUE /\ n + 1 > m => k = m
  <2>1. PICK p \in Int, q \in Int : p = n + 1 /\ q = m
    OBVIOUS
  <2>2. Scene!Min({p, q}) = IF p <= q THEN p ELSE q
    BY <2>1, MinMax
  <2>3. QED BY <2>1, <2>2
<1>2. /\ l \in Nat /\ Len(a) = l + 1 /\ a[l + 1] = e
      /\ \A i \in 1 .. l : a[i] = s[i]
  OBVIOUS
<1>3. /\ n <= l /\ \A i \in l - n + 1 .. l : s[i]
      /\ n < m /\ n < l => ~s[l - n]
  BY DEF Streak
<1> HIDE DEF l
<1>4. k \in 0 .. m /\ k <= n + 1
  BY <1>1
<1> HIDE DEF a
<1>5. CASE e = TRUE
  <2>1. k <= l + 1 /\ k \in Nat /\ k >= 1 /\ k <= n + 1
    BY <1>1, <1>2, <1>3, <1>5
  <2>2. ASSUME NEW i \in l + 1 - k + 1 .. l + 1 PROVE a[i]
    <3>1. i = l + 1 \/ (i \in 1 .. l /\ i \in l - n + 1 .. l)
      BY <1>2, <1>3, <2>1, <2>2
    <3>2. QED BY <1>2, <1>3, <1>5, <3>1
  <2>3. ASSUME k < m, k < l + 1 PROVE ~a[l + 1 - k]
    <3>1. k = n + 1 /\ n < m /\ n < l
      BY <1>1, <1>2, <1>5, <2>3
    <3>2. l + 1 - k = l - n /\ l - n \in 1 .. l
      BY <1>2, <3>1
    <3>3. QED BY <1>2, <1>3, <3>1, <3>2
  <2>4. Streak(k, a, m)
    BY <1>2, <2>1, <2>2, <2>3 DEF Streak
  <2>5. QED BY <1>4, <2>4 DEF a
<1>6. CASE e = FALSE
  <2>1. k = 0 /\ k <= l + 1 /\ l + 1 - k + 1 .. l + 1 = {} /\ l + 1 - k = l + 1
    BY <1>1, <1>2, <1>6
  <2>2. Streak(k, a, m)
    BY <1>2, <1>6, <2>1 DEF Streak
  <2>3. QED BY <1>4, <2>2 DEF a
<1>7. QED BY <1>5, <1>6

LEMMA StreakFull ==
  ASSUME NEW s \in Seq(BOOLEAN), NEW m \in Nat \ {0}, NEW n \in 0 .. m, Streak(n, s, m)
  PROVE  n = m <=> Scene!LastAll(s, m)
<1> DEFINE l == Len(s)
<1>1. l \in Nat
  OBVIOUS
<1>2. Scene!LastAll(s, m) <=> l >= m /\ \A i \in l - m + 1 .. l : s[i]
  BY LastAllIs
<1>3. /\ n <= l /\ \A i \in l - n + 1 .. l : s[i]
      /\ n < m /\ n < l => ~s[l - n]
  BY DEF Streak
<1> HIDE DEF l
<1>4. n = m => Scene!LastAll(s, m)
  BY <1>1, <1>2, <1>3
<1>5. ASSUME n # m, l >= m PROVE l - n \in l - m + 1 .. l /\ ~s[l - n]
  BY <1>1, <1>3, <1>5
<1>6. QED BY <1>2, <1>4, <1>5

-----------------------------------------------------------------------------
(* Visits *)

\* After n passes: who is inside, by who was within in each and whose visit each
\* ends, and who is new in the last one.
InsideAt(W, L, n) ==
  {t \in Track : \E j \in 1 .. n : t \in W[j] /\ \A k \in j + 1 .. n : t \notin L[k]}
FirstAt(W, L, n) ==
  {t \in W[n] : \A j \in 1 .. n - 1 : t \in W[j] => \E k \in j + 1 .. n : t \in L[k]}

\* One more pass
LEMMA OneMorePass ==
  ASSUME NEW n \in Nat, NEW W, NEW L, W[n + 1] \in SUBSET Track
  PROVE  /\ InsideAt(W, L, n + 1) = W[n + 1] \cup (InsideAt(W, L, n) \ L[n + 1])
         /\ FirstAt(W, L, n + 1) = W[n + 1] \ (InsideAt(W, L, n) \ L[n + 1])
<1>1. /\ \A j \in 1 .. n + 1 : j = n + 1 \/ j \in 1 .. n
      /\ \A j \in 1 .. n : j \in 1 .. n + 1 /\ j \in Int
      /\ n + 1 \in 1 .. n + 1 /\ n + 1 + 1 .. n + 1 = {} /\ n + 1 - 1 = n
  OBVIOUS
<1>2. \A j \in 1 .. n : /\ n + 1 \in j + 1 .. n + 1
                        /\ \A k \in j + 1 .. n + 1 : k = n + 1 \/ k \in j + 1 .. n
                        /\ \A k \in j + 1 .. n : k \in j + 1 .. n + 1
  OBVIOUS
<1> DEFINE p == n + 1
<1>3. /\ \A j \in 1 .. p : j = p \/ j \in 1 .. n
      /\ \A j \in 1 .. n : j \in 1 .. p
      /\ p \in 1 .. p /\ p + 1 .. p = {} /\ p - 1 = n
      /\ \A j \in 1 .. n : /\ p \in j + 1 .. p
                           /\ \A k \in j + 1 .. p : k = p \/ k \in j + 1 .. n
                           /\ \A k \in j + 1 .. n : k \in j + 1 .. p
      /\ W[p] \in SUBSET Track
  BY <1>1, <1>2
<1> HIDE DEF p
<1>4. ASSUME NEW t \in Track
      PROVE  t \in InsideAt(W, L, p) <=> t \in W[p] \/ (t \in InsideAt(W, L, n) /\ t \notin L[p])
  BY <1>3, Zenon DEF InsideAt
<1>5. InsideAt(W, L, p) = W[p] \cup (InsideAt(W, L, n) \ L[p])
  <2>1. InsideAt(W, L, p) \subseteq Track /\ InsideAt(W, L, n) \subseteq Track
    BY DEF InsideAt
  <2>2. QED BY <1>3, <1>4, <2>1
<1>6. ASSUME NEW t \in W[p]
      PROVE  t \in FirstAt(W, L, p) <=> t \notin InsideAt(W, L, n) \/ t \in L[p]
  <2>1. t \in Track
    BY <1>3
  <2>2. t \in FirstAt(W, L, p) <=> \A j \in 1 .. n : t \in W[j] => \E k \in j + 1 .. p : t \in L[k]
    BY <1>3, Zenon DEF FirstAt
  <2>3. t \in InsideAt(W, L, n) <=> \E j \in 1 .. n : t \in W[j] /\ \A k \in j + 1 .. n : t \notin L[k]
    BY <2>1 DEF InsideAt
  <2>4. \A j \in 1 .. n : (\E k \in j + 1 .. p : t \in L[k]) <=> t \in L[p] \/ \E k \in j + 1 .. n : t \in L[k]
    BY <1>3, Zenon
  <2>5. QED BY <2>2, <2>3, <2>4
<1>7. FirstAt(W, L, p) \subseteq W[p]
  BY DEF FirstAt
<1>8. FirstAt(W, L, p) = W[p] \ (InsideAt(W, L, n) \ L[p])
  BY <1>6, <1>7
<1>9. QED BY <1>5, <1>8 DEF p

\* What is before the last pass does not depend on it.
LEMMA SamePasses ==
  ASSUME NEW n \in Nat, NEW W, NEW L, NEW V, NEW M,
         \A k \in 1 .. n : W[k] = V[k] /\ L[k] = M[k]
  PROVE  InsideAt(W, L, n) = InsideAt(V, M, n)
<1>1. \A j \in 1 .. n : \A k \in j + 1 .. n : k \in 1 .. n
  OBVIOUS
<1>2. ASSUME NEW t \in Track
      PROVE  (\E j \in 1 .. n : t \in W[j] /\ \A k \in j + 1 .. n : t \notin L[k])
             <=> \E j \in 1 .. n : t \in V[j] /\ \A k \in j + 1 .. n : t \notin M[k]
  BY <1>1
<1>3. QED BY <1>2 DEF InsideAt

ZoneLeavers(s) ==
  [k \in 1 .. Len(s) |->
     {t \in Track : \/ s[k].new
                    \/ /\ t \notin s[k].within
                       /\ \A j \in 1 .. k - 1 : t \in s[j].within => s[k].at - s[j].at >= Second}]
FlowLeavers(s) ==
  [k \in 1 .. Len(s) |->
     {t \in Track : \/ s[k].new
                    \/ /\ k >= LostCycles
                       /\ \A n \in k - LostCycles + 1 .. k : t \notin s[n].present}]
Within(s) == [k \in 1 .. Len(s) |-> s[k].within]

ZoneInside(s) == InsideAt(Within(s), ZoneLeavers(s), Len(s))
FlowInside(s) == InsideAt(Within(s), FlowLeavers(s), Len(s))
ZoneFirst(s) == IF s = <<>> THEN {} ELSE FirstAt(Within(s), ZoneLeavers(s), Len(s))
FlowFirst(s) == IF s = <<>> THEN {} ELSE FirstAt(Within(s), FlowLeavers(s), Len(s))

ZonePass == [new : BOOLEAN, at : Nat, within : SUBSET Track]
FlowPass == [new : BOOLEAN, present : SUBSET Track, within : SUBSET Track]

\* The new intruders of the model are the first of a visit.
LEMMA ZoneFirstIs ==
  ASSUME seen.zone \in Seq(ZonePass)
  PROVE  Scene!NewAt(seen.zone, Scene!LeavesZone) = ZoneFirst(seen.zone)
<1> DEFINE s == seen.zone
<1>1. CASE s = <<>>
  BY <1>1 DEF Scene!NewAt, ZoneFirst
<1>2. CASE s # <<>>
  <2>1. Len(s) \in Nat /\ Len(s) \in 1 .. Len(s) /\ \A j \in 1 .. Len(s) : s[j] \in ZonePass
    BY <1>2
  <2>2. \A j \in 1 .. Len(s) - 1 : j \in 1 .. Len(s) /\ \A k \in j + 1 .. Len(s) : k \in 1 .. Len(s)
    BY <2>1
  <2>3. Scene!NewAt(s, Scene!LeavesZone) =
          {t \in s[Len(s)].within :
            \A j \in 1 .. Len(s) - 1 :
              t \in s[j].within => \E k \in j + 1 .. Len(s) : Scene!LeavesZone(t, k)}
    BY <1>2 DEF Scene!NewAt
  <2>4. \A t \in Track : \A k \in 1 .. Len(s) : Scene!LeavesZone(t, k) <=> t \in ZoneLeavers(s)[k]
    BY <2>1 DEF Scene!LeavesZone, ZoneLeavers
  <2>5. \A k \in 1 .. Len(s) : s[k].within = Within(s)[k] /\ s[k].within \subseteq Track
    BY <2>1 DEF Within, ZonePass
  <2> HIDE DEF s
  <2>6. QED BY <1>2, <2>1, <2>2, <2>3, <2>4, <2>5 DEF ZoneFirst, FirstAt, s
<1>3. QED BY <1>1, <1>2

LEMMA FlowFirstIs ==
  ASSUME seen.flow \in Seq(FlowPass)
  PROVE  Scene!NewAt(seen.flow, Scene!LeavesFlow) = FlowFirst(seen.flow)
<1> DEFINE s == seen.flow
<1>1. CASE s = <<>>
  BY <1>1 DEF Scene!NewAt, FlowFirst
<1>2. CASE s # <<>>
  <2>1. Len(s) \in Nat /\ Len(s) \in 1 .. Len(s) /\ \A j \in 1 .. Len(s) : s[j] \in FlowPass
    BY <1>2
  <2>2. \A j \in 1 .. Len(s) - 1 : j \in 1 .. Len(s) /\ \A k \in j + 1 .. Len(s) : k \in 1 .. Len(s)
    BY <2>1
  <2>3. Scene!NewAt(s, Scene!LeavesFlow) =
          {t \in s[Len(s)].within :
            \A j \in 1 .. Len(s) - 1 :
              t \in s[j].within => \E k \in j + 1 .. Len(s) : Scene!LeavesFlow(t, k)}
    BY <1>2 DEF Scene!NewAt
  <2>4. \A t \in Track : \A k \in 1 .. Len(s) : Scene!LeavesFlow(t, k) <=> t \in FlowLeavers(s)[k]
    BY <2>1 DEF Scene!LeavesFlow, FlowLeavers
  <2>5. \A k \in 1 .. Len(s) : s[k].within = Within(s)[k] /\ s[k].within \subseteq Track
    BY <2>1 DEF Within, FlowPass
  <2> HIDE DEF s
  <2>6. QED BY <1>2, <2>1, <2>2, <2>3, <2>4, <2>5 DEF FlowFirst, FirstAt, s
<1>3. QED BY <1>1, <1>2

\* A pass of the zone, a gate of the hall
LEMMA ZoneAppend ==
  ASSUME NEW s \in Seq(ZonePass), NEW e \in ZonePass
  PROVE  /\ ZoneInside(Append(s, e)) =
              e.within \cup (ZoneInside(s) \ ZoneLeavers(Append(s, e))[Len(s) + 1])
         /\ ZoneFirst(Append(s, e)) =
              e.within \ (ZoneInside(s) \ ZoneLeavers(Append(s, e))[Len(s) + 1])
<1> DEFINE n == Len(s)
           a == Append(s, e)
<1>1. /\ n \in Nat /\ Len(a) = n + 1 /\ a # <<>> /\ a[n + 1] = e
      /\ \A i \in 1 .. n : a[i] = s[i]
  OBVIOUS
<1>2. \A k \in 1 .. n : /\ k \in 1 .. n + 1
                        /\ \A j \in 1 .. k - 1 : j \in 1 .. n
  BY <1>1
<1>3. e.within \in SUBSET Track /\ n + 1 \in 1 .. n + 1
  BY <1>1 DEF ZonePass
<1> HIDE DEF n, a
<1>4. Within(a)[n + 1] = e.within
  BY <1>1, <1>3 DEF Within
<1>5. ASSUME NEW k \in 1 .. n
      PROVE  Within(s)[k] = Within(a)[k] /\ ZoneLeavers(s)[k] = ZoneLeavers(a)[k]
  <2>1. Within(s)[k] = Within(a)[k]
    BY <1>1, <1>2 DEF Within, n
  <2>2. ZoneLeavers(s)[k] =
          {t \in Track : \/ s[k].new
                         \/ /\ t \notin s[k].within
                            /\ \A j \in 1 .. k - 1 : t \in s[j].within => s[k].at - s[j].at >= Second}
    BY DEF ZoneLeavers, n
  <2>3. ZoneLeavers(a)[k] =
          {t \in Track : \/ a[k].new
                         \/ /\ t \notin a[k].within
                            /\ \A j \in 1 .. k - 1 : t \in a[j].within => a[k].at - a[j].at >= Second}
    BY <1>1, <1>2 DEF ZoneLeavers
  <2>4. QED BY <1>1, <1>2, <2>1, <2>2, <2>3
<1>6. InsideAt(Within(a), ZoneLeavers(a), n) = InsideAt(Within(s), ZoneLeavers(s), n)
  BY <1>1, <1>5, SamePasses
<1>7. /\ InsideAt(Within(a), ZoneLeavers(a), n + 1) =
           e.within \cup (InsideAt(Within(a), ZoneLeavers(a), n) \ ZoneLeavers(a)[n + 1])
      /\ FirstAt(Within(a), ZoneLeavers(a), n + 1) =
           e.within \ (InsideAt(Within(a), ZoneLeavers(a), n) \ ZoneLeavers(a)[n + 1])
  BY <1>1, <1>3, <1>4, OneMorePass
<1>8. QED BY <1>1, <1>6, <1>7 DEF ZoneInside, ZoneFirst, n, a

LEMMA FlowAppend ==
  ASSUME NEW s \in Seq(FlowPass), NEW e \in FlowPass, LostCycles \in Nat \ {0}
  PROVE  /\ FlowInside(Append(s, e)) =
              e.within \cup (FlowInside(s) \ FlowLeavers(Append(s, e))[Len(s) + 1])
         /\ FlowFirst(Append(s, e)) =
              e.within \ (FlowInside(s) \ FlowLeavers(Append(s, e))[Len(s) + 1])
<1> DEFINE n == Len(s)
           a == Append(s, e)
<1>1. /\ n \in Nat /\ Len(a) = n + 1 /\ a # <<>> /\ a[n + 1] = e
      /\ \A i \in 1 .. n : a[i] = s[i]
  OBVIOUS
<1>2. \A k \in 1 .. n : /\ k \in 1 .. n + 1
                        /\ k >= LostCycles => \A j \in k - LostCycles + 1 .. k : j \in 1 .. n
  BY <1>1
<1>3. e.within \in SUBSET Track /\ n + 1 \in 1 .. n + 1
  BY <1>1 DEF FlowPass
<1> HIDE DEF n, a
<1>4. Within(a)[n + 1] = e.within
  BY <1>1, <1>3 DEF Within
<1>5. ASSUME NEW k \in 1 .. n
      PROVE  Within(s)[k] = Within(a)[k] /\ FlowLeavers(s)[k] = FlowLeavers(a)[k]
  <2>1. Within(s)[k] = Within(a)[k]
    BY <1>1, <1>2 DEF Within, n
  <2>2. FlowLeavers(s)[k] =
          {t \in Track : \/ s[k].new
                         \/ /\ k >= LostCycles
                            /\ \A i \in k - LostCycles + 1 .. k : t \notin s[i].present}
    BY DEF FlowLeavers, n
  <2>3. FlowLeavers(a)[k] =
          {t \in Track : \/ a[k].new
                         \/ /\ k >= LostCycles
                            /\ \A i \in k - LostCycles + 1 .. k : t \notin a[i].present}
    BY <1>1, <1>2 DEF FlowLeavers
  <2>4. QED BY <1>1, <1>2, <2>1, <2>2, <2>3
<1>6. InsideAt(Within(a), FlowLeavers(a), n) = InsideAt(Within(s), FlowLeavers(s), n)
  BY <1>1, <1>5, SamePasses
<1>7. /\ InsideAt(Within(a), FlowLeavers(a), n + 1) =
           e.within \cup (InsideAt(Within(a), FlowLeavers(a), n) \ FlowLeavers(a)[n + 1])
      /\ FirstAt(Within(a), FlowLeavers(a), n + 1) =
           e.within \ (InsideAt(Within(a), FlowLeavers(a), n) \ FlowLeavers(a)[n + 1])
  BY <1>1, <1>3, <1>4, OneMorePass
<1>8. QED BY <1>1, <1>6, <1>7 DEF FlowInside, FlowFirst, n, a

-----------------------------------------------------------------------------
(* The zone *)

\* An age is counted up to a second.
Due(x, d) == (d < Second => x = d) /\ (d >= Second => x = Second)

\* Who is inside is who has a visit, and the age of their last sight is known.
LastSeen(t, l, x, s, gap) ==
  /\ t \in s[l].within /\ \A j \in l + 1 .. Len(s) : t \notin s[j].within
  /\ Due(x, s[Len(s)].at - s[l].at + gap)
ZoneGood(inside, unseen, s, gap) ==
  /\ \A i, j \in 1 .. Len(s) : i <= j => s[i].at <= s[j].at
  /\ inside = ZoneInside(s)
  /\ \A t \in inside : \E l \in 1 .. Len(s) : LastSeen(t, l, unseen[t], s, gap)

\* A pass of the zone is dated, and shows who is there.
Dated(s, gap, at) == (s = <<>> => at = gap) /\ (s # <<>> => at = s[Len(s)].at + gap)
Forgotten(inside, unseen, current) == {t \in inside \ current : unseen[t] >= Second}
Newcomers(inside, unseen, current) == current \ (inside \ Forgotten(inside, unseen, current))
Renewed(ages, unseen, current) ==
  (\A t \in current : ages[t] = 0) /\ (\A t \in Track \ current : ages[t] = unseen[t])

ZoneShow(s, inside, unseen, gap, e, ages) ==
  /\ Second \in Nat \ {0} /\ s \in Seq(ZonePass) /\ inside \in SUBSET Track /\ gap \in 0 .. Second
  /\ unseen \in [Track -> {-1} \cup 0 .. Second] /\ ZoneGood(inside, unseen, s, gap)
  /\ e \in ZonePass /\ e.new = FALSE /\ Dated(s, gap, e.at)
  /\ ages \in [Track -> {-1} \cup 0 .. Second] /\ Renewed(ages, unseen, e.within)
ZoneFollows(s, inside, unseen, e, ages) ==
  /\ ZoneGood((inside \ Forgotten(inside, unseen, e.within)) \cup e.within, ages, Append(s, e), 0)
  /\ ZoneFirst(Append(s, e)) = Newcomers(inside, unseen, e.within)

\* A pass of the zone, a second or less after the last: the visits that end are
\* those of whom intrusion_update forgets.
LEMMA ZoneShown ==
  ASSUME NEW s, NEW inside, NEW unseen, NEW gap, NEW e, NEW ages,
         ZoneShow(s, inside, unseen, gap, e, ages)
  PROVE  ZoneFollows(s, inside, unseen, e, ages)
<1>z. /\ Second \in Nat \ {0} /\ s \in Seq(ZonePass) /\ inside \in SUBSET Track /\ gap \in 0 .. Second
      /\ unseen \in [Track -> {-1} \cup 0 .. Second] /\ ZoneGood(inside, unseen, s, gap)
      /\ e \in ZonePass /\ e.new = FALSE /\ Dated(s, gap, e.at)
      /\ ages \in [Track -> {-1} \cup 0 .. Second] /\ Renewed(ages, unseen, e.within)
  BY DEF ZoneShow
<1> USE <1>z
<1>0. PICK at \in Nat, current \in SUBSET Track : at = e.at /\ current = e.within
  BY DEF ZonePass
<1> DEFINE n == Len(s)
           a == Append(s, e)
           gone == {t \in inside \ current : unseen[t] >= Second}
           next == (inside \ Forgotten(inside, unseen, e.within)) \cup e.within
<1>a. gone = Forgotten(inside, unseen, e.within) /\ next = (inside \ gone) \cup current
      /\ (s = <<>> => at = gap) /\ (s # <<>> => at = s[Len(s)].at + gap)
      /\ (\A t \in current : ages[t] = 0)
      /\ (\A t \in Track \ current : ages[t] = unseen[t])
  BY <1>0 DEF Forgotten, Dated, Renewed
<1>1. /\ n \in Nat /\ Len(a) = n + 1 /\ a[n + 1] = e /\ s \in Seq(ZonePass)
      /\ \A i \in 1 .. n : a[i] = s[i] /\ s[i] \in ZonePass
      /\ (s = <<>> <=> n = 0) /\ n + 1 \in 1 .. n + 1
  OBVIOUS
<1>2. /\ ZoneInside(a) = current \cup (ZoneInside(s) \ ZoneLeavers(a)[n + 1])
      /\ ZoneFirst(a) = current \ (ZoneInside(s) \ ZoneLeavers(a)[n + 1])
  BY <1>0, ZoneAppend
<1>3. /\ \A i, j \in 1 .. n : i <= j => s[i].at <= s[j].at
      /\ inside = ZoneInside(s)
      /\ \A t \in inside : \E l \in 1 .. n : LastSeen(t, l, unseen[t], s, gap)
  BY DEF ZoneGood
<1> HIDE DEF n, a, next
<1>4. n > 0 => /\ at = s[n].at + gap /\ \A i \in 1 .. n : s[i].at <= s[n].at
  BY <1>1, <1>3, <1>a DEF n
<1>5. \A i \in 1 .. n : s[i].at \in Nat /\ s[i].at <= at
  BY <1>0, <1>1, <1>4 DEF ZonePass
<1>6. \A t \in Track : t \in ZoneLeavers(a)[n + 1] <=>
        t \notin current /\ \A j \in 1 .. n : t \in s[j].within => at - s[j].at >= Second
  <2>1. ZoneLeavers(a)[n + 1] =
          {t \in Track : \/ a[n + 1].new
                         \/ /\ t \notin a[n + 1].within
                            /\ \A j \in 1 .. n + 1 - 1 :
                                 t \in a[j].within => a[n + 1].at - a[j].at >= Second}
    BY <1>1 DEF ZoneLeavers
  <2>2. 1 .. n + 1 - 1 = 1 .. n
    BY <1>1
  <2>3. QED BY <1>0, <1>1, <2>1, <2>2
<1>7. ASSUME NEW t \in inside, NEW l \in 1 .. n, LastSeen(t, l, unseen[t], s, gap)
      PROVE  (t \in gone <=> t \in ZoneLeavers(a)[n + 1]) /\ Due(unseen[t], at - s[l].at)
  <2>1. /\ t \in s[l].within /\ \A j \in l + 1 .. n : t \notin s[j].within
        /\ Due(unseen[t], s[n].at - s[l].at + gap)
    BY <1>7 DEF LastSeen, n
  <2>2. s[n].at - s[l].at + gap = at - s[l].at /\ s[l].at \in Nat /\ at - s[l].at \in Nat
    <3>1. n > 0 /\ n \in 1 .. n
      BY <1>1
    <3>2. s[n].at \in Nat /\ s[l].at \in Nat
      BY <1>5, <3>1
    <3>3. at = s[n].at + gap /\ s[l].at <= at /\ gap \in Nat /\ at \in Nat
      BY <1>0, <1>4, <1>5, <3>1
    <3>4. \A x, y \in Nat : at = x + gap /\ y <= at => x - y + gap = at - y /\ at - y \in Nat
      BY <3>3
    <3>5. QED BY <3>2, <3>3, <3>4, Zenon
  <2>3. Due(unseen[t], at - s[l].at)
    BY <2>1, <2>2
  <2>4. unseen[t] >= Second <=> at - s[l].at >= Second
    BY <2>2, <2>3 DEF Due
  <2>5. at - s[l].at >= Second
        <=> \A j \in 1 .. n : t \in s[j].within => at - s[j].at >= Second
    <3>1. \A j \in 1 .. n : t \in s[j].within => s[j].at <= s[l].at
      <4>1. \A j \in 1 .. n : t \in s[j].within => j <= l
        BY <1>1, <2>1
      <4>2. QED BY <1>3, <4>1
    <3>2. ASSUME NEW j \in 1 .. n, t \in s[j].within, at - s[l].at >= Second
          PROVE  at - s[j].at >= Second
      <4>1. PICK p \in Nat, q \in Nat : p = s[j].at /\ q = s[l].at
        BY <1>5
      <4>2. p <= q /\ at - q >= Second
        BY <3>1, <3>2, <4>1
      <4>3. at - p >= Second
        BY <4>2
      <4>4. QED BY <4>1, <4>3
    <3>3. QED BY <2>1, <3>2
  <2>6. t \in Track
    OBVIOUS
  <2>7. QED BY <1>6, <2>3, <2>4, <2>5, <2>6
<1>8. \A t \in inside : t \in gone <=> t \in ZoneLeavers(a)[n + 1]
  BY <1>3, <1>7
<1> HIDE DEF gone
<1>9. next = ZoneInside(a) /\ ZoneFirst(a) = current \ (inside \ gone)
  BY <1>2, <1>3, <1>8, <1>a
<1>10. \A i, j \in 1 .. Len(a) : i <= j => a[i].at <= a[j].at
  <2>1. \A i \in 1 .. n + 1 : i = n + 1 \/ i \in 1 .. n
    BY <1>1
  <2>2. ASSUME NEW i \in 1 .. n + 1, NEW j \in 1 .. n + 1, i <= j PROVE a[i].at <= a[j].at
    <3>1. CASE j = n + 1
      BY <1>0, <1>1, <1>5, <2>1, <3>1
    <3>2. CASE j # n + 1
      <4>1. i \in 1 .. n /\ j \in 1 .. n
        BY <1>1, <2>2, <3>2
      <4>2. QED BY <1>1, <1>3, <2>2, <4>1
    <3>3. QED BY <3>1, <3>2
  <2>3. QED BY <1>1, <2>2
<1>11. ASSUME NEW t \in next PROVE \E l \in 1 .. Len(a) : LastSeen(t, l, ages[t], a, 0)
  <2>1. CASE t \in current
    <3>1. n + 1 + 1 .. n + 1 = {} /\ e.at - e.at + 0 = 0
      BY <1>0, <1>1
    <3>2. LastSeen(t, n + 1, ages[t], a, 0)
      <4>1. t \in a[n + 1].within /\ \A j \in n + 1 + 1 .. n + 1 : t \notin a[j].within
        BY <1>0, <1>1, <2>1, <3>1
      <4>2. Due(ages[t], 0)
        BY <1>a, <2>1 DEF Due
      <4>3. a[n + 1].at - a[n + 1].at + 0 = 0
        BY <1>0, <1>1
      <4>4. QED BY <1>1, <4>1, <4>2, <4>3 DEF LastSeen
    <3>3. QED BY <1>1, <3>2
  <2>2. CASE t \notin current
    <3>1. t \in inside /\ t \in Track /\ ages[t] = unseen[t]
      BY <1>11, <1>a, <2>2
    <3>2. PICK l \in 1 .. n : LastSeen(t, l, unseen[t], s, gap)
      BY <1>3, <3>1
    <3>3. t \in s[l].within /\ \A j \in l + 1 .. n : t \notin s[j].within
      BY <3>2 DEF LastSeen, n
    <3>4. Due(unseen[t], at - s[l].at)
      BY <1>7, <3>1, <3>2
    <3>5. /\ l \in 1 .. n + 1 /\ a[l] = s[l] /\ at - s[l].at + 0 = at - s[l].at
          /\ \A j \in l + 1 .. n + 1 : j = n + 1 \/ (j \in l + 1 .. n /\ a[j] = s[j])
      BY <1>0, <1>1, <1>5, <3>2
    <3>6. LastSeen(t, l, ages[t], a, 0)
      BY <1>0, <1>1, <2>2, <3>1, <3>3, <3>4, <3>5 DEF LastSeen
    <3>7. QED BY <1>1, <3>5, <3>6
  <2>3. QED BY <2>1, <2>2
<1>12. ZoneGood(next, ages, a, 0)
  BY <1>9, <1>10, <1>11 DEF ZoneGood
<1>13. QED BY <1>0, <1>9, <1>12, <1>a DEF a, next, Newcomers, ZoneFollows

\* The schedule of the intrusion mode ends: nobody is inside any more.
LEMMA ZoneQuiet ==
  ASSUME NEW s \in Seq(ZonePass), NEW inside, NEW unseen, NEW gap \in 0 .. Second,
         Second \in Nat \ {0}, ZoneGood(inside, unseen, s, gap), NEW ages,
         NEW e \in ZonePass, e.new = TRUE, e.within = {}, Dated(s, gap, e.at)
  PROVE  ZoneGood({}, ages, Append(s, e), 0) /\ ZoneFirst(Append(s, e)) = {}
<1>0. PICK at \in Nat : at = e.at
  BY DEF ZonePass
<1> DEFINE n == Len(s)
           a == Append(s, e)
<1>1. /\ n \in Nat /\ Len(a) = n + 1 /\ a[n + 1] = e
      /\ \A i \in 1 .. n : a[i] = s[i] /\ s[i] \in ZonePass
      /\ (s = <<>> <=> n = 0) /\ n + 1 \in 1 .. n + 1
  OBVIOUS
<1>2. /\ ZoneInside(a) = ZoneInside(s) \ ZoneLeavers(a)[n + 1]
      /\ ZoneFirst(a) = {}
  BY ZoneAppend
<1>3. \A i, j \in 1 .. n : i <= j => s[i].at <= s[j].at
  BY DEF ZoneGood
<1> HIDE DEF n, a
<1>4. n > 0 => /\ at = s[n].at + gap /\ \A i \in 1 .. n : s[i].at <= s[n].at
  BY <1>0, <1>1, <1>3 DEF n, Dated
<1>5. \A i \in 1 .. n : s[i].at \in Nat /\ s[i].at <= at
  BY <1>1, <1>4 DEF ZonePass
<1>6. ZoneLeavers(a)[n + 1] = Track
  BY <1>1 DEF ZoneLeavers
<1>7. ZoneInside(s) \subseteq Track
  BY DEF ZoneInside, InsideAt
<1>8. \A i, j \in 1 .. Len(a) : i <= j => a[i].at <= a[j].at
  <2>1. ASSUME NEW i \in 1 .. n + 1, NEW j \in 1 .. n + 1, i <= j PROVE a[i].at <= a[j].at
    <3>1. CASE j = n + 1
      <4>1. i = n + 1 \/ i \in 1 .. n
        BY <1>1
      <4>2. QED BY <1>0, <1>1, <1>5, <3>1, <4>1
    <3>2. CASE j # n + 1
      <4>1. i \in 1 .. n /\ j \in 1 .. n
        BY <1>1, <2>1, <3>2
      <4>2. QED BY <1>1, <1>3, <2>1, <4>1
    <3>3. QED BY <3>1, <3>2
  <2>2. QED BY <1>1, <2>1
<1>9. ZoneInside(a) = {}
  BY <1>2, <1>6, <1>7
<1>10. ZoneGood({}, ages, a, 0)
  BY <1>8, <1>9 DEF ZoneGood
<1>11. QED BY <1>2, <1>10 DEF a

\* Time passes: both ages stop at a second.
LEMMA ZoneAges ==
  ASSUME NEW s \in Seq(ZonePass), NEW inside \in SUBSET Track,
         NEW unseen \in [Track -> {-1} \cup 0 .. Second], NEW gap \in 0 .. Second,
         Second \in Nat \ {0}, ZoneGood(inside, unseen, s, gap), NEW by \in Nat,
         NEW ages \in [Track -> {-1} \cup 0 .. Second], NEW later \in 0 .. Second,
         gap + by <= Second => later = gap + by, gap + by > Second => later = Second,
         \A t \in Track : unseen[t] # -1 /\ unseen[t] + by <= Second => ages[t] = unseen[t] + by,
         \A t \in Track : unseen[t] # -1 /\ unseen[t] + by > Second => ages[t] = Second
  PROVE  ZoneGood(inside, ages, s, later)
<1>1. /\ \A i, j \in 1 .. Len(s) : i <= j => s[i].at <= s[j].at
      /\ inside = ZoneInside(s)
      /\ \A t \in inside : \E l \in 1 .. Len(s) : LastSeen(t, l, unseen[t], s, gap)
  BY DEF ZoneGood
<1>2. ASSUME NEW t \in inside PROVE \E l \in 1 .. Len(s) : LastSeen(t, l, ages[t], s, later)
  <2>1. PICK l \in 1 .. Len(s) : LastSeen(t, l, unseen[t], s, gap)
    BY <1>1
  <2>2. PICK d \in Nat : d = s[Len(s)].at - s[l].at
    <3>1. Len(s) \in 1 .. Len(s) /\ l <= Len(s)
      OBVIOUS
    <3>2. s[l].at \in Nat /\ s[Len(s)].at \in Nat
      <4>1. s[l] \in ZonePass /\ s[Len(s)] \in ZonePass
        BY <3>1
      <4>2. QED BY <4>1 DEF ZonePass
    <3>3. s[l].at <= s[Len(s)].at
      BY <1>1, <3>1
    <3>4. QED BY <3>2, <3>3
  <2>3. Due(unseen[t], d + gap)
    BY <2>1, <2>2 DEF LastSeen
  <2>4. t \in Track
    OBVIOUS
  <2>5. Due(ages[t], d + later)
    BY <2>2, <2>3, <2>4 DEF Due
  <2>6. QED BY <2>1, <2>2, <2>5 DEF LastSeen
<1>3. QED BY <1>1, <1>2 DEF ZoneGood

\* The rules are new.
LEMMA ZoneNew ==
  ASSUME NEW unseen
  PROVE  ZoneGood({}, unseen, <<>>, 0) /\ ZoneFirst(<<>>) = {}
<1>1. Len(<<>>) = 0 /\ 1 .. 0 = {}
  OBVIOUS
<1>2. ZoneInside(<<>>) = {}
  BY <1>1 DEF ZoneInside, InsideAt
<1>3. QED BY <1>1, <1>2 DEF ZoneGood, ZoneFirst

-----------------------------------------------------------------------------
(* The hall *)

TrackState == [counted : BOOLEAN, missing : -1 .. LostCycles - 1]

\* A track is counted in its visit, and the passes that miss it are counted.
FlowGood(tracks, s) ==
  /\ \A i \in 1 .. Len(s) : s[i].within \subseteq s[i].present
  /\ \A t \in Track : tracks[t].counted <=> t \in FlowInside(s)
  /\ \A t \in Track : tracks[t].missing = -1 => ~tracks[t].counted
  /\ \A t \in Track : \A l \in Int :
       tracks[t].missing # -1 /\ l = Len(s) - tracks[t].missing =>
         /\ l \in 1 .. Len(s) /\ t \in s[l].present
         /\ \A i \in l + 1 .. Len(s) : t \notin s[i].present /\ ~s[i].new

\* A gate: the visits that end are those of the tracks that flow_update forgets
\* or loses, and those that are counted begin.
LEMMA FlowShown ==
  ASSUME LostCycles \in Nat \ {0}, NEW s \in Seq(FlowPass), NEW tracks \in [Track -> TrackState],
         FlowGood(tracks, s), NEW e \in FlowPass, e.within \subseteq e.present,
         NEW next \in [Track -> TrackState],
         \A t \in e.present : next[t].missing = 0,
         \A t \in e.present : next[t].counted
           <=> (~e.new /\ tracks[t].counted) \/ t \in e.within,
         \A t \in Track \ e.present :
           e.new \/ tracks[t].missing = -1 \/ tracks[t].missing + 1 >= LostCycles
           => next[t].missing = -1 /\ ~next[t].counted,
         \A t \in Track \ e.present :
           ~(e.new \/ tracks[t].missing = -1 \/ tracks[t].missing + 1 >= LostCycles)
           => next[t].missing = tracks[t].missing + 1 /\ next[t].counted = tracks[t].counted
  PROVE  /\ FlowGood(next, Append(s, e))
         /\ FlowFirst(Append(s, e)) = {t \in e.within : ~(~e.new /\ tracks[t].counted)}
<1> DEFINE n == Len(s)
           a == Append(s, e)
<1>1. /\ n \in Nat /\ Len(a) = n + 1 /\ a[n + 1] = e
      /\ \A i \in 1 .. n : a[i] = s[i]
      /\ n + 1 \in 1 .. n + 1
      /\ \A i \in 1 .. n + 1 : i = n + 1 \/ (i \in 1 .. n /\ a[i] = s[i])
  OBVIOUS
<1>2. /\ FlowInside(a) = e.within \cup (FlowInside(s) \ FlowLeavers(a)[n + 1])
      /\ FlowFirst(a) = e.within \ (FlowInside(s) \ FlowLeavers(a)[n + 1])
  BY FlowAppend
<1>3. /\ \A i \in 1 .. n : s[i].within \subseteq s[i].present
      /\ \A t \in Track : tracks[t].counted <=> t \in FlowInside(s)
      /\ \A t \in Track : tracks[t].missing = -1 => ~tracks[t].counted
      /\ \A t \in Track : \A l \in Int :
           tracks[t].missing # -1 /\ l = n - tracks[t].missing =>
             /\ l \in 1 .. n /\ t \in s[l].present
             /\ \A i \in l + 1 .. n : t \notin s[i].present /\ ~s[i].new
  BY DEF FlowGood
<1>4. e.within \subseteq Track /\ e.present \subseteq Track /\ e.new \in BOOLEAN
  BY DEF FlowPass
<1> HIDE DEF n, a
<1>5. ASSUME NEW t \in Track
      PROVE  t \in FlowLeavers(a)[n + 1] <=>
               \/ e.new
               \/ /\ n + 1 >= LostCycles
                  /\ \A i \in n + 1 - LostCycles + 1 .. n + 1 : t \notin a[i].present
  BY <1>1 DEF FlowLeavers
<1>6. ASSUME NEW t \in e.present PROVE t \in FlowLeavers(a)[n + 1] <=> e.new
  <2>1. t \in Track
    BY <1>4
  <2>2. n + 1 \in n + 1 - LostCycles + 1 .. n + 1
    BY <1>1
  <2>3. QED BY <1>1, <1>5, <2>1, <2>2
<1>7. ASSUME NEW t \in Track \ e.present
      PROVE  next[t].counted <=> tracks[t].counted /\ t \notin FlowLeavers(a)[n + 1]
  <2>1. PICK m \in -1 .. LostCycles - 1 : m = tracks[t].missing
    BY DEF TrackState
  <2>2. CASE e.new \/ m = -1
    BY <1>3, <1>5, <2>1, <2>2
  <2>3. CASE ~(e.new \/ m = -1)
    <3>1. /\ n - m \in 1 .. n /\ t \in s[n - m].present
          /\ \A i \in n - m + 1 .. n : t \notin s[i].present
      BY <1>1, <1>3, <2>1, <2>3
    <3>2. CASE m + 1 >= LostCycles
      <4>1. m + 1 = LostCycles /\ n + 1 >= LostCycles
        BY <1>1, <2>1, <3>1, <3>2
      <4>2. \A i \in n + 1 - LostCycles + 1 .. n + 1 : i = n + 1 \/ (i \in n - m + 1 .. n /\ i \in 1 .. n)
        BY <1>1, <2>1, <3>1, <4>1
      <4>3. t \in FlowLeavers(a)[n + 1]
        BY <1>1, <1>5, <3>1, <4>1, <4>2
      <4>4. ~next[t].counted
        BY <2>1, <3>2
      <4>5. QED BY <4>3, <4>4
    <3>3. CASE ~(m + 1 >= LostCycles)
      <4>1. n - m \in n + 1 - LostCycles + 1 .. n + 1
        BY <1>1, <2>1, <3>1, <3>3
      <4>2. t \notin FlowLeavers(a)[n + 1]
        BY <1>1, <1>5, <2>3, <3>1, <4>1
      <4>3. next[t].counted = tracks[t].counted
        BY <2>1, <2>3, <3>3
      <4>4. QED BY <4>2, <4>3
    <3>4. QED BY <3>2, <3>3
  <2>4. QED BY <2>2, <2>3
<1>8. \A t \in Track : next[t].counted <=> t \in FlowInside(a)
  <2>1. ASSUME NEW t \in e.present PROVE next[t].counted <=> t \in FlowInside(a)
    <3>1. t \in Track
      BY <1>4
    <3>2. QED BY <1>2, <1>3, <1>6, <3>1
  <2>2. ASSUME NEW t \in Track \ e.present PROVE next[t].counted <=> t \in FlowInside(a)
    <3>1. t \notin e.within
      BY <2>2
    <3>2. QED BY <1>2, <1>3, <1>7, <3>1
  <2>3. QED BY <2>1, <2>2
<1>9. FlowFirst(a) = {t \in e.within : ~(~e.new /\ tracks[t].counted)}
  <2>1. ASSUME NEW t \in e.within
        PROVE  t \in FlowInside(s) \ FlowLeavers(a)[n + 1] <=> ~e.new /\ tracks[t].counted
    <3>1. t \in Track /\ t \in e.present
      BY <1>4
    <3>2. QED BY <1>3, <1>6, <3>1
  <2>2. QED BY <1>2, <2>1
<1>10. ASSUME NEW t \in Track PROVE next[t].missing = -1 => ~next[t].counted
  <2>1. CASE t \in e.present
    BY <2>1
  <2>2. CASE t \notin e.present
    <3>1. PICK m \in -1 .. LostCycles - 1 : m = tracks[t].missing
      BY DEF TrackState
    <3>2. CASE e.new \/ m = -1 \/ m + 1 >= LostCycles
      BY <2>2, <3>1, <3>2
    <3>3. CASE ~(e.new \/ m = -1 \/ m + 1 >= LostCycles)
      BY <2>2, <3>1, <3>3
    <3>4. QED BY <3>2, <3>3
  <2>3. QED BY <2>1, <2>2
<1>11. ASSUME NEW t \in Track, NEW l \in Int, next[t].missing # -1, l = (n + 1) - next[t].missing
       PROVE  /\ l \in 1 .. n + 1 /\ t \in a[l].present
              /\ \A i \in l + 1 .. n + 1 : t \notin a[i].present /\ ~a[i].new
  <2>1. CASE t \in e.present
    <3>1. l = n + 1 /\ l + 1 .. n + 1 = {}
      BY <1>1, <1>11, <2>1
    <3>2. QED BY <1>1, <2>1, <3>1
  <2>2. CASE t \notin e.present
    <3>1. PICK m \in -1 .. LostCycles - 1 : m = tracks[t].missing
      BY DEF TrackState
    <3>2. ~(e.new \/ m = -1 \/ m + 1 >= LostCycles)
      BY <1>11, <2>2, <3>1
    <3>3. next[t].missing = m + 1
      BY <2>2, <3>1, <3>2
    <3>4. l = n - m
      BY <1>1, <1>11, <3>1, <3>3
    <3>5. /\ l \in 1 .. n /\ t \in s[l].present
          /\ \A i \in l + 1 .. n : t \notin s[i].present /\ ~s[i].new
      BY <1>3, <3>1, <3>2, <3>4
    <3>6. \A i \in l + 1 .. n + 1 : i = n + 1 \/ (i \in l + 1 .. n /\ a[i] = s[i])
      BY <1>1, <3>5
    <3>7. l \in 1 .. n + 1 /\ a[l] = s[l]
      BY <1>1, <3>5
    <3>8. QED BY <1>1, <2>2, <3>2, <3>5, <3>6, <3>7
  <2>3. QED BY <2>1, <2>2
<1>12. \A i \in 1 .. n + 1 : a[i].within \subseteq a[i].present
  BY <1>1, <1>3
<1>13. FlowGood(next, a)
  <2>1. Len(a) = n + 1
    BY <1>1
  <2>2. \A i \in 1 .. Len(a) : a[i].within \subseteq a[i].present
    BY <1>12, <2>1
  <2>3. ASSUME NEW t \in Track, NEW l \in Int, next[t].missing # -1, l = Len(a) - next[t].missing
        PROVE  /\ l \in 1 .. Len(a) /\ t \in a[l].present
               /\ \A i \in l + 1 .. Len(a) : t \notin a[i].present /\ ~a[i].new
    <3>1. l = (n + 1) - next[t].missing
      BY <2>1, <2>3
    <3>2. /\ l \in 1 .. n + 1 /\ t \in a[l].present
          /\ \A i \in l + 1 .. n + 1 : t \notin a[i].present /\ ~a[i].new
      BY <1>11, <2>3, <3>1
    <3>3. QED BY <2>1, <3>2
  <2>4. \A t \in Track : next[t].missing = -1 => ~next[t].counted
    BY <1>10
  <2>5. QED BY <1>8, <2>2, <2>3, <2>4, Zenon DEF FlowGood
<1>14. QED BY <1>9, <1>13 DEF a

\* The rules are new.
LEMMA FlowNew ==
  ASSUME NEW tracks, \A t \in Track : tracks[t].missing = -1 /\ ~tracks[t].counted
  PROVE  FlowGood(tracks, <<>>) /\ FlowFirst(<<>>) = {}
<1>1. Len(<<>>) = 0 /\ 1 .. 0 = {}
  OBVIOUS
<1>2. FlowInside(<<>>) = {}
  BY <1>1 DEF FlowInside, InsideAt
<1>3. QED BY <1>1, <1>2 DEF FlowGood, FlowFirst

-----------------------------------------------------------------------------
(* The rules, and the history of what they were shown and said *)

LookType == [again : BOOLEAN, forced : BOOLEAN]
RulesType ==
  [black : 0 .. 3, fire : 0 .. 2, smoke : Seq(BOOLEAN), inside : SUBSET Track,
   unseen : [Track -> {-1} \cup 0 .. Second], tracks : [Track -> TrackState],
   flowDay : {-1, 0, 1}]
SeenType ==
  [black : Seq(BOOLEAN), fire : Seq(BOOLEAN), smoke : Seq(BOOLEAN), looks : Seq(LookType),
   newer : BOOLEAN, zone : Seq(ZonePass), gap : 0 .. Second, flow : Seq(FlowPass)]
Amount == {Cardinality(S) : S \in SUBSET Track}
VerdictType ==
  [black : BOOLEAN, fire : BOOLEAN, smoke : BOOLEAN, intruders : SUBSET Track, entered : Amount]

Windows(r, s, v) ==
  /\ Streak(r.black, s.black, 3) /\ (v.black <=> r.black = 3)
  /\ Streak(r.fire, s.fire, 2) /\ (v.fire <=> r.fire = 2)
  /\ r.smoke = Scene!LastOf(s.smoke, 5)
  /\ v.smoke <=> Scene!LastAll(s.smoke, 1) /\ Scene!SmokeConfirmed(r)
Zones(r, s, v) ==
  ZoneGood(r.inside, r.unseen, s.zone, s.gap) /\ v.intruders = ZoneFirst(s.zone)
Flows(r, s, v) ==
  FlowGood(r.tracks, s.flow) /\ v.entered = Cardinality(FlowFirst(s.flow))
History(r, s, v) ==
  /\ r \in RulesType /\ s \in SeenType /\ v \in VerdictType
  /\ Windows(r, s, v) /\ Zones(r, s, v) /\ Flows(r, s, v)

LEMMA HistoryNew ==
  ASSUME Scene!SceneRulesAssumption
  PROVE  History(Scene!NewRules, Scene!NothingSeen, Scene!NothingSaid)
<1> DEFINE r == Scene!NewRules
           s == Scene!NothingSeen
           v == Scene!NothingSaid
<1>1. /\ r.black = 0 /\ r.fire = 0 /\ r.smoke = <<>> /\ r.inside = {}
      /\ r.tracks \in [Track -> TrackState]
      /\ \A t \in Track : r.tracks[t].missing = -1 /\ ~r.tracks[t].counted
  BY DEF Scene!NewRules, Scene!Unknown, Scene!Never, TrackState, Scene!SceneRulesAssumption
<1>2. r \in RulesType
  BY DEF Scene!NewRules, Scene!Unknown, Scene!Never, TrackState, RulesType, Scene!SceneRulesAssumption
<1>3. /\ s.black = <<>> /\ s.fire = <<>> /\ s.smoke = <<>> /\ s.zone = <<>> /\ s.gap = 0
      /\ s.flow = <<>> /\ s \in SeenType
  BY DEF Scene!NothingSeen, SeenType, Scene!SceneRulesAssumption
<1>4. /\ ~v.black /\ ~v.fire /\ ~v.smoke /\ v.intruders = {} /\ v.entered = 0
  BY DEF Scene!NothingSaid
<1>5. 0 = Cardinality({}) /\ 0 \in Amount
  BY FS_EmptySet DEF Amount
<1>6. v \in VerdictType
  BY <1>5 DEF Scene!NothingSaid, VerdictType
<1> HIDE DEF r, s, v
<1>7. Streak(0, <<>>, 3) /\ Streak(0, <<>>, 2)
  BY DEF Streak
<1>8. Scene!LastOf(<<>>, 5) = <<>>
  <2>1. PICK x \in Seq(BOOLEAN), n \in Nat \ {0} : x = <<>> /\ n = 5 /\ Len(x) = 0 /\ 0 <= n
    <3>1. PICK x \in Seq(BOOLEAN) : x = <<>> /\ Len(x) = 0
      BY EmptySeq
    <3>2. PICK n \in Nat \ {0} : n = 5 /\ 0 <= n
      OBVIOUS
    <3>3. QED BY <3>1, <3>2
  <2>2. /\ Scene!LastOf(x, n) \in Seq(BOOLEAN)
        /\ Len(x) <= n => Len(Scene!LastOf(x, n)) = Len(x)
    BY LastOfIs
  <2>3. QED BY <2>1, <2>2
<1>9. ~Scene!LastAll(<<>>, 1)
  BY DEF Scene!LastAll
<1>10. Windows(r, s, v)
  BY <1>1, <1>3, <1>4, <1>7, <1>8, <1>9 DEF Windows
<1>11. Zones(r, s, v)
  BY <1>1, <1>3, <1>4, ZoneNew DEF Zones
<1>12. Flows(r, s, v)
  <2>1. FlowGood(r.tracks, <<>>) /\ FlowFirst(<<>>) = {}
    BY <1>1, FlowNew
  <2>2. QED BY <1>3, <1>4, <1>5, <2>1 DEF Flows
<1>13. QED BY <1>2, <1>3, <1>6, <1>10, <1>11, <1>12 DEF History, r, s, v

\* black_update
LEMMA BlackLook ==
  ASSUME NEW r, NEW s, NEW v, History(r, s, v), NEW dark \in BOOLEAN,
         NEW r2, r2 = Scene!Black(r, dark), NEW s2, s2 = [s EXCEPT !.black = Append(@, dark)],
         NEW b \in BOOLEAN, b <=> r2.black >= 3, NEW v2, v2 = [v EXCEPT !.black = b]
  PROVE  History(r2, s2, v2)
<1>1. r \in RulesType /\ s \in SeenType /\ v \in VerdictType /\ Windows(r, s, v)
  BY DEF History
<1>2. PICK k \in Nat : k = r2.black
  <2>1. r2.black = IF dark THEN Scene!Min({r.black + 1, 3}) ELSE 0
    BY <1>1 DEF RulesType, Scene!Black
  <2>2. PICK p \in Int, q \in Int : p = r.black + 1 /\ q = 3
    BY <1>1 DEF RulesType
  <2>3. r.black \in 0 .. 3
    BY <1>1 DEF RulesType
  <2>4. Scene!Min({p, q}) = IF p <= q THEN p ELSE q
    BY <2>2, MinMax
  <2>5. Scene!Min({r.black + 1, 3}) \in Nat
    BY <2>2, <2>3, <2>4
  <2>6. QED BY <2>1, <2>5
<1>3. Streak(k, s2.black, 3) /\ k \in 0 .. 3
  <2>1. dark = FALSE => k = 0
    BY <1>1, <1>2 DEF RulesType, Scene!Black
  <2>2. dark = TRUE => k = Scene!Min({r.black + 1, 3})
    BY <1>1, <1>2 DEF RulesType, Scene!Black
  <2>3. s.black \in Seq(BOOLEAN) /\ r.black \in 0 .. 3 /\ Streak(r.black, s.black, 3)
    BY <1>1 DEF RulesType, SeenType, Windows
  <2>4. s2.black = Append(s.black, dark)
    BY <1>1 DEF SeenType
  <2>5. PICK m \in Nat \ {0} : m = 3
    OBVIOUS
  <2>6. Streak(k, Append(s.black, dark), m) /\ k \in 0 .. m
    <3>1. r.black \in 0 .. m /\ Streak(r.black, s.black, m)
      BY <2>3, <2>5
    <3>2. dark = TRUE => k = Scene!Min({r.black + 1, m})
      BY <2>2, <2>5
    <3>3. QED BY <2>1, <2>3, <3>1, <3>2, StreakGrows
  <2>7. QED BY <2>4, <2>5, <2>6
<1>4. /\ r2.fire = r.fire /\ r2.smoke = r.smoke /\ r2.inside = r.inside /\ r2.unseen = r.unseen
      /\ r2.tracks = r.tracks /\ r2.flowDay = r.flowDay /\ r2 = [r EXCEPT !.black = k]
  BY <1>1, <1>2 DEF RulesType, Scene!Black
<1>5. r2 \in RulesType
  BY <1>1, <1>3, <1>4 DEF RulesType
<1>6. /\ s2.fire = s.fire /\ s2.smoke = s.smoke /\ s2.zone = s.zone /\ s2.gap = s.gap
      /\ s2.flow = s.flow /\ s2 \in SeenType
  <2>1. PICK w \in Seq(BOOLEAN) : w = Append(s.black, dark)
    <3>1. s.black \in Seq(BOOLEAN)
      BY <1>1 DEF SeenType
    <3>2. QED BY <3>1, AppendProperties
  <2>2. s2 = [s EXCEPT !.black = w]
    BY <2>1
  <2>3. QED BY <1>1, <2>2 DEF SeenType
<1>7. /\ v2.fire = v.fire /\ v2.smoke = v.smoke /\ v2.intruders = v.intruders
      /\ v2.entered = v.entered /\ v2 \in VerdictType /\ (v2.black <=> k = 3)
  <2>1. b <=> k = 3
    BY <1>2, <1>3
  <2>2. QED BY <1>1, <2>1 DEF VerdictType
<1>8. Windows(r2, s2, v2)
  BY <1>1, <1>2, <1>3, <1>4, <1>6, <1>7 DEF Windows, Scene!SmokeConfirmed
<1>9. Zones(r2, s2, v2) /\ Flows(r2, s2, v2)
  BY <1>4, <1>6, <1>7 DEF History, Zones, Flows
<1>10. QED BY <1>5, <1>6, <1>7, <1>8, <1>9 DEF History

\* fire_smoke_update
FirePassed(r, s, v, fireHit, smokeHit, r2, looks, newer, s2, b, c, v2) ==
  /\ History(r, s, v) /\ fireHit \in BOOLEAN /\ smokeHit \in BOOLEAN
  /\ r2 = Scene!FireSmoke(r, fireHit, smokeHit)
  /\ looks \in Seq(LookType) /\ newer \in BOOLEAN
  /\ s2 = [s EXCEPT !.fire = Append(@, fireHit), !.smoke = Append(@, smokeHit),
                    !.looks = looks, !.newer = newer]
  /\ b \in BOOLEAN /\ (b <=> r2.fire >= 2)
  /\ c \in BOOLEAN /\ (c <=> smokeHit /\ Scene!SmokeConfirmed(r2))
  /\ v2 = [v EXCEPT !.fire = b, !.smoke = c]

LEMMA FireLook ==
  ASSUME NEW r, NEW s, NEW v, NEW fireHit, NEW smokeHit, NEW r2, NEW looks, NEW newer, NEW s2,
         NEW b, NEW c, NEW v2,
         FirePassed(r, s, v, fireHit, smokeHit, r2, looks, newer, s2, b, c, v2)
  PROVE  History(r2, s2, v2)
<1>z. /\ History(r, s, v) /\ fireHit \in BOOLEAN /\ smokeHit \in BOOLEAN
      /\ r2 = Scene!FireSmoke(r, fireHit, smokeHit)
      /\ looks \in Seq(LookType) /\ newer \in BOOLEAN
      /\ s2 = [s EXCEPT !.fire = Append(@, fireHit), !.smoke = Append(@, smokeHit),
                        !.looks = looks, !.newer = newer]
      /\ b \in BOOLEAN /\ (b <=> r2.fire >= 2)
      /\ c \in BOOLEAN /\ (c <=> smokeHit /\ Scene!SmokeConfirmed(r2))
      /\ v2 = [v EXCEPT !.fire = b, !.smoke = c]
  BY DEF FirePassed
<1> USE <1>z
<1>1. r \in RulesType /\ s \in SeenType /\ v \in VerdictType /\ Windows(r, s, v)
  BY DEF History
<1>2. s.fire \in Seq(BOOLEAN) /\ s.smoke \in Seq(BOOLEAN)
  BY <1>1 DEF SeenType
<1>3. PICK fire \in Seq(BOOLEAN), smoke \in Seq(BOOLEAN) :
        fire = Append(s.fire, fireHit) /\ smoke = Append(s.smoke, smokeHit)
  <2>1. Append(s.fire, fireHit) \in Seq(BOOLEAN) /\ Append(s.smoke, smokeHit) \in Seq(BOOLEAN)
    BY <1>2, AppendProperties
  <2>2. QED BY <2>1
<1>4. s2 = [s EXCEPT !.fire = fire, !.smoke = smoke, !.looks = looks, !.newer = newer]
  BY <1>3
<1>5. /\ s2.black = s.black /\ s2.fire = fire /\ s2.smoke = smoke /\ s2.looks = looks
      /\ s2.newer = newer /\ s2.zone = s.zone /\ s2.gap = s.gap /\ s2.flow = s.flow
      /\ s2 \in SeenType
  BY <1>1, <1>4 DEF SeenType
<1>6. PICK k \in Nat : k = r2.fire
  <2>1. r2.fire = IF fireHit THEN Scene!Min({r.fire + 1, 2}) ELSE 0
    BY <1>1 DEF RulesType, Scene!FireSmoke
  <2>2. PICK p \in Int, q \in Int : p = r.fire + 1 /\ q = 2
    BY <1>1 DEF RulesType
  <2>3. r.fire \in 0 .. 2
    BY <1>1 DEF RulesType
  <2>4. Scene!Min({p, q}) = IF p <= q THEN p ELSE q
    BY <2>2, MinMax
  <2>5. Scene!Min({r.fire + 1, 2}) \in Nat
    BY <2>2, <2>3, <2>4
  <2>6. QED BY <2>1, <2>5
<1>7. Streak(k, fire, 2) /\ k \in 0 .. 2
  <2>1. fireHit = FALSE => k = 0
    BY <1>1, <1>6 DEF RulesType, Scene!FireSmoke
  <2>2. fireHit = TRUE => k = Scene!Min({r.fire + 1, 2})
    BY <1>1, <1>6 DEF RulesType, Scene!FireSmoke
  <2>3. r.fire \in 0 .. 2 /\ Streak(r.fire, s.fire, 2)
    BY <1>1 DEF RulesType, Windows
  <2>4. PICK m \in Nat \ {0} : m = 2
    OBVIOUS
  <2>5. Streak(k, Append(s.fire, fireHit), m) /\ k \in 0 .. m
    <3>1. r.fire \in 0 .. m /\ Streak(r.fire, s.fire, m)
      BY <2>3, <2>4
    <3>2. fireHit = TRUE => k = Scene!Min({r.fire + 1, m})
      BY <2>2, <2>4
    <3>3. QED BY <1>2, <2>1, <3>1, <3>2, StreakGrows
  <2>6. QED BY <1>3, <2>4, <2>5
<1>8. PICK window \in Seq(BOOLEAN) : window = Scene!LastOf(smoke, 5)
  <2>1. PICK n \in Nat \ {0} : n = 5
    OBVIOUS
  <2>2. Scene!LastOf(smoke, n) \in Seq(BOOLEAN)
    BY LastOfIs
  <2>3. QED BY <2>1, <2>2
<1>9. r2.smoke = window
  <2>1. r2.smoke = Scene!LastOf(Append(r.smoke, smokeHit), 5)
    BY <1>1 DEF RulesType, Scene!FireSmoke
  <2>2. r.smoke = Scene!LastOf(s.smoke, 5)
    BY <1>1 DEF Windows
  <2>3. PICK n \in Nat \ {0} : n = 5
    OBVIOUS
  <2>4. Scene!LastOf(Append(Scene!LastOf(s.smoke, n), smokeHit), n) =
          Scene!LastOf(Append(s.smoke, smokeHit), n)
    BY <1>2, LastOfAppend
  <2>5. QED BY <1>3, <1>8, <2>1, <2>2, <2>3, <2>4
<1>10. /\ r2.black = r.black /\ r2.inside = r.inside /\ r2.unseen = r.unseen
       /\ r2.tracks = r.tracks /\ r2.flowDay = r.flowDay
  BY <1>1 DEF RulesType, Scene!FireSmoke
<1>11. r2 \in RulesType
  <2>1. r2 = [r EXCEPT !.fire = k, !.smoke = window]
    <3>1. r2 = [r EXCEPT !.fire = r2.fire, !.smoke = r2.smoke]
      BY <1>1 DEF RulesType, Scene!FireSmoke
    <3>2. QED BY <1>6, <1>9, <3>1
  <2>2. QED BY <1>1, <1>7, <2>1 DEF RulesType
<1>12. /\ v2.black = v.black /\ v2.intruders = v.intruders /\ v2.entered = v.entered
       /\ v2 \in VerdictType /\ v2.fire = b /\ v2.smoke = c
  BY <1>1 DEF VerdictType
<1>13. b <=> k = 2
  BY <1>6, <1>7
<1>14. Scene!LastAll(smoke, 1) <=> smokeHit
  <2>1. PICK n \in Nat \ {0} : n = 1
    OBVIOUS
  <2>2. Scene!LastAll(smoke, n) <=> Len(smoke) >= n /\ \A i \in Len(smoke) - n + 1 .. Len(smoke) : smoke[i]
    BY LastAllIs
  <2>3. /\ Len(smoke) \in Nat /\ Len(smoke) >= 1 /\ smoke[Len(smoke)] = smokeHit
    BY <1>2, <1>3, AppendProperties
  <2>4. Len(smoke) - n + 1 .. Len(smoke) = {Len(smoke)}
    BY <2>1, <2>3
  <2>5. QED BY <2>1, <2>2, <2>3, <2>4
<1>15. Windows(r2, s2, v2)
  <2>1. Streak(r2.black, s2.black, 3) /\ (v2.black <=> r2.black = 3)
    BY <1>1, <1>5, <1>10, <1>12 DEF Windows
  <2>2. Streak(r2.fire, s2.fire, 2) /\ (v2.fire <=> r2.fire = 2)
    BY <1>5, <1>6, <1>7, <1>12, <1>13
  <2>3. r2.smoke = Scene!LastOf(s2.smoke, 5)
    BY <1>5, <1>8, <1>9
  <2>4. v2.smoke <=> Scene!LastAll(s2.smoke, 1) /\ Scene!SmokeConfirmed(r2)
    BY <1>5, <1>12, <1>14
  <2>5. QED BY <2>1, <2>2, <2>3, <2>4 DEF Windows
<1>16. Zones(r2, s2, v2) /\ Flows(r2, s2, v2)
  BY <1>5, <1>10, <1>12 DEF History, Zones, Flows
<1>17. QED BY <1>5, <1>11, <1>12, <1>15, <1>16 DEF History

\* A frame arrives, or none for long
LEMMA TimePasses ==
  ASSUME Scene!SceneRulesAssumption, NEW r, NEW s, NEW v, History(r, s, v), NEW by \in Nat,
         NEW r2, r2 = [r EXCEPT !.unseen = [t \in Track |-> IF @[t] = Scene!Never THEN Scene!Never
                                                            ELSE Scene!Later(@[t], by)]],
         NEW newer \in BOOLEAN,
         NEW s2, s2 = [s EXCEPT !.gap = Scene!Later(@, by), !.newer = newer]
  PROVE  History(r2, s2, v)
<1>1. r \in RulesType /\ s \in SeenType /\ v \in VerdictType
  BY DEF History
<1>2. Second \in Nat \ {0}
  BY DEF Scene!SceneRulesAssumption
<1>3. ASSUME NEW x \in 0 .. Second
      PROVE  /\ Scene!Later(x, by) \in 0 .. Second
             /\ x + by <= Second => Scene!Later(x, by) = x + by
             /\ x + by > Second => Scene!Later(x, by) = Second
  <2>1. PICK p \in Int, q \in Int : p = x + by /\ q = Second
    BY <1>2
  <2>2. Scene!Min({p, q}) = IF p <= q THEN p ELSE q
    BY MinMax
  <2>3. Scene!Later(x, by) = IF p <= q THEN p ELSE q
    BY <2>1, <2>2 DEF Scene!Later
  <2>4. QED BY <1>2, <1>3, <2>1, <2>3
<1>4. r.unseen \in [Track -> {-1} \cup 0 .. Second] /\ s.gap \in 0 .. Second
  BY <1>1 DEF RulesType, SeenType
<1> DEFINE ages == [t \in Track |-> IF r.unseen[t] = -1 THEN -1 ELSE Scene!Later(r.unseen[t], by)]
<1>5. ages \in [Track -> {-1} \cup 0 .. Second]
  <2>1. ASSUME NEW t \in Track, r.unseen[t] # -1 PROVE Scene!Later(r.unseen[t], by) \in 0 .. Second
    <3>1. r.unseen[t] \in 0 .. Second
      BY <1>4, <2>1
    <3>2. QED BY <1>3, <3>1
  <2>2. QED BY <2>1
<1>6. ASSUME NEW t \in Track, r.unseen[t] # -1
      PROVE  /\ r.unseen[t] + by <= Second => ages[t] = r.unseen[t] + by
             /\ r.unseen[t] + by > Second => ages[t] = Second
  <2>1. r.unseen[t] \in 0 .. Second
    BY <1>4, <1>6
  <2>2. QED BY <1>3, <1>6, <2>1
<1>7. r2 = [r EXCEPT !.unseen = ages]
  BY <1>1 DEF RulesType, Scene!Never
<1> HIDE DEF ages
<1>8. /\ r2 \in RulesType /\ r2.black = r.black /\ r2.fire = r.fire /\ r2.smoke = r.smoke
      /\ r2.inside = r.inside /\ r2.unseen = ages /\ r2.tracks = r.tracks
  BY <1>1, <1>5, <1>7 DEF RulesType
<1>9. PICK later \in 0 .. Second : later = Scene!Later(s.gap, by)
  BY <1>3, <1>4
<1>10. /\ s2 \in SeenType /\ s2.black = s.black /\ s2.fire = s.fire /\ s2.smoke = s.smoke
       /\ s2.zone = s.zone /\ s2.gap = later /\ s2.flow = s.flow
  BY <1>1, <1>9 DEF SeenType
<1>11. ZoneGood(r.inside, ages, s.zone, later)
  <2>1. /\ s.zone \in Seq(ZonePass) /\ r.inside \in SUBSET Track
        /\ ZoneGood(r.inside, r.unseen, s.zone, s.gap)
    BY <1>1 DEF History, Zones, SeenType, RulesType
  <2>2. /\ s.gap + by <= Second => later = s.gap + by
        /\ s.gap + by > Second => later = Second
    BY <1>3, <1>4, <1>9
  <2>3. /\ \A t \in Track : r.unseen[t] # -1 /\ r.unseen[t] + by <= Second => ages[t] = r.unseen[t] + by
        /\ \A t \in Track : r.unseen[t] # -1 /\ r.unseen[t] + by > Second => ages[t] = Second
    BY <1>6
  <2>4. QED BY <1>2, <1>4, <1>5, <2>1, <2>2, <2>3, ZoneAges
<1>12. Zones(r2, s2, v)
  BY <1>8, <1>10, <1>11 DEF History, Zones
<1>13. Windows(r2, s2, v) /\ Flows(r2, s2, v)
  BY <1>8, <1>10 DEF History, Windows, Flows, Scene!SmokeConfirmed
<1>14. QED BY <1>1, <1>8, <1>10, <1>12, <1>13 DEF History

\* flow_update
LEMMA FlowLook ==
  ASSUME Scene!SceneRulesAssumption, day \in {0, 1}, NEW r, NEW s, NEW v, History(r, s, v),
         NEW present \in SUBSET Track, NEW within \in SUBSET present, NEW recovering \in BOOLEAN,
         NEW new \in BOOLEAN, new <=> recovering \/ r.flowDay # day,
         NEW e, e = [new |-> new, present |-> present, within |-> within],
         NEW r2, r2 = Scene!Flow(r, present, within, recovering),
         NEW s2, s2 = [s EXCEPT !.flow = Append(@, e)],
         NEW v2, v2 = [v EXCEPT !.entered = Scene!Entered(r, within, recovering)]
  PROVE  History(r2, s2, v2)
<1>1. /\ r \in RulesType /\ s \in SeenType /\ v \in VerdictType
      /\ FlowGood(r.tracks, s.flow) /\ s.flow \in Seq(FlowPass)
      /\ r.tracks \in [Track -> TrackState]
  BY DEF History, Flows, RulesType, SeenType
<1>2. LostCycles \in Nat \ {0}
  BY DEF Scene!SceneRulesAssumption
<1>3. e \in FlowPass /\ e.new = new /\ e.present = present /\ e.within = within
  BY DEF FlowPass
<1> DEFINE kept == [t \in Track |-> IF new THEN Scene!Unknown ELSE r.tracks[t]]
           next == [t \in Track |-> Scene!AfterSight(kept[t], t \in present, t \in within)]
<1>4. Scene!Kept(r, recovering) = kept
  <2>1. CASE new
    BY <2>1 DEF Scene!Kept
  <2>2. CASE ~new
    BY <1>1, <2>2 DEF Scene!Kept
  <2>3. QED BY <2>1, <2>2
<1>5. Scene!Unknown \in TrackState /\ Scene!Unknown.missing = -1 /\ Scene!Unknown.counted = FALSE
  BY <1>2 DEF Scene!Unknown, Scene!Never, TrackState
<1>6. \A t \in Track : r.tracks[t].missing = -1 => ~r.tracks[t].counted
  BY <1>1 DEF FlowGood
<1>7. ASSUME NEW t \in Track
      PROVE  /\ kept[t] \in TrackState
             /\ kept[t] = Scene!Unknown <=> kept[t].missing = -1
             /\ kept[t].counted <=> ~new /\ r.tracks[t].counted
             /\ kept[t].missing = -1 <=> new \/ r.tracks[t].missing = -1
             /\ ~new => kept[t] = r.tracks[t]
  <2>1. CASE new
    BY <1>5, <2>1
  <2>2. CASE ~new
    <3>1. r.tracks[t] \in TrackState /\ (r.tracks[t].missing = -1 => ~r.tracks[t].counted)
      BY <1>1, <1>6
    <3>2. kept[t] = r.tracks[t]
      BY <2>2
    <3>3. r.tracks[t].missing = -1 => r.tracks[t] = Scene!Unknown
      BY <3>1 DEF TrackState, Scene!Unknown, Scene!Never
    <3>4. QED BY <1>5, <2>2, <3>1, <3>2, <3>3
  <2>3. QED BY <2>1, <2>2
<1> HIDE DEF kept
<1>8. ASSUME NEW t \in present
      PROVE  next[t] \in TrackState /\ next[t].missing = 0
             /\ (next[t].counted <=> (~e.new /\ r.tracks[t].counted) \/ t \in e.within)
  <2>1. t \in Track
    OBVIOUS
  <2> DEFINE b == kept[t].counted \/ t \in within
  <2>2. b \in BOOLEAN /\ (b <=> (~e.new /\ r.tracks[t].counted) \/ t \in e.within)
    BY <1>3, <1>7, <2>1
  <2>3. next[t] = [counted |-> b, missing |-> 0]
    BY <2>1 DEF Scene!AfterSight
  <2> HIDE DEF b
  <2>4. QED BY <1>2, <2>2, <2>3 DEF TrackState
<1>9. ASSUME NEW t \in Track \ present
      PROVE  /\ next[t] \in TrackState
             /\ e.new \/ r.tracks[t].missing = -1 \/ r.tracks[t].missing + 1 >= LostCycles
                => next[t].missing = -1 /\ ~next[t].counted
             /\ ~(e.new \/ r.tracks[t].missing = -1 \/ r.tracks[t].missing + 1 >= LostCycles)
                => next[t].missing = r.tracks[t].missing + 1 /\ next[t].counted = r.tracks[t].counted
  <2>1. next[t] = IF kept[t] = Scene!Unknown \/ kept[t].missing + 1 >= LostCycles THEN Scene!Unknown
                  ELSE [kept[t] EXCEPT !.missing = @ + 1]
    BY DEF Scene!AfterSight
  <2>2. CASE new \/ r.tracks[t].missing = -1
    <3>1. next[t] = Scene!Unknown
      BY <1>7, <2>1, <2>2
    <3>2. QED BY <1>3, <1>5, <2>2, <3>1
  <2>3. CASE ~(new \/ r.tracks[t].missing = -1)
    <3>1. /\ kept[t] = r.tracks[t] /\ kept[t] # Scene!Unknown /\ r.tracks[t] \in TrackState
      BY <1>1, <1>7, <2>3
    <3>2. CASE r.tracks[t].missing + 1 >= LostCycles
      <4>1. next[t] = Scene!Unknown
        BY <2>1, <3>1, <3>2
      <4>2. QED BY <1>3, <1>5, <2>3, <3>2, <4>1
    <3>3. CASE ~(r.tracks[t].missing + 1 >= LostCycles)
      <4>1. next[t] = [r.tracks[t] EXCEPT !.missing = @ + 1]
        BY <2>1, <3>1, <3>3
      <4>2. QED BY <1>2, <1>3, <2>3, <3>1, <3>3, <4>1 DEF TrackState
    <3>4. QED BY <3>2, <3>3
  <2>4. QED BY <2>2, <2>3
<1>10. next \in [Track -> TrackState]
  BY <1>8, <1>9
<1> HIDE DEF next
<1>11. /\ FlowGood(next, Append(s.flow, e))
       /\ FlowFirst(Append(s.flow, e)) = {t \in within : ~(~new /\ r.tracks[t].counted)}
  <2> DEFINE gates == s.flow
             tracks == r.tracks
  <2>1. gates \in Seq(FlowPass) /\ tracks \in [Track -> TrackState] /\ FlowGood(tracks, gates)
        /\ e.within \subseteq e.present /\ e \in FlowPass
    BY <1>1, <1>3
  <2>2. /\ \A t \in e.present : next[t].missing = 0
        /\ \A t \in e.present : next[t].counted <=> (~e.new /\ tracks[t].counted) \/ t \in e.within
    BY <1>3, <1>8
  <2>3. /\ \A t \in Track \ e.present :
             e.new \/ tracks[t].missing = -1 \/ tracks[t].missing + 1 >= LostCycles
             => next[t].missing = -1 /\ ~next[t].counted
        /\ \A t \in Track \ e.present :
             ~(e.new \/ tracks[t].missing = -1 \/ tracks[t].missing + 1 >= LostCycles)
             => next[t].missing = tracks[t].missing + 1 /\ next[t].counted = tracks[t].counted
    BY <1>3, <1>9
  <2> HIDE DEF gates, tracks
  <2>4. /\ FlowGood(next, Append(gates, e))
        /\ FlowFirst(Append(gates, e)) = {t \in e.within : ~(~e.new /\ tracks[t].counted)}
    BY <1>2, <1>10, <2>1, <2>2, <2>3, FlowShown
  <2>5. QED BY <1>3, <2>4 DEF gates, tracks
<1>12. Scene!Entered(r, within, recovering) = Cardinality(FlowFirst(Append(s.flow, e)))
  <2>1. {t \in within : ~Scene!Kept(r, recovering)[t].counted}
          = {t \in within : ~(~new /\ r.tracks[t].counted)}
    <3>1. ASSUME NEW t \in within PROVE kept[t].counted <=> ~new /\ r.tracks[t].counted
      BY <1>7
    <3>2. QED BY <1>4, <3>1
  <2>2. QED BY <1>11, <2>1, SceneCardinality DEF Scene!Entered
<1>13. r2 = [r EXCEPT !.flowDay = day, !.tracks = next]
  <2>1. \A t \in Track : Scene!Kept(r, recovering)[t] = kept[t]
    BY <1>4
  <2>2. [t \in Track |-> Scene!AfterSight(Scene!Kept(r, recovering)[t], t \in present, t \in within)]
          = next
    BY <1>4, Zenon DEF next
  <2>3. QED BY <2>2 DEF Scene!Flow
<1>14. /\ r2 \in RulesType /\ r2.black = r.black /\ r2.fire = r.fire /\ r2.smoke = r.smoke
       /\ r2.inside = r.inside /\ r2.unseen = r.unseen /\ r2.tracks = next
  BY <1>1, <1>10, <1>13 DEF RulesType
<1>15. PICK gates \in Seq(FlowPass) : gates = Append(s.flow, e)
  <2>1. Append(s.flow, e) \in Seq(FlowPass)
    BY <1>1, <1>3, AppendProperties
  <2>2. QED BY <2>1
<1>16. /\ s2 \in SeenType /\ s2.black = s.black /\ s2.fire = s.fire /\ s2.smoke = s.smoke
       /\ s2.zone = s.zone /\ s2.gap = s.gap /\ s2.flow = gates
       /\ s2.looks = s.looks /\ s2.newer = s.newer
  BY <1>1, <1>15 DEF SeenType
<1>17. PICK amount \in Amount : amount = Scene!Entered(r, within, recovering)
  <2>1. FlowFirst(Append(s.flow, e)) \in SUBSET Track
    BY <1>11
  <2>2. QED BY <1>12, <2>1 DEF Amount
<1>18. /\ v2 \in VerdictType /\ v2.black = v.black /\ v2.fire = v.fire /\ v2.smoke = v.smoke
       /\ v2.intruders = v.intruders /\ v2.entered = amount
  BY <1>1, <1>17 DEF VerdictType
<1>19. Flows(r2, s2, v2)
  BY <1>11, <1>12, <1>14, <1>15, <1>16, <1>17, <1>18 DEF Flows
<1>20. Windows(r2, s2, v2) /\ Zones(r2, s2, v2)
  BY <1>14, <1>16, <1>18 DEF History, Windows, Zones, Scene!SmokeConfirmed
<1>21. QED BY <1>14, <1>16, <1>18, <1>19, <1>20 DEF History

\* intrusion_update, and the end of its schedule
ZonePassed(r, s, v, current, quiet, at, e, r2, s2, intruders, v2) ==
  /\ History(r, s, v) /\ current \in SUBSET Track /\ quiet \in BOOLEAN /\ (quiet => current = {})
  /\ at \in Nat /\ (s.zone = <<>> => at = s.gap)
  /\ s.zone # <<>> => at = s.zone[Len(s.zone)].at + s.gap
  /\ e = [new |-> quiet, at |-> at, within |-> current]
  /\ quiet => r2 = Scene!ResetIntrusion(r)
  /\ ~quiet => r2 = Scene!Intrusion(r, current)
  /\ s2 = [s EXCEPT !.zone = Append(@, e), !.gap = 0]
  /\ intruders \in SUBSET Track /\ (quiet => intruders = {})
  /\ ~quiet => intruders = Scene!Intruders(r, current)
  /\ v2 = [v EXCEPT !.intruders = intruders]

LEMMA ZoneLook ==
  ASSUME Scene!SceneRulesAssumption, NEW r, NEW s, NEW v, NEW current, NEW quiet, NEW at, NEW e,
         NEW r2, NEW s2, NEW intruders, NEW v2,
         ZonePassed(r, s, v, current, quiet, at, e, r2, s2, intruders, v2)
  PROVE  History(r2, s2, v2)
<1>z. /\ History(r, s, v) /\ current \in SUBSET Track /\ quiet \in BOOLEAN /\ (quiet => current = {})
      /\ at \in Nat /\ (s.zone = <<>> => at = s.gap)
      /\ s.zone # <<>> => at = s.zone[Len(s.zone)].at + s.gap
      /\ e = [new |-> quiet, at |-> at, within |-> current]
      /\ quiet => r2 = Scene!ResetIntrusion(r)
      /\ ~quiet => r2 = Scene!Intrusion(r, current)
      /\ s2 = [s EXCEPT !.zone = Append(@, e), !.gap = 0]
      /\ intruders \in SUBSET Track /\ (quiet => intruders = {})
      /\ ~quiet => intruders = Scene!Intruders(r, current)
      /\ v2 = [v EXCEPT !.intruders = intruders]
  BY DEF ZonePassed
<1> USE <1>z
<1>1. /\ r \in RulesType /\ s \in SeenType /\ v \in VerdictType
      /\ ZoneGood(r.inside, r.unseen, s.zone, s.gap) /\ s.zone \in Seq(ZonePass)
      /\ r.inside \in SUBSET Track /\ r.unseen \in [Track -> {-1} \cup 0 .. Second]
      /\ s.gap \in 0 .. Second
  BY DEF History, Zones, RulesType, SeenType
<1>2. Second \in Nat \ {0}
  BY DEF Scene!SceneRulesAssumption
<1>3. e \in ZonePass /\ e.new = quiet /\ e.at = at /\ e.within = current
  BY DEF ZonePass
<1>4. PICK zone \in Seq(ZonePass) : zone = Append(s.zone, e)
  <2>1. Append(s.zone, e) \in Seq(ZonePass)
    BY <1>1, <1>3, AppendProperties
  <2>2. QED BY <2>1
<1>5. PICK inside \in SUBSET Track, unseen \in [Track -> {-1} \cup 0 .. Second] :
        /\ r2 = [r EXCEPT !.inside = inside, !.unseen = unseen]
        /\ ZoneGood(inside, unseen, zone, 0) /\ ZoneFirst(zone) = intruders
  <2>1. CASE quiet
    <3> DEFINE unseen == [t \in Track |-> -1]
    <3>1. r2 = [r EXCEPT !.inside = {}, !.unseen = unseen]
      BY <2>1 DEF Scene!ResetIntrusion, Scene!Never
    <3>2. unseen \in [Track -> {-1} \cup 0 .. Second]
      OBVIOUS
    <3> HIDE DEF unseen
    <3>3. e.new = TRUE /\ e.within = {}
      BY <1>3, <2>1
    <3>4. PICK z \in Seq(ZonePass), gap \in 0 .. Second, i \in SUBSET Track, u \in [Track -> {-1} \cup 0 .. Second] :
            z = s.zone /\ gap = s.gap /\ i = r.inside /\ u = r.unseen
      BY <1>1
    <3>5. ZoneGood(i, u, z, gap) /\ Dated(z, gap, e.at)
      BY <1>1, <1>3, <3>4 DEF Dated
    <3>6. ZoneGood({}, unseen, Append(z, e), 0) /\ ZoneFirst(Append(z, e)) = {}
      BY <1>2, <1>3, <3>3, <3>4, <3>5, ZoneQuiet
    <3>7. QED BY <1>4, <2>1, <3>1, <3>2, <3>4, <3>6
  <2>2. CASE ~quiet
    <3> DEFINE gone == {t \in r.inside \ current : r.unseen[t] >= Second}
               inside == (r.inside \ gone) \cup current
               unseen == [t \in Track |-> IF t \in current THEN 0 ELSE r.unseen[t]]
    <3>1. r2 = [r EXCEPT !.inside = inside, !.unseen = unseen]
      BY <2>2, <1>1 DEF Scene!Intrusion, Scene!Gone, RulesType
    <3>2. /\ inside \in SUBSET Track /\ unseen \in [Track -> {-1} \cup 0 .. Second]
          /\ (\A t \in current : unseen[t] = 0)
          /\ (\A t \in Track \ current : unseen[t] = r.unseen[t])
      BY <1>1, <1>2
    <3>3. intruders = current \ (r.inside \ gone)
      BY <2>2 DEF Scene!Intruders, Scene!Gone
    <3> HIDE DEF unseen
    <3>4. PICK z \in Seq(ZonePass), gap \in 0 .. Second, i \in SUBSET Track, u \in [Track -> {-1} \cup 0 .. Second] :
            z = s.zone /\ gap = s.gap /\ i = r.inside /\ u = r.unseen
      BY <1>1
    <3>5. ZoneGood(i, u, z, gap) /\ Dated(z, gap, e.at)
      BY <1>1, <1>3, <3>4 DEF Dated
    <3>6. e.new = FALSE
      BY <1>3, <2>2
    <3>7. gone = Forgotten(i, u, e.within)
      BY <1>3, <3>4 DEF Forgotten
    <3>8. Renewed(unseen, u, e.within) /\ inside = (i \ Forgotten(i, u, e.within)) \cup e.within
      BY <1>3, <3>2, <3>4, <3>7 DEF Renewed
    <3> HIDE DEF inside, gone
    <3>9. /\ ZoneGood(inside, unseen, Append(z, e), 0)
          /\ ZoneFirst(Append(z, e)) = Newcomers(i, u, e.within)
      <4>1. e \in ZonePass /\ unseen \in [Track -> {-1} \cup 0 .. Second]
        BY <1>3, <3>2
      <4>2. ZoneShow(z, i, u, gap, e, unseen)
        BY <1>2, <3>4, <3>5, <3>6, <3>8, <4>1 DEF ZoneShow
      <4>3. ZoneFollows(z, i, u, e, unseen)
        BY <4>2, ZoneShown
      <4>4. QED BY <3>8, <4>3 DEF ZoneFollows
    <3>10. ZoneFirst(Append(z, e)) = intruders
      BY <1>3, <3>3, <3>4, <3>7, <3>9 DEF Newcomers
    <3>11. QED BY <1>4, <3>1, <3>2, <3>4, <3>9, <3>10
  <2>3. QED BY <2>1, <2>2
<1>6. /\ r2 \in RulesType /\ r2.black = r.black /\ r2.fire = r.fire /\ r2.smoke = r.smoke
      /\ r2.inside = inside /\ r2.unseen = unseen /\ r2.tracks = r.tracks
  BY <1>1, <1>5 DEF RulesType
<1>7. /\ s2 \in SeenType /\ s2.black = s.black /\ s2.fire = s.fire /\ s2.smoke = s.smoke
      /\ s2.zone = zone /\ s2.gap = 0 /\ s2.flow = s.flow
      /\ s2.looks = s.looks /\ s2.newer = s.newer
  <2>1. s2 = [s EXCEPT !.zone = zone, !.gap = 0] /\ 0 \in 0 .. Second
    BY <1>2, <1>4
  <2>2. QED BY <1>1, <2>1 DEF SeenType
<1>8. /\ v2 \in VerdictType /\ v2.black = v.black /\ v2.fire = v.fire /\ v2.smoke = v.smoke
      /\ v2.intruders = intruders /\ v2.entered = v.entered
  BY <1>1 DEF VerdictType
<1>9. Zones(r2, s2, v2)
  BY <1>5, <1>6, <1>7, <1>8 DEF Zones
<1>10. Windows(r2, s2, v2) /\ Flows(r2, s2, v2)
  BY <1>6, <1>7, <1>8 DEF History, Windows, Flows, Scene!SmokeConfirmed
<1>11. QED BY <1>6, <1>7, <1>8, <1>9, <1>10 DEF History

-----------------------------------------------------------------------------
(* The invariant *)

PassType ==
  [at : {"capturing", "detecting", "burning"}, forced : BOOLEAN, modes : SUBSET Scene!Mode,
   version : Nat, recovering : BOOLEAN, newer : BOOLEAN, again : BOOLEAN, orphan : BOOLEAN]
World ==
  /\ modes \in Config /\ active \subseteq Scene!Mode /\ version \in Nat /\ stale \in BOOLEAN
  /\ day \in {0, 1} /\ fresh \subseteq {"analysis", "fire"}
Passes == pass = Scene!NoPass \/ pass \in PassType

\* After a look of the worker no frame waits for its next look but a newer one.
Worker(looks) == looks # <<>> /\ ~looks[Len(looks)].forced
Looks(looks, newer, waiting, p) ==
  /\ looks \in Seq(LookType) /\ Len(looks) <= 2
  /\ Len(looks) = 2 /\ looks[2].again => looks[1].forced \/ looks[2].forced
  /\ Worker(looks) /\ "fire" \in waiting => newer = TRUE
  /\ Worker(looks) /\ p.at = "burning" /\ p.forced = FALSE /\ p.orphan = FALSE => p.again = FALSE

SceneInv ==
  World /\ Passes /\ History(rules, seen, verdict) /\ Looks(seen.looks, seen.newer, fresh, pass)

LEMMA LooksKept ==
  ASSUME NEW looks, NEW newer, NEW f, NEW p, Looks(looks, newer, f, p), NEW f2, f2 \subseteq f,
         NEW p2, p2.at # "burning" \/ p2.forced # FALSE \/ p2.orphan # FALSE
  PROVE  Looks(looks, newer, f2, p2)
BY DEF Looks

LEMMA NewPassTyped ==
  ASSUME Scene!SceneRulesAssumption, World, History(rules, seen, verdict),
         NEW at \in {"capturing", "detecting", "burning"}, NEW forced \in BOOLEAN
  PROVE  /\ Scene!NewPass(at, forced) \in PassType
         /\ Scene!NewPass(at, forced).at = at /\ Scene!NewPass(at, forced).forced = forced
         /\ Scene!NewPass(at, forced).orphan = FALSE
         /\ Scene!NewPass(at, forced).again <=> ~seen.newer
<1>1. seen.newer \in BOOLEAN
  BY DEF History, SeenType
<1>2. modes \in SUBSET Scene!Mode /\ version \in Nat /\ stale \in BOOLEAN
  BY DEF World, Scene!SceneRulesAssumption
<1> DEFINE b == ~seen.newer
<1>3. b \in BOOLEAN
  BY <1>1
<1>4. Scene!NewPass(at, forced) =
        [at |-> at, forced |-> forced, modes |-> modes, version |-> version,
         recovering |-> stale, newer |-> FALSE, again |-> b, orphan |-> FALSE]
  BY DEF Scene!NewPass
<1>5. b <=> ~seen.newer
  OBVIOUS
<1> HIDE DEF b
<1>6. Scene!NewPass(at, forced).again = b
  BY <1>4
<1>7. QED BY <1>2, <1>3, <1>4, <1>5, <1>6 DEF PassType

\* _process up to the detector
LEMMA PassBegins ==
  ASSUME SceneInv, NEW p \in PassType, Scene!Process(p)
  PROVE  /\ History(rules, seen, verdict)' /\ pass' \in PassType /\ pass'.at = "detecting"
         /\ seen'.looks = seen.looks /\ seen'.newer = seen.newer
<1>1. History(rules, seen, verdict)
  BY DEF SceneInv
<1>2. pass' \in PassType /\ pass'.at = "detecting"
  BY DEF Scene!Process, PassType
<1>3. CASE UNCHANGED <<rules, Scene!historyVars>>
  BY <1>1, <1>2, <1>3 DEF Scene!historyVars
<1>4. ASSUME NEW dark \in BOOLEAN, rules' = Scene!Black(rules, dark),
             seen' = [seen EXCEPT !.black = Append(@, dark)],
             verdict' = [verdict EXCEPT !.black = rules'.black >= 3]
      PROVE  History(rules', seen', verdict') /\ seen'.looks = seen.looks /\ seen'.newer = seen.newer
  <2> DEFINE b == rules'.black >= 3
  <2>1. b \in BOOLEAN /\ (b <=> rules'.black >= 3) /\ verdict' = [verdict EXCEPT !.black = b]
    BY <1>4
  <2> HIDE DEF b
  <2>2. History(rules', seen', verdict')
    BY <1>1, <1>4, <2>1, BlackLook
  <2>3. seen'.looks = seen.looks /\ seen'.newer = seen.newer
    BY <1>1, <1>4 DEF History, SeenType
  <2>4. QED BY <2>2, <2>3
<1>5. QED BY <1>2, <1>3, <1>4 DEF Scene!Process

LEMMA ProcessingKeeps ==
  ASSUME Scene!SceneRulesAssumption, SceneInv, Scene!Work \/ Scene!Captured
  PROVE  SceneInv'
<1>1. World /\ Passes /\ History(rules, seen, verdict) /\ Looks(seen.looks, seen.newer, fresh, pass)
  BY DEF SceneInv
<1>2. PICK p \in PassType : Scene!Process(p)
  <2>1. CASE Scene!Work
    <3>1. Scene!NewPass("detecting", FALSE) \in PassType
      BY <1>1, NewPassTyped
    <3>2. QED BY <2>1, <3>1 DEF Scene!Work
  <2>2. CASE Scene!Captured
    <3>1. pass \in PassType
      BY <1>1, <2>2 DEF Scene!Captured, Passes, Scene!NoPass
    <3>2. QED BY <2>2, <3>1 DEF Scene!Captured
  <2>3. QED BY <2>1, <2>2
<1>3. UNCHANGED <<modes, active, version, stale, day, fresh>>
  BY DEF Scene!Work, Scene!Captured, Scene!worldVars
<1>4. /\ History(rules, seen, verdict)' /\ pass' \in PassType /\ pass'.at = "detecting"
      /\ seen'.looks = seen.looks /\ seen'.newer = seen.newer
  BY <1>2, PassBegins
<1>5. Looks(seen'.looks, seen'.newer, fresh', pass')
  BY <1>1, <1>3, <1>4, LooksKept
<1>6. QED BY <1>1, <1>3, <1>4, <1>5 DEF SceneInv, World, Passes

LEMMA BeginningKeeps ==
  ASSUME Scene!SceneRulesAssumption, SceneInv,
         Scene!WorkFire \/ Scene!Manual \/ Scene!CaptureTimesOut
  PROVE  SceneInv'
<1>1. World /\ Passes /\ History(rules, seen, verdict) /\ Looks(seen.looks, seen.newer, fresh, pass)
  BY DEF SceneInv
<1>2. UNCHANGED <<modes, active, version, stale, day, fresh, rules, seen, verdict>>
  BY DEF Scene!WorkFire, Scene!Manual, Scene!CaptureTimesOut, Scene!worldVars, Scene!historyVars
<1>3. Passes' /\ Looks(seen.looks, seen.newer, fresh, pass')
  <2>1. CASE Scene!WorkFire
    <3>1. /\ pass' \in PassType /\ pass'.at = "burning" /\ (pass'.again <=> ~seen.newer)
          /\ "fire" \in fresh /\ pass'.again \in BOOLEAN
      <4>1. pass' = Scene!NewPass("burning", FALSE) /\ "fire" \in fresh
        BY <2>1 DEF Scene!WorkFire
      <4>2. QED BY <1>1, <4>1, NewPassTyped DEF PassType
    <3>2. QED BY <1>1, <3>1 DEF Looks, Passes
  <2>2. CASE Scene!Manual
    <3>1. pass' \in PassType /\ pass'.at = "capturing"
      BY <1>1, <2>2, NewPassTyped DEF Scene!Manual
    <3>2. QED BY <1>1, <3>1, LooksKept DEF Passes
  <2>3. CASE Scene!CaptureTimesOut
    <3>1. pass' = Scene!NoPass /\ pass'.at = "none"
      BY <2>3 DEF Scene!CaptureTimesOut, Scene!NoPass
    <3>2. QED BY <1>1, <3>1, LooksKept DEF Passes
  <2>4. QED BY <2>1, <2>2, <2>3
<1>4. QED BY <1>1, <1>2, <1>3 DEF SceneInv, World

\* The detector has answered: the hall first, then the zone.
LEMMA SeesHall ==
  ASSUME Scene!SceneRulesAssumption, SceneInv, pass \in PassType,
         NEW flow \in BOOLEAN, NEW present \in SUBSET Track, NEW within \in SUBSET present,
         NEW r, flow => r = Scene!Flow(rules, present, within, pass.recovering), ~flow => r = rules,
         NEW gates, ~flow => gates = seen.flow,
         flow => gates = Append(seen.flow, Scene!Gate(pass.recovering, present, within)),
         NEW amount, ~flow => amount = verdict.entered,
         flow => amount = Scene!Entered(rules, within, pass.recovering)
  PROVE  /\ History(r, [seen EXCEPT !.flow = gates], [verdict EXCEPT !.entered = amount])
         /\ r.inside = rules.inside /\ r.unseen = rules.unseen
<1>1. History(rules, seen, verdict) /\ day \in {0, 1} /\ pass.recovering \in BOOLEAN
      /\ rules \in RulesType /\ seen \in SeenType /\ verdict \in VerdictType
  BY DEF SceneInv, World, PassType, History
<1>2. CASE flow
  <2> DEFINE new == pass.recovering \/ rules.flowDay # day
             e == Scene!Gate(pass.recovering, present, within)
  <2>1. e = [new |-> new, present |-> present, within |-> within]
        /\ new \in BOOLEAN /\ (new <=> pass.recovering \/ rules.flowDay # day)
    BY <1>1 DEF Scene!Gate
  <2> HIDE DEF new, e
  <2>2. /\ [seen EXCEPT !.flow = gates] = [seen EXCEPT !.flow = Append(@, e)]
        /\ [verdict EXCEPT !.entered = amount]
             = [verdict EXCEPT !.entered = Scene!Entered(rules, within, pass.recovering)]
    BY <1>2 DEF e
  <2>3. History(r, [seen EXCEPT !.flow = gates], [verdict EXCEPT !.entered = amount])
    BY <1>1, <1>2, <2>1, <2>2, FlowLook
  <2>4. r.inside = rules.inside /\ r.unseen = rules.unseen
    BY <1>1, <1>2 DEF Scene!Flow, RulesType
  <2>5. QED BY <2>3, <2>4
<1>3. CASE ~flow
  <2>1. [seen EXCEPT !.flow = gates] = seen /\ [verdict EXCEPT !.entered = amount] = verdict
    BY <1>1, <1>3 DEF SeenType, VerdictType
  <2>2. QED BY <1>1, <1>3, <2>1
<1>4. QED BY <1>2, <1>3

LEMMA SeesKeeps ==
  ASSUME Scene!SceneRulesAssumption, SceneInv, pass \in PassType,
         NEW flow \in BOOLEAN, NEW present \in SUBSET Track, NEW within \in SUBSET present,
         NEW intrusion \in BOOLEAN, NEW trespassing \in SUBSET Track,
         intrusion => "intrusion" \in active,
         Scene!Sees(flow, intrusion, present, within, trespassing)
  PROVE  /\ History(rules', seen', verdict')
         /\ seen'.looks = seen.looks /\ seen'.newer = seen.newer
<1> DEFINE moved == IF flow THEN Scene!Flow(rules, present, within, pass.recovering) ELSE rules
           quiet == "intrusion" \in pass.modes /\ "intrusion" \notin active
           r == IF intrusion THEN Scene!Intrusion(moved, trespassing)
                ELSE IF quiet THEN Scene!ResetIntrusion(moved) ELSE moved
           gates == IF flow THEN Append(seen.flow, Scene!Gate(pass.recovering, present, within))
                    ELSE seen.flow
           zones == IF intrusion THEN Append(seen.zone, Scene!Zone(FALSE, trespassing))
                    ELSE IF quiet THEN Append(seen.zone, Scene!Zone(TRUE, {})) ELSE seen.zone
           amount == IF flow THEN Scene!Entered(rules, within, pass.recovering) ELSE verdict.entered
           who == IF intrusion THEN Scene!Intruders(rules, trespassing)
                  ELSE IF quiet THEN {} ELSE verdict.intruders
           s1 == [seen EXCEPT !.flow = gates]
           v1 == [verdict EXCEPT !.entered = amount]
           gap == IF zones = seen.zone THEN seen.gap ELSE 0
<1>1. /\ History(rules, seen, verdict) /\ rules \in RulesType /\ seen \in SeenType
      /\ verdict \in VerdictType
  BY DEF SceneInv, History
<1>2. CASE pass.orphan
  <2>1. UNCHANGED <<rules, seen, verdict>>
    BY <1>2 DEF Scene!Sees, Scene!Show
  <2>2. QED BY <1>1, <2>1
<1>3. CASE ~pass.orphan
  <2>1. /\ rules' = r
        /\ seen' = [seen EXCEPT !.flow = gates, !.zone = zones, !.gap = gap]
        /\ verdict' = [verdict EXCEPT !.entered = amount, !.intruders = who]
    <3>1. /\ rules' = r
          /\ seen' = [seen EXCEPT !.flow = gates, !.zone = zones,
                                  !.gap = IF zones = seen.zone THEN @ ELSE 0]
          /\ verdict' = [verdict EXCEPT
               !.entered = IF flow THEN Scene!Entered(rules, within, pass.recovering) ELSE @,
               !.intruders = IF intrusion THEN Scene!Intruders(rules, trespassing)
                             ELSE IF quiet THEN {} ELSE @]
      BY <1>3, Zenon DEF Scene!Sees, Scene!Show
    <3>2. QED BY <3>1
  <2>2. History(moved, s1, v1) /\ moved.inside = rules.inside /\ moved.unseen = rules.unseen
    <3>1. /\ flow => moved = Scene!Flow(rules, present, within, pass.recovering)
          /\ ~flow => moved = rules
          /\ ~flow => gates = seen.flow
          /\ flow => gates = Append(seen.flow, Scene!Gate(pass.recovering, present, within))
          /\ ~flow => amount = verdict.entered
          /\ flow => amount = Scene!Entered(rules, within, pass.recovering)
      OBVIOUS
    <3> HIDE DEF moved, gates, amount
    <3>2. QED BY <3>1, SeesHall
  <2> HIDE DEF moved, gates, amount
  <2>3. /\ s1 \in SeenType /\ v1 \in VerdictType /\ moved \in RulesType
        /\ s1.zone = seen.zone /\ s1.gap = seen.gap
        /\ s1.looks = seen.looks /\ s1.newer = seen.newer
    BY <1>1, <2>2 DEF SeenType, History
  <2>4. seen' = [s1 EXCEPT !.zone = zones, !.gap = gap]
        /\ verdict' = [v1 EXCEPT !.intruders = who]
    BY <1>1, <2>1 DEF SeenType, VerdictType
  <2>5. /\ seen.zone \in Seq(ZonePass) /\ seen.gap \in 0 .. Second
        /\ Second \in Nat /\ Scene!Moment \in Nat
        /\ (seen.zone = <<>> => Scene!Moment = seen.gap)
        /\ (seen.zone # <<>> => Scene!Moment = seen.zone[Len(seen.zone)].at + seen.gap)
    <3>1. seen.zone \in Seq(ZonePass) /\ seen.gap \in 0 .. Second /\ Second \in Nat
      BY <1>1 DEF SeenType, Scene!SceneRulesAssumption
    <3>2. CASE seen.zone = <<>>
      BY <3>1, <3>2 DEF Scene!Moment
    <3>3. CASE seen.zone # <<>>
      <4>1. seen.zone[Len(seen.zone)] \in ZonePass
        BY <3>1, <3>3
      <4>2. seen.zone[Len(seen.zone)].at \in Nat
        BY <4>1 DEF ZonePass
      <4>3. QED BY <3>1, <3>3, <4>2 DEF Scene!Moment
    <3>4. QED BY <3>1, <3>2, <3>3
  <2>6. CASE intrusion \/ quiet
    <3> DEFINE q == quiet /\ ~intrusion
               current == IF intrusion THEN trespassing ELSE {}
               e == Scene!Zone(q, current)
    <3>1. /\ q \in BOOLEAN /\ current \in SUBSET Track /\ (q => current = {})
          /\ e = [new |-> q, at |-> Scene!Moment, within |-> current]
      BY <2>6 DEF Scene!Zone
    <3>2. zones = Append(seen.zone, e) /\ gap = 0
      <4>1. zones = Append(seen.zone, e)
        BY <2>6
      <4>2. Append(seen.zone, e) # seen.zone
        BY <2>5
      <4>3. QED BY <4>1, <4>2
    <3>3. /\ q => rules' = Scene!ResetIntrusion(moved)
          /\ ~q => rules' = Scene!Intrusion(moved, current)
      BY <2>1, <2>6
    <3>4. /\ q => who = {}
          /\ ~q => who = Scene!Intruders(moved, current)
      BY <2>2, <2>6 DEF Scene!Intruders, Scene!Gone
    <3> DEFINE moment == Scene!Moment
    <3>5. /\ moment \in Nat /\ (s1.zone = <<>> => moment = s1.gap)
          /\ (s1.zone # <<>> => moment = s1.zone[Len(s1.zone)].at + s1.gap)
          /\ e = [new |-> q, at |-> moment, within |-> current]
      BY <2>3, <2>5, <3>1
    <3>6. who \in SUBSET Track
      BY <3>1, <3>4 DEF Scene!Intruders
    <3>7. seen' = [s1 EXCEPT !.zone = Append(@, e), !.gap = 0]
      BY <2>3, <2>4, <3>2
    <3> HIDE DEF moment, e, current, q, who, s1, v1, zones, gap
    <3>8. History(rules', seen', verdict')
      <4>1. ZonePassed(moved, s1, v1, current, q, moment, e, rules', seen', who, verdict')
        BY <2>2, <2>4, <3>1, <3>3, <3>4, <3>5, <3>6, <3>7, Zenon DEF ZonePassed
      <4>2. QED BY <4>1, ZoneLook
    <3>9. seen'.looks = seen.looks /\ seen'.newer = seen.newer
      BY <2>3, <2>4 DEF SeenType
    <3>10. QED BY <3>8, <3>9
  <2>7. CASE ~(intrusion \/ quiet)
    <3>1. rules' = moved /\ zones = seen.zone /\ gap = seen.gap /\ who = verdict.intruders
      BY <2>1, <2>7
    <3>2. v1.intruders = verdict.intruders
      BY <1>1 DEF VerdictType
    <3> HIDE DEF s1, v1, zones, gap, who
    <3>3. seen' = s1 /\ verdict' = v1
      BY <2>3, <2>4, <3>1, <3>2 DEF SeenType, VerdictType
    <3>4. QED BY <2>2, <2>3, <3>1, <3>3
  <2>8. QED BY <2>6, <2>7
<1>4. QED BY <1>2, <1>3

LEMMA FinishKeeps ==
  ASSUME SceneInv, pass \in PassType, NEW latest \in BOOLEAN, Scene!Finish(latest),
         History(rules', seen', verdict'),
         seen'.looks = seen.looks, seen'.newer = seen.newer
  PROVE  SceneInv'
<1>1. World /\ History(rules, seen, verdict) /\ Looks(seen.looks, seen.newer, fresh, pass)
  BY DEF SceneInv
<1>2. UNCHANGED <<modes, active, version, stale, day>> /\ fresh' \subseteq fresh
  BY DEF Scene!Finish, Scene!Consumed, Scene!worldVars
<1>3. Passes' /\ (pass'.at # "burning" \/ pass'.forced # FALSE)
  <2>1. CASE pass.forced /\ "fire" \in pass.modes
    <3> DEFINE b == ~seen.newer
    <3>1. b \in BOOLEAN
      OBVIOUS
    <3>2. pass' = [pass EXCEPT !.at = "burning", !.newer = FALSE, !.again = b, !.orphan = FALSE]
      BY <2>1 DEF Scene!Finish
    <3> HIDE DEF b
    <3>3. pass' \in PassType /\ pass'.forced # FALSE
      BY <2>1, <3>1, <3>2 DEF PassType
    <3>4. QED BY <3>3 DEF Passes
  <2>2. CASE ~(pass.forced /\ "fire" \in pass.modes)
    <3>1. pass' = Scene!NoPass /\ pass'.at = "none"
      BY <2>2 DEF Scene!Finish, Scene!NoPass
    <3>2. QED BY <3>1 DEF Passes
  <2>3. QED BY <2>1, <2>2
<1>4. Looks(seen'.looks, seen'.newer, fresh', pass')
  BY <1>1, <1>2, <1>3, LooksKept
<1>5. World'
  BY <1>1, <1>2 DEF World
<1>6. QED BY <1>3, <1>4, <1>5 DEF SceneInv

LEMMA AnsweringKeeps ==
  ASSUME Scene!SceneRulesAssumption, SceneInv, Scene!Detected \/ Scene!Skip
  PROVE  SceneInv'
<1>1. pass \in PassType
  BY DEF SceneInv, Passes, Scene!NoPass, Scene!Detected, Scene!Skip
<1>2. CASE Scene!Detected
  <2> DEFINE flow == pass.modes \cap active \cap {"flow"} # {}
             intrusion == "intrusion" \in pass.modes \cap active
             latest == Scene!Detecting(pass) \/ ~pass.newer
  <2>1. PICK present \in IF flow THEN SUBSET Track ELSE {{}} :
        \E within \in SUBSET present :
        \E trespassing \in IF intrusion THEN SUBSET Track ELSE {{}} :
          Scene!Sees(flow, intrusion, present, within, trespassing)
    BY <1>2 DEF Scene!Detected
  <2>2. PICK within \in SUBSET present, trespassing \in IF intrusion THEN SUBSET Track ELSE {{}} :
          Scene!Sees(flow, intrusion, present, within, trespassing)
    BY <2>1
  <2>3. flow \in BOOLEAN /\ intrusion \in BOOLEAN /\ (intrusion => "intrusion" \in active)
        /\ latest \in BOOLEAN
    BY DEF Scene!Detecting
  <2>4. present \in SUBSET Track /\ within \in SUBSET present /\ trespassing \in SUBSET Track
    BY <2>1, <2>2
  <2>5. Scene!Finish(latest)
    BY <1>2 DEF Scene!Detected
  <2> HIDE DEF flow, intrusion, latest
  <2>6. /\ History(rules', seen', verdict')
        /\ seen'.looks = seen.looks /\ seen'.newer = seen.newer
    BY <1>1, <2>2, <2>3, <2>4, SeesKeeps
  <2>7. QED BY <1>1, <2>3, <2>5, <2>6, FinishKeeps
<1>3. CASE Scene!Skip
  <2>1. History(rules', seen', verdict') /\ seen'.looks = seen.looks /\ seen'.newer = seen.newer
    BY <1>3 DEF Scene!Skip, Scene!historyVars, SceneInv
  <2> DEFINE latest == ~pass.newer
  <2>2. latest \in BOOLEAN /\ Scene!Finish(latest)
    BY <1>3 DEF Scene!Skip
  <2> HIDE DEF latest
  <2>3. QED BY <1>1, <2>1, <2>2, FinishKeeps
<1>4. QED BY <1>2, <1>3

LEMMA FailingKeeps ==
  ASSUME SceneInv, Scene!DetectionFails \/ Scene!BurningFails
  PROVE  SceneInv'
<1>1. World /\ History(rules, seen, verdict) /\ Looks(seen.looks, seen.newer, fresh, pass)
  BY DEF SceneInv
<1>2. /\ UNCHANGED <<modes, active, version, stale, day, rules, seen, verdict>>
      /\ fresh' \subseteq fresh /\ pass' = Scene!NoPass
  BY DEF Scene!DetectionFails, Scene!BurningFails, Scene!BurntFrame, Scene!Consumed,
         Scene!worldVars, Scene!historyVars
<1>3. pass'.at = "none"
  BY <1>2 DEF Scene!NoPass
<1>4. Looks(seen.looks, seen.newer, fresh', pass')
  BY <1>1, <1>2, <1>3, LooksKept
<1>5. QED BY <1>1, <1>2, <1>4 DEF SceneInv, World, Passes

\* A look for fire: what the worker has seen is no longer new to it.
LookAdded(looks, newer, waiting, p, look, next, left, p2) ==
  /\ p \in PassType /\ Looks(looks, newer, waiting, p) /\ p.at = "burning" /\ p.orphan = FALSE
  /\ look = [again |-> p.again, forced |-> p.forced]
  /\ next = Scene!LastOf(Append(looks, look), 2)
  /\ left \subseteq waiting /\ (p.forced = FALSE /\ p.newer = FALSE => "fire" \notin left)
  /\ p2.at = "none"

LEMMA TwoAtMost ==
  ASSUME NEW n \in Nat, NEW h \in Nat, n <= 2, n + 1 <= 2 => h = n + 1, n + 1 > 2 => h = 2
  PROVE  (h = 1 /\ n = 0) \/ (h = 2 /\ n > 0)
<1>1. n = 0 \/ n = 1 \/ n = 2
  OBVIOUS
<1>2. QED BY <1>1

LEMMA LooksGrow ==
  ASSUME NEW looks, NEW newer, NEW waiting, NEW p, NEW look, NEW next, NEW left, NEW p2,
         LookAdded(looks, newer, waiting, p, look, next, left, p2)
  PROVE  Looks(next, p.newer, left, p2)
<1>z. /\ p \in PassType /\ Looks(looks, newer, waiting, p) /\ p.at = "burning" /\ p.orphan = FALSE
      /\ look = [again |-> p.again, forced |-> p.forced]
      /\ next = Scene!LastOf(Append(looks, look), 2)
      /\ left \subseteq waiting /\ (p.forced = FALSE /\ p.newer = FALSE => "fire" \notin left)
      /\ p2.at = "none"
  BY DEF LookAdded
<1>1. look \in LookType /\ looks \in Seq(LookType) /\ p.newer \in BOOLEAN
  BY <1>z DEF LookType, PassType, Looks
<1> DEFINE a == Append(looks, look)
           n == Len(looks)
<1>2. /\ a \in Seq(LookType) /\ n \in Nat /\ Len(a) = n + 1 /\ a[n + 1] = look
      /\ \A i \in 1 .. n : a[i] = looks[i]
  BY <1>1
<1>3. n <= 2 /\ (n = 0 <=> looks = <<>>)
  BY <1>1, <1>z DEF Looks
<1> HIDE DEF a, n
<1>4. PICK two \in Nat \ {0} : two = 2
  OBVIOUS
<1>5. /\ next \in Seq(LookType)
      /\ Len(a) <= two => Len(next) = Len(a)
      /\ Len(a) > two => Len(next) = two
      /\ \A i \in 1 .. Len(next) : next[i] = a[Len(a) - Len(next) + i]
  <2>1. next = Scene!LastOf(a, two)
    BY <1>4, <1>z DEF a
  <2>2. QED BY <1>2, <2>1, LastOfIs
<1>6. /\ (Len(next) = 1 /\ n = 0) \/ (Len(next) = 2 /\ n > 0)
      /\ Len(next) \in Nat /\ n \in Nat /\ Len(a) = n + 1
  <2>1. n \in Nat /\ n <= 2 /\ Len(a) = n + 1 /\ Len(next) \in Nat
    BY <1>2, <1>3, <1>5
  <2>2. (n + 1 <= 2 => Len(next) = n + 1) /\ (n + 1 > 2 => Len(next) = 2)
    BY <1>4, <1>5, <2>1
  <2>3. QED BY <2>1, <2>2, TwoAtMost
<1>7. next[Len(next)] = look
  <2>1. Len(next) \in 1 .. Len(next) /\ Len(a) - Len(next) + Len(next) = n + 1
    BY <1>2, <1>6
  <2>2. QED BY <1>2, <1>5, <2>1
<1>8. n > 0 => next[1] = looks[n]
  <2>1. CASE n > 0
    <3>1. Len(next) = 2 /\ 1 \in 1 .. Len(next)
      BY <1>6, <2>1
    <3>2. n \in Nat /\ Len(a) = n + 1
      BY <1>6
    <3>3. n + 1 - Len(next) + 1 = n /\ n \in 1 .. n
      BY <2>1, <3>1, <3>2
    <3>4. next[1] = a[n]
      BY <1>5, <3>1, <3>2, <3>3
    <3>5. QED BY <1>2, <3>3, <3>4
  <2>2. QED BY <2>1
<1>9. look.again = p.again /\ look.forced = p.forced
  BY <1>z
<1>10. Len(next) = 2 /\ next[2].again => next[1].forced \/ next[2].forced
  <2>1. CASE Len(next) = 2 /\ p.again /\ ~p.forced
    <3>1. n > 0 /\ looks # <<>> /\ next[1] = looks[n]
      BY <1>3, <1>6, <1>8, <2>1
    <3>2. p.again \in BOOLEAN /\ p.forced \in BOOLEAN
      BY <1>z DEF PassType
    <3>3. ~Worker(looks)
      BY <1>z, <2>1, <3>2 DEF Looks
    <3>4. looks[n].forced
      BY <3>1, <3>3 DEF Worker, n
    <3>5. QED BY <3>1, <3>4
  <2>2. CASE ~(Len(next) = 2 /\ p.again /\ ~p.forced)
    BY <1>7, <1>9, <2>2
  <2>3. QED BY <2>1, <2>2
<1>11. Worker(next) => ~p.forced
  BY <1>7, <1>9 DEF Worker
<1>12. Worker(next) /\ "fire" \in left => p.newer = TRUE
  <2>1. p.forced \in BOOLEAN
    BY <1>z DEF PassType
  <2>2. QED BY <1>1, <1>11, <1>z, <2>1
<1>13. QED BY <1>5, <1>6, <1>10, <1>12, <1>z DEF Looks

LEMMA BurningKeeps ==
  ASSUME SceneInv, Scene!Burnt
  PROVE  SceneInv'
<1>1. /\ World /\ History(rules, seen, verdict) /\ Looks(seen.looks, seen.newer, fresh, pass)
      /\ rules \in RulesType /\ seen \in SeenType /\ verdict \in VerdictType
  BY DEF SceneInv, History
<1>2. /\ UNCHANGED <<modes, active, version, stale, day>> /\ pass.at = "burning"
      /\ pass' = Scene!NoPass /\ fresh' = Scene!Consumed("fire", ~pass.newer)
  BY DEF Scene!Burnt, Scene!BurntFrame, Scene!worldVars
<1>3. pass \in PassType
  BY <1>2 DEF SceneInv, Passes, Scene!NoPass
<1>4. pass'.at = "none" /\ Passes'
  BY <1>2 DEF Scene!NoPass, Passes
<1>5. /\ fresh' \subseteq fresh
      /\ pass.forced = FALSE /\ pass.newer = FALSE => "fire" \notin fresh'
  BY <1>2 DEF Scene!Consumed
<1>6. PICK fireHit \in BOOLEAN, smokeHit \in BOOLEAN :
        LET r == Scene!FireSmoke(rules, fireHit, smokeHit)
        IN  Scene!Show(r,
              [seen EXCEPT !.fire = Append(@, fireHit), !.smoke = Append(@, smokeHit),
                           !.looks = Scene!LastOf(Append(@, Scene!Look), 2), !.newer = pass.newer],
              [verdict EXCEPT !.fire = r.fire >= 2,
                              !.smoke = smokeHit /\ Scene!SmokeConfirmed(r)])
  BY DEF Scene!Burnt
<1>7. CASE pass.orphan
  <2>1. UNCHANGED <<rules, seen, verdict>>
    BY <1>6, <1>7 DEF Scene!Show
  <2>2. Looks(seen.looks, seen.newer, fresh', pass')
    BY <1>1, <1>4, <1>5, LooksKept
  <2>3. QED BY <1>1, <1>2, <1>4, <1>5, <2>1, <2>2 DEF SceneInv, World
<1>8. CASE ~pass.orphan
  <2> DEFINE r == Scene!FireSmoke(rules, fireHit, smokeHit)
             b == r.fire >= 2
             c == smokeHit /\ Scene!SmokeConfirmed(r)
             looks == Scene!LastOf(Append(seen.looks, Scene!Look), 2)
  <2>1. /\ rules' = r
        /\ seen' = [seen EXCEPT !.fire = Append(@, fireHit), !.smoke = Append(@, smokeHit),
                                !.looks = looks, !.newer = pass.newer]
        /\ verdict' = [verdict EXCEPT !.fire = b, !.smoke = c]
    BY <1>6, <1>8 DEF Scene!Show
  <2>2. /\ b \in BOOLEAN /\ (b <=> r.fire >= 2)
        /\ c \in BOOLEAN /\ (c <=> smokeHit /\ Scene!SmokeConfirmed(r))
    OBVIOUS
  <2>3. /\ Scene!Look = [again |-> pass.again, forced |-> pass.forced]
        /\ pass.newer \in BOOLEAN /\ pass.orphan = FALSE
    BY <1>3, <1>8 DEF Scene!Look, PassType
  <2> HIDE DEF looks, b, c
  <2>4. Looks(looks, pass.newer, fresh', pass')
    <3>1. looks = Scene!LastOf(Append(seen.looks, Scene!Look), 2)
      BY DEF looks
    <3>2. LookAdded(seen.looks, seen.newer, fresh, pass, Scene!Look, looks, fresh', pass')
      BY <1>1, <1>2, <1>3, <1>4, <1>5, <2>3, <3>1, Zenon DEF LookAdded
    <3>3. QED BY <3>2, LooksGrow
  <2>5. looks \in Seq(LookType)
    BY <2>4 DEF Looks
  <2> HIDE DEF r
  <2>6. History(rules', seen', verdict')
    <3>1. r = Scene!FireSmoke(rules, fireHit, smokeHit)
      BY DEF r
    <3>2. FirePassed(rules, seen, verdict, fireHit, smokeHit, rules', looks, pass.newer, seen',
                     b, c, verdict')
      BY <1>1, <1>6, <2>1, <2>2, <2>3, <2>5, <3>1, Zenon DEF FirePassed
    <3>3. QED BY <3>2, FireLook
  <2>7. seen'.looks = looks /\ seen'.newer = pass.newer
    BY <1>1, <2>1 DEF SeenType
  <2>8. World'
    BY <1>1, <1>2, <1>5 DEF World
  <2>9. QED BY <1>4, <2>4, <2>6, <2>7, <2>8 DEF SceneInv
<1>9. QED BY <1>7, <1>8

\* Time passes for the rules, with or without a frame.
LEMMA AgingKeeps ==
  ASSUME Scene!SceneRulesAssumption, SceneInv, NEW by \in Nat, Scene!Aged(by), stale' \in BOOLEAN
  PROVE  /\ History(rules', seen', verdict)
         /\ seen'.looks = seen.looks /\ (seen'.newer <=> seen.newer \/ ~stale')
<1>1. History(rules, seen, verdict) /\ seen \in SeenType
  BY DEF SceneInv, History
<1> DEFINE newer == seen.newer \/ ~stale'
<1>2. newer \in BOOLEAN
  OBVIOUS
<1>3. /\ rules' = [rules EXCEPT !.unseen =
                     [t \in Track |-> IF @[t] = Scene!Never THEN Scene!Never
                                      ELSE Scene!Later(@[t], by)]]
      /\ seen' = [seen EXCEPT !.gap = Scene!Later(@, by), !.newer = newer]
  BY <1>1 DEF Scene!Aged, SeenType
<1>4. newer <=> seen.newer \/ ~stale'
  OBVIOUS
<1> HIDE DEF newer
<1>5. History(rules', seen', verdict)
  BY <1>1, <1>2, <1>3, TimePasses
<1>6. QED BY <1>1, <1>3, <1>4, <1>5 DEF SeenType

LEMMA FramesKeep ==
  ASSUME Scene!SceneRulesAssumption, SceneInv, Scene!NewFrame \/ Scene!Stall
  PROVE  SceneInv'
<1>1. World /\ Passes /\ Looks(seen.looks, seen.newer, fresh, pass)
  BY DEF SceneInv
<1>2. CASE Scene!NewFrame
  <2>1. stale' = FALSE /\ fresh' = {"analysis", "fire"} /\ Scene!Aged(1)
        /\ UNCHANGED <<modes, active, version, day, verdict>>
    BY <1>2 DEF Scene!NewFrame
  <2>2. History(rules', seen', verdict') /\ seen'.looks = seen.looks /\ seen'.newer
    BY <2>1, AgingKeeps
  <2>3. seen'.newer = TRUE
    BY <2>2 DEF History, SeenType
  <2>4. /\ Passes'
        /\ pass'.at = pass.at
        /\ pass.at = "burning" => /\ pass'.forced = pass.forced /\ pass'.orphan = pass.orphan
                                  /\ pass'.again = pass.again
    <3>1. CASE pass = Scene!NoPass
      BY <1>2, <3>1 DEF Scene!NewFrame, Passes
    <3>2. CASE pass # Scene!NoPass
      BY <1>1, <1>2, <3>2 DEF Scene!NewFrame, Passes, PassType
    <3>3. QED BY <3>1, <3>2
  <2>5. Looks(seen'.looks, seen'.newer, fresh', pass')
    BY <1>1, <2>2, <2>3, <2>4 DEF Looks
  <2>6. World'
    BY <1>1, <2>1 DEF World
  <2>7. QED BY <2>2, <2>4, <2>5, <2>6 DEF SceneInv
<1>3. CASE Scene!Stall
  <2>1. stale' = TRUE /\ Scene!Aged(Second) /\ Second \in Nat
        /\ UNCHANGED <<modes, active, version, day, fresh, pass, verdict>>
    BY <1>3 DEF Scene!Stall, Scene!SceneRulesAssumption
  <2>2. History(rules', seen', verdict') /\ seen'.looks = seen.looks
        /\ (seen'.newer <=> seen.newer)
    BY <2>1, AgingKeeps
  <2>3. seen'.newer = seen.newer
    BY <2>2 DEF SceneInv, History, SeenType
  <2>4. QED BY <1>1, <2>1, <2>2, <2>3 DEF SceneInv, World, Passes
<1>4. QED BY <1>2, <1>3

LEMMA SettingsKeep ==
  ASSUME Scene!SceneRulesAssumption, SceneInv,
         Scene!Midnight \/ Scene!Edit \/ \E m \in Scene!Mode : Scene!Shift(m)
  PROVE  SceneInv'
<1>1. World /\ Passes /\ History(rules, seen, verdict)
      /\ Looks(seen.looks, seen.newer, fresh, pass)
  BY DEF SceneInv
<1>2. CASE Scene!Midnight
  BY <1>1, <1>2 DEF Scene!Midnight, Scene!historyVars, SceneInv, World, Passes
<1>3. CASE \E m \in Scene!Mode : Scene!Shift(m)
  <2>1. active' \subseteq Scene!Mode
        /\ UNCHANGED <<modes, version, stale, day, rules, fresh, pass, seen, verdict>>
    BY <1>1, <1>3 DEF Scene!Shift, Scene!historyVars, Scene!Mode, World
  <2>2. QED BY <1>1, <2>1 DEF SceneInv, World, Passes
<1>4. CASE Scene!Edit
  <2>1. version' = version + 1 /\ version' \in Nat /\ UNCHANGED <<active, stale, day, fresh>>
    BY <1>1, <1>4 DEF Scene!Edit, World
  <2>2. CASE /\ \E ms \in Config : <<modes, ms>> \in Switch /\ modes' = ms
             /\ UNCHANGED <<rules, pass, seen, verdict>>
    BY <1>1, <2>1, <2>2 DEF SceneInv, World, Passes
  <2>3. CASE /\ rules' = Scene!NewRules /\ seen' = Scene!NothingSeen
             /\ verdict' = Scene!NothingSaid
             /\ pass' = IF pass = Scene!NoPass THEN pass ELSE [pass EXCEPT !.orphan = TRUE]
             /\ UNCHANGED modes
    <3>1. History(rules', seen', verdict')
      BY <2>3, HistoryNew
    <3>2. seen'.looks = <<>>
      BY <2>3 DEF Scene!NothingSeen
    <3>3. Looks(seen'.looks, seen'.newer, fresh', pass')
      <4>1. PICK e \in Seq(LookType) : e = <<>> /\ Len(e) = 0
        BY EmptySeq
      <4>2. ~Worker(e)
        BY <4>1 DEF Worker
      <4>3. Looks(e, seen'.newer, fresh', pass')
        BY <4>1, <4>2 DEF Looks
      <4>4. QED BY <3>2, <4>1, <4>3
    <3>4. Passes'
      <4>1. CASE pass = Scene!NoPass
        BY <2>3, <4>1 DEF Passes
      <4>2. CASE pass # Scene!NoPass
        BY <1>1, <2>3, <4>2 DEF Passes, PassType
      <4>3. QED BY <4>1, <4>2
    <3>5. World'
      BY <1>1, <2>1, <2>3 DEF World
    <3>6. QED BY <3>1, <3>3, <3>4, <3>5 DEF SceneInv
  <2>4. QED BY <1>4, <2>2, <2>3 DEF Scene!Edit, Scene!historyVars
<1>5. QED BY <1>2, <1>3, <1>4

LEMMA SceneInit ==
  ASSUME Scene!SceneRulesAssumption, Scene!Init
  PROVE  SceneInv
<1>1. World /\ Passes
  BY DEF Scene!Init, World, Passes
<1>2. History(rules, seen, verdict)
  BY HistoryNew DEF Scene!Init
<1>3. seen.looks = <<>> /\ pass.at = "none"
  BY DEF Scene!Init, Scene!NothingSeen, Scene!NoPass
<1>4. Looks(seen.looks, seen.newer, fresh, pass)
  <2>1. PICK e \in Seq(LookType) : e = <<>> /\ Len(e) = 0
    BY EmptySeq
  <2>2. ~Worker(e)
    BY <2>1 DEF Worker
  <2>3. QED BY <1>3, <2>1, <2>2 DEF Looks
<1>5. QED BY <1>1, <1>2, <1>4 DEF SceneInv

LEMMA SceneStep ==
  ASSUME Scene!SceneRulesAssumption, SceneInv, [Scene!Next]_(Scene!vars)
  PROVE  SceneInv'
<1>1. CASE Scene!Next
  <2>1. CASE Scene!Passing
    BY <2>1, ProcessingKeeps, BeginningKeeps, AnsweringKeeps, FailingKeeps, BurningKeeps
       DEF Scene!Passing
  <2>2. QED BY <1>1, <2>1, FramesKeep, SettingsKeep DEF Scene!Next
<1>2. CASE UNCHANGED Scene!vars
  BY <1>2 DEF Scene!vars, Scene!worldVars, Scene!historyVars, SceneInv, World, Passes
<1>3. QED BY <1>1, <1>2

LEMMA SceneAlways ==
  ASSUME Scene!SceneRulesAssumption
  PROVE  Scene!Spec => []SceneInv
<1>1. Scene!Init => SceneInv
  BY SceneInit
<1>2. SceneInv /\ [Scene!Next]_(Scene!vars) => SceneInv'
  BY SceneStep
<1>3. QED BY <1>1, <1>2, PTL DEF Scene!Spec

\* The rules stay within their bounds whatever passes fail, are asked for, or
\* lose their rule state to an edit, and a fire that the workers alone confirm
\* was in two frames: between two looks of theirs a newer one has arrived.
THEOREM FireInTwoFrames ==
  ASSUME Scene!SceneRulesAssumption
  PROVE  Scene!Spec => []Scene!Consistent
<1>1. ASSUME SceneInv PROVE Scene!Consistent
  <2>1. /\ World /\ Passes /\ rules \in RulesType /\ seen \in SeenType /\ verdict \in VerdictType
        /\ Windows(rules, seen, verdict) /\ ZoneGood(rules.inside, rules.unseen, seen.zone, seen.gap)
        /\ FlowGood(rules.tracks, seen.flow) /\ Looks(seen.looks, seen.newer, fresh, pass)
    BY <1>1 DEF SceneInv, History, Zones, Flows
  <2>2. modes \in Config /\ active \subseteq Scene!Mode /\ fresh \subseteq {"analysis", "fire"}
    BY <2>1 DEF World
  <2>3. rules.black \in 0 .. 3 /\ rules.fire \in 0 .. 2 /\ rules.smoke \in Seq(BOOLEAN)
    BY <2>1 DEF RulesType
  <2>4. Len(rules.smoke) <= 5
    <3>1. PICK n \in Nat \ {0} : n = 5
      OBVIOUS
    <3>2. seen.smoke \in Seq(BOOLEAN) /\ rules.smoke = Scene!LastOf(seen.smoke, n)
      BY <2>1, <3>1 DEF SeenType, Windows
    <3>3. Len(rules.smoke) <= n
      BY <3>1, <3>2, LastOfIs
    <3>4. QED BY <3>1, <3>3
  <2>5. \A t \in rules.inside : rules.unseen[t] \in 0 .. Second
    <3>1. TAKE t \in rules.inside
    <3> DEFINE s == seen.zone
    <3>2. s \in Seq(ZonePass) /\ seen.gap \in 0 .. Second /\ t \in Track
          /\ rules.unseen \in [Track -> {-1} \cup 0 .. Second] /\ Second \in Nat \ {0}
      BY <2>1, <3>1 DEF SeenType, RulesType, Scene!SceneRulesAssumption
    <3>3. PICK l \in 1 .. Len(s) : LastSeen(t, l, rules.unseen[t], s, seen.gap)
      BY <2>1, <3>1 DEF ZoneGood
    <3>4. Len(s) \in 1 .. Len(s) /\ l <= Len(s) /\ s[l].at \in Nat /\ s[Len(s)].at \in Nat
      <4>1. Len(s) \in Nat /\ \A i \in 1 .. Len(s) : s[i] \in ZonePass
        BY <3>2
      <4> HIDE DEF s
      <4>2. Len(s) \in 1 .. Len(s) /\ l <= Len(s)
        BY <3>3, <4>1
      <4>3. s[l] \in ZonePass /\ s[Len(s)] \in ZonePass
        BY <3>3, <4>1, <4>2
      <4>4. QED BY <4>2, <4>3 DEF ZonePass
    <3>5. s[l].at <= s[Len(s)].at
      BY <2>1, <3>3, <3>4 DEF ZoneGood
    <3>6. Due(rules.unseen[t], s[Len(s)].at - s[l].at + seen.gap)
      BY <3>3 DEF LastSeen
    <3>7. s[Len(s)].at - s[l].at + seen.gap \in Nat
      BY <3>2, <3>4, <3>5
    <3> HIDE DEF s
    <3>8. PICK d \in Nat : Due(rules.unseen[t], d)
      BY <3>6, <3>7
    <3>9. rules.unseen[t] # -1
      BY <3>2, <3>8 DEF Due
    <3>10. QED BY <3>2, <3>9
  <2>6. \A t \in Track : \/ rules.tracks[t] = Scene!Unknown
                         \/ rules.tracks[t].missing \in 0 .. LostCycles - 1
    <3>1. TAKE t \in Track
    <3>2. rules.tracks[t] \in TrackState
          /\ (rules.tracks[t].missing = -1 => ~rules.tracks[t].counted)
          /\ LostCycles \in Nat \ {0}
      BY <2>1 DEF RulesType, FlowGood, Scene!SceneRulesAssumption
    <3>3. CASE rules.tracks[t].missing = -1
      BY <3>2, <3>3 DEF TrackState, Scene!Unknown, Scene!Never
    <3>4. CASE rules.tracks[t].missing # -1
      BY <3>2, <3>4 DEF TrackState
    <3>5. QED BY <3>3, <3>4
  <2>7. pass.at \in {"none", "capturing", "detecting", "burning"}
    BY <2>1 DEF Passes, PassType, Scene!NoPass
  <2>8. Scene!TypeOK
    BY <2>2, <2>3, <2>4, <2>5, <2>6, <2>7 DEF Scene!TypeOK
  <2>9. Scene!WorkersBurnOnce
    BY <2>1 DEF Scene!WorkersBurnOnce, Scene!Twice, Looks
  <2>10. QED BY <2>8, <2>9 DEF Scene!Consistent
<1>2. SceneInv => Scene!Consistent
  BY <1>1
<1>3. QED BY <1>2, SceneAlways, PTL

\* Whatever passes failed, were skipped, were asked for or lost their state, a
\* black screen means three black looks in a row, fire two hits in a row, smoke
\* a hit now and three among the last five, and an intruder is announced once a
\* visit: the counters of the rules say what the whole history does.
THEOREM AlertsAreConfirmed ==
  ASSUME Scene!SceneRulesAssumption
  PROVE  Scene!Spec => []Scene!ConfirmedByHistory
<1>1. ASSUME SceneInv PROVE Scene!ConfirmedByHistory
  <2>1. /\ rules \in RulesType /\ seen \in SeenType /\ verdict \in VerdictType
        /\ Windows(rules, seen, verdict) /\ verdict.intruders = ZoneFirst(seen.zone)
    BY <1>1 DEF SceneInv, History, Zones
  <2>2. verdict.black = Scene!LastAll(seen.black, 3)
    <3>1. PICK m \in Nat \ {0} : m = 3
      OBVIOUS
    <3>2. seen.black \in Seq(BOOLEAN) /\ rules.black \in 0 .. m /\ Streak(rules.black, seen.black, m)
          /\ (verdict.black <=> rules.black = m) /\ verdict.black \in BOOLEAN
      BY <2>1, <3>1 DEF RulesType, SeenType, VerdictType, Windows
    <3>3. rules.black = m <=> Scene!LastAll(seen.black, m)
      BY <3>2, StreakFull
    <3>4. Scene!LastAll(seen.black, m) \in BOOLEAN
      BY DEF Scene!LastAll
    <3>5. QED BY <3>1, <3>2, <3>3, <3>4
  <2>3. verdict.fire = Scene!LastAll(seen.fire, 2)
    <3>1. PICK m \in Nat \ {0} : m = 2
      OBVIOUS
    <3>2. seen.fire \in Seq(BOOLEAN) /\ rules.fire \in 0 .. m /\ Streak(rules.fire, seen.fire, m)
          /\ (verdict.fire <=> rules.fire = m) /\ verdict.fire \in BOOLEAN
      BY <2>1, <3>1 DEF RulesType, SeenType, VerdictType, Windows
    <3>3. rules.fire = m <=> Scene!LastAll(seen.fire, m)
      BY <3>2, StreakFull
    <3>4. Scene!LastAll(seen.fire, m) \in BOOLEAN
      BY DEF Scene!LastAll
    <3>5. QED BY <3>1, <3>2, <3>3, <3>4
  <2>4. verdict.smoke = (/\ Scene!LastAll(seen.smoke, 1) /\ Len(seen.smoke) >= 5
                         /\ Scene!Hits(Scene!LastOf(seen.smoke, 5)) >= 3)
    <3>1. verdict.smoke \in BOOLEAN /\ seen.smoke \in Seq(BOOLEAN)
          /\ rules.smoke = Scene!LastOf(seen.smoke, 5)
          /\ (verdict.smoke <=> Scene!LastAll(seen.smoke, 1) /\ Scene!SmokeConfirmed(rules))
      BY <2>1 DEF VerdictType, SeenType, Windows
    <3>2. Len(rules.smoke) = 5 <=> Len(seen.smoke) >= 5
      <4>1. PICK n \in Nat \ {0} : n = 5
        OBVIOUS
      <4>2. /\ Len(seen.smoke) \in Nat
            /\ Len(seen.smoke) <= n => Len(rules.smoke) = Len(seen.smoke)
            /\ Len(seen.smoke) > n => Len(rules.smoke) = n
        <5>1. rules.smoke = Scene!LastOf(seen.smoke, n)
          BY <3>1, <4>1
        <5>2. Len(seen.smoke) \in Nat
          BY <3>1
        <5>3. QED BY <3>1, <5>1, <5>2, LastOfIs
      <4>3. Len(rules.smoke) = n <=> Len(seen.smoke) >= n
        BY <4>2
      <4>4. QED BY <4>1, <4>3
    <3>3. Scene!SmokeConfirmed(rules) <=>
            Len(seen.smoke) >= 5 /\ Scene!Hits(Scene!LastOf(seen.smoke, 5)) >= 3
      BY <3>1, <3>2 DEF Scene!SmokeConfirmed
    <3> DEFINE a == Scene!LastAll(seen.smoke, 1)
               b == Len(seen.smoke) >= 5
               c == Scene!Hits(Scene!LastOf(seen.smoke, 5)) >= 3
    <3>4. verdict.smoke \in BOOLEAN /\ (verdict.smoke <=> a /\ b /\ c)
      BY <3>1, <3>3
    <3> HIDE DEF a, b, c
    <3>5. verdict.smoke = (a /\ b /\ c)
      BY <3>4
    <3>6. QED BY <3>5 DEF a, b, c
  <2>5. verdict.intruders = Scene!NewAt(seen.zone, Scene!LeavesZone)
    <3>1. seen.zone \in Seq(ZonePass)
      BY <2>1 DEF SeenType
    <3>2. QED BY <2>1, <3>1, ZoneFirstIs
  <2>6. QED BY <2>2, <2>3, <2>4, <2>5, Zenon DEF Scene!ConfirmedByHistory
<1>2. SceneInv => Scene!ConfirmedByHistory
  BY <1>1
<1>3. QED BY <1>2, SceneAlways, PTL

\* The number that is added to the traffic is the number of visits of the hall
\* that begin, whatever tracks were lost, days began or streams recovered.
THEOREM TrafficIsVisits ==
  ASSUME Scene!SceneRulesAssumption
  PROVE  Scene!Spec => []Scene!VisitsCounted
<1>1. ASSUME SceneInv PROVE Scene!VisitsCounted
  <2>1. seen.flow \in Seq(FlowPass) /\ verdict.entered = Cardinality(FlowFirst(seen.flow))
    BY <1>1 DEF SceneInv, History, Flows, SeenType
  <2>2. Scene!NewAt(seen.flow, Scene!LeavesFlow) = FlowFirst(seen.flow)
    BY <2>1, FlowFirstIs
  <2>3. Scene!Cardinality(FlowFirst(seen.flow)) = Cardinality(FlowFirst(seen.flow))
    BY SceneCardinality
  <2>4. QED BY <2>1, <2>2, <2>3, Zenon DEF Scene!VisitsCounted
<1>2. SceneInv => Scene!VisitsCounted
  BY <1>1
<1>3. QED BY <1>2, SceneAlways, PTL
=============================================================================
