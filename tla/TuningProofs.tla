---------------------------- MODULE TuningProofs ----------------------------
(***************************************************************************)
(* Proofs about Tuning, for every topology and every sequence of calls.    *)
(***************************************************************************)
EXTENDS Tuning, FiniteSetTheorems, WellFoundedInduction, TLAPS

(* A tuning has the fields that Made gives it, whatever they hold.          *)
Shaped(u) ==
  u = [policy |-> u.policy, threshold |-> u.threshold, ring |-> u.ring, rings |-> u.rings,
       channels |-> u.channels, rails |-> u.rails, railOrder |-> u.railOrder, groups |-> u.groups,
       topology |-> u.topology, bandwidth |-> u.bandwidth, latency |-> u.latency,
       transport |-> u.transport, profile |-> u.profile]

(* Two tunings with what a profile is measured with in common.              *)
Alike(u, v) ==
  /\ u.ring = v.ring /\ u.rings = v.rings /\ u.groups = v.groups /\ u.topology = v.topology
  /\ u.bandwidth = v.bandwidth /\ u.latency = v.latency /\ u.rails = v.rails
  /\ u.railOrder = v.railOrder /\ u.transport = v.transport

(* A profile that is valid without the probe is valid with it.              *)
LEMMA ProbeAccepts ==
  ASSUME NEW u, NEW profile, NEW probed \in BOOLEAN, ValidProfile(u, profile, probed)
  PROVE  ValidProfile(u, profile, TRUE)
BY DEF ValidProfile, MeasuredHere

(* What is pinned to a profile keeps its likeness.                          *)
LEMMA PinnedAlike ==
  ASSUME NEW u, NEW v, NEW t, Shaped(u), Shaped(v), Alike(u, v)
  PROVE  Alike([u EXCEPT !.topology = t], [v EXCEPT !.topology = t])
BY DEF Shaped, Alike

(* Tunings that are alike have one order of the rails and one fingerprint.  *)
LEMMA AlikeFingerprint ==
  ASSUME NEW u, NEW v, Alike(u, v)
  PROVE  RailOrder(u) = RailOrder(v) /\ Fingerprint(u) = Fingerprint(v)
BY DEF Alike, RailOrder, Fingerprint

(* Whether a profile is valid is a question of these fields alone.          *)
LEMMA AlikeProfile ==
  ASSUME NEW u, NEW v, NEW profile, NEW probed, Shaped(u), Shaped(v), Alike(u, v),
         ValidProfile(u, profile, probed)
  PROVE  ValidProfile(v, profile, probed)
<1> DEFINE p == [u EXCEPT !.topology = profile.detected]
           q == [v EXCEPT !.topology = profile.detected]
<1>1. Alike(p, q)
  BY PinnedAlike
<1>2. RailOrder(p) = RailOrder(q) /\ Fingerprint(p) = Fingerprint(q)
  BY <1>1, AlikeFingerprint
<1>3. RailOrder(u) = RailOrder(v) /\ Fingerprint(u) = Fingerprint(v)
  BY AlikeFingerprint
<1>4. u.topology = v.topology /\ u.groups = v.groups /\ Len(u.ring) = Len(v.ring)
      /\ u.transport = v.transport
  BY DEF Alike
<1>8. ExecutionFingerprint(Current, u) = ExecutionFingerprint(Current, v)
  BY <1>4 DEF ExecutionFingerprint
<1>5. MeasuredHere(u, profile, probed)
  BY DEF ValidProfile
<1>6. MeasuredHere(v, profile, probed)
  <2> HIDE DEF p, q
  <2>1. CASE profile.fingerprint = Fingerprint(u)
    BY <2>1, <1>3 DEF MeasuredHere
  <2>2. CASE /\ probed
             /\ ProbedTopologyMatches(u.topology, profile.detected)
             /\ RailOrder(u) = RailOrder(p)
             /\ profile.fingerprint = Fingerprint(p)
    <3>1. /\ ProbedTopologyMatches(v.topology, profile.detected)
          /\ RailOrder(v) = RailOrder(q)
          /\ profile.fingerprint = Fingerprint(q)
      BY <2>2, <1>2, <1>3, <1>4
    <3> QED BY <2>2, <3>1 DEF MeasuredHere, q
  <2> QED BY <2>1, <2>2, <1>5 DEF MeasuredHere, p
<1>7. \A e : ValidEntry(u, e) <=> ValidEntry(v, e)
  BY <1>4 DEF ValidEntry
<1> QED BY <1>4, <1>6, <1>7, <1>8 DEF ValidProfile

(* A tuning in use has its fields, and its profile was measured with it.    *)
Fresh(u) ==
  u # Nothing =>
    Shaped(u) /\ (u.profile # Nothing => ValidProfile(u, u.profile, TRUE))

(* A builder that looks at the profile again leaves a fresh one.            *)
LEMMA RevalidatedFresh ==
  ASSUME NEW u, Shaped(u)
  PROVE  Fresh(Revalidated(u))
<1>1. CASE u.profile = Nothing
  BY <1>1 DEF Fresh, Revalidated
<1>2. CASE u.profile # Nothing /\ ValidProfile(u, u.profile, FALSE)
  BY <1>2, ProbeAccepts DEF Fresh, Revalidated
<1>3. CASE u.profile # Nothing /\ ~ValidProfile(u, u.profile, FALSE)
  BY <1>3 DEF Fresh, Revalidated
<1> QED BY <1>1, <1>2, <1>3

(* A profile that was loaded is fresh.                                      *)
LEMMA LoadedFresh ==
  ASSUME NEW u, NEW probed \in BOOLEAN, Shaped(u)
  PROVE  Fresh(Loaded(u, probed))
<1> DEFINE v == [u EXCEPT !.profile = saved]
<1>1. Shaped(v) /\ Alike(u, v) /\ v.profile = saved
  BY DEF Shaped, Alike
<1>2. CASE ValidProfile(u, saved, probed)
  <2>1. ValidProfile(v, saved, TRUE)
    BY <1>1, <1>2, ProbeAccepts, AlikeProfile
  <2> HIDE DEF v
  <2>2. Fresh(v)
    BY <2>1, <1>1 DEF Fresh
  <2> QED BY <2>2, <1>2 DEF Loaded, v
<1>3. CASE ~ValidProfile(u, saved, probed)
  BY <1>3 DEF Loaded, Fresh
<1> QED BY <1>2, <1>3

(* A tuning that is made has its fields and no profile.                     *)
LEMMA MadeShaped ==
  ASSUME NEW policy, NEW ring
  PROVE  Shaped(Made(policy, ring)) /\ Made(policy, ring).profile = Nothing
BY DEF Shaped, Made

(* Inferring the groups changes the groups only.                            *)
LEMMA InferredGroups ==
  ASSUME NEW u, NEW bytes, Inferred(u, bytes) # Nothing
  PROVE  \E groups : Inferred(u, bytes) = [u EXCEPT !.groups = groups]
BY DEF Inferred, Better

(* A builder either fails, or changes a tuning that keeps its ring and is   *)
(* fresh, with the profile it had or the stored one.                        *)
LEMMA BuilderStep ==
  ASSUME Fresh(tuning), tuning # Nothing, tuning' # Nothing, Next, tuning' # tuning
  PROVE  /\ tuning'.ring = tuning.ring /\ Fresh(tuning)'
         /\ tuning'.profile \in {tuning.profile, saved}
<1>0. Shaped(tuning)
  BY DEF Fresh
<1> SUFFICES ASSUME tuning # Nothing, tuning' # Nothing, tuning' # tuning
             PROVE  /\ tuning'.ring = tuning.ring /\ Fresh(tuning')
                    /\ tuning'.profile \in {tuning.profile, saved}
  BY DEF Fresh
<1>r. ASSUME NEW v, Shaped(v), v.ring = tuning.ring, v.profile = tuning.profile, tuning' = Revalidated(v)
      PROVE  /\ tuning'.ring = tuning.ring /\ Fresh(tuning')
             /\ tuning'.profile \in {tuning.profile, saved}
  BY <1>r, RevalidatedFresh DEF Revalidated
<1>1. CASE EnterLink \/ EnterRailLink \/ EnterAggregateLink
  BY <1>1 DEF EnterLink, EnterRailLink, EnterAggregateLink, Enter
<1>2. CASE FromTopology \/ FromEnvironment
  BY <1>2 DEF FromTopology, FromEnvironment
<1>3. CASE WithDirectTransport
  <2>0. PICK d \in scene.directs :
          tuning' = IF d.bandwidth # 0
                      THEN Revalidated([tuning EXCEPT !.bandwidth = d.bandwidth, !.latency = d.latency])
                      ELSE Nothing
    BY <1>3, Zenon DEF WithDirectTransport, Build
  <2>1. tuning' = Revalidated([tuning EXCEPT !.bandwidth = d.bandwidth, !.latency = d.latency])
    BY <2>0, Zenon
  <2>2. PICK v : v = [tuning EXCEPT !.bandwidth = d.bandwidth, !.latency = d.latency]
    OBVIOUS
  <2>3. Shaped(v) /\ v.ring = tuning.ring /\ v.profile = tuning.profile
    BY <1>0, <2>2 DEF Shaped
  <2> QED BY <2>1, <2>2, <2>3, <1>r
<1>4. CASE WithTransport
  <2>1. PICK d \in scene.transports :
          tuning' = Revalidated([tuning EXCEPT !.transport = d])
    BY <1>4 DEF WithTransport, Build
  <2>2. PICK v : v = [tuning EXCEPT !.transport = d]
    OBVIOUS
  <2>3. Shaped(v) /\ v.ring = tuning.ring /\ v.profile = tuning.profile
    BY <1>0, <2>2 DEF Shaped
  <2> QED BY <2>1, <2>2, <2>3, <1>r
<1>5. CASE WithHierarchy
  <2>1. PICK d \in scene.groups : tuning' = Revalidated([tuning EXCEPT !.groups = d])
    BY <1>5 DEF WithHierarchy, Build
  <2>2. PICK v : v = [tuning EXCEPT !.groups = d]
    OBVIOUS
  <2>3. Shaped(v) /\ v.ring = tuning.ring /\ v.profile = tuning.profile
    BY <1>0, <2>2 DEF Shaped
  <2> QED BY <2>1, <2>2, <2>3, <1>r
<1>6. CASE WithInferredHierarchy
  <2>1. PICK bytes \in Payloads : \E u \in {Inferred(tuning, bytes)} : Build(IF u = Nothing THEN Nothing ELSE Revalidated(u))
    BY <1>6 DEF WithInferredHierarchy
  <2>2. PICK v : v = Inferred(tuning, bytes)
    OBVIOUS
  <2>3. v # Nothing /\ tuning' = Revalidated(v)
    BY <2>1, <2>2 DEF Build
  <2>4. PICK groups : v = [tuning EXCEPT !.groups = groups]
    BY <2>2, <2>3, InferredGroups
  <2>5. Shaped(v) /\ v.ring = tuning.ring /\ v.profile = tuning.profile
    BY <1>0, <2>4 DEF Shaped
  <2> QED BY <2>3, <2>5, <1>r
<1>7. CASE WithRingChannels
  <2>1. PICK n \in 1 .. MaxRingChannels + 1 : tuning' = Revalidated([tuning EXCEPT !.channels = n])
    BY <1>7 DEF WithRingChannels, Build
  <2>2. PICK v : v = [tuning EXCEPT !.channels = n]
    OBVIOUS
  <2>3. Shaped(v) /\ v.ring = tuning.ring /\ v.profile = tuning.profile
    BY <1>0, <2>2 DEF Shaped
  <2> QED BY <2>1, <2>2, <2>3, <1>r
<1>8. CASE WithP2pRails
  <2>1. PICK n \in 1 .. MaxP2pRails + 1 : tuning' = Revalidated([tuning EXCEPT !.rails = n])
    BY <1>8 DEF WithP2pRails, Build
  <2>2. PICK v : v = [tuning EXCEPT !.rails = n]
    OBVIOUS
  <2>3. Shaped(v) /\ v.ring = tuning.ring /\ v.profile = tuning.profile
    BY <1>0, <2>2 DEF Shaped
  <2> QED BY <2>1, <2>2, <2>3, <1>r
<1>9. CASE WithRailOrder
  <2>1. PICK order \in scene.railOrders : tuning' = Revalidated([tuning EXCEPT !.railOrder = order])
    BY <1>9 DEF WithRailOrder, Build
  <2>2. PICK v : v = [tuning EXCEPT !.railOrder = order]
    OBVIOUS
  <2>3. Shaped(v) /\ v.ring = tuning.ring /\ v.profile = tuning.profile
    BY <1>0, <2>2 DEF Shaped
  <2> QED BY <2>1, <2>2, <2>3, <1>r
<1>10. CASE WithAutotuneProfile
  <2>1. PICK probed \in BOOLEAN : tuning' = Loaded(tuning, probed)
    BY <1>10 DEF WithAutotuneProfile, Build
  <2>2. Fresh(Loaded(tuning, probed))
    BY <1>0, LoadedFresh
  <2>3. tuning'.ring = tuning.ring /\ tuning'.profile = saved
    BY <2>1, <1>0 DEF Loaded, Shaped
  <2> QED BY <2>1, <2>2, <2>3
<1>11. CASE SaveProfile \/ Restart
  BY <1>11 DEF SaveProfile, Restart
<1> QED BY <1>1, <1>2, <1>3, <1>4, <1>5, <1>6, <1>7, <1>8, <1>9, <1>10, <1>11 DEF Next

(* What the environment makes has the fields of a tuning and no profile.    *)
LEMMA ConfiguredShaped ==
  ASSUME NEW e, NEW made, Shaped(made), made.profile = Nothing
  PROVE  /\ Shaped(Configured(e, made)) /\ Configured(e, made).profile = Nothing
         /\ Configured(e, made).ring = made.ring /\ Configured(e, made).rings = made.rings
         /\ Configured(e, made).topology = made.topology
         /\ Configured(e, made).channels = e.channels /\ Configured(e, made).rails = e.rails
         /\ Configured(e, made).railOrder = e.railOrder /\ Configured(e, made).groups = e.groups
<1>1. PICK a : a = [made EXCEPT !.policy = e.policy, !.channels = e.channels, !.rails = e.rails]
  OBVIOUS
<1>2. PICK b : b = [a EXCEPT !.railOrder = e.railOrder, !.groups = e.groups]
  OBVIOUS
<1>3. PICK c : c = [b EXCEPT !.bandwidth = e.direct.bandwidth, !.latency = e.direct.latency,
                             !.transport = e.transport]
  OBVIOUS
<1>4. Configured(e, made) = c
  BY <1>1, <1>2, <1>3, Zenon DEF Configured
<1>5. /\ Shaped(a) /\ a.profile = Nothing /\ a.ring = made.ring /\ a.rings = made.rings
      /\ a.topology = made.topology /\ a.channels = e.channels /\ a.rails = e.rails
  BY <1>1 DEF Shaped
<1>6. /\ Shaped(b) /\ b.profile = Nothing /\ b.ring = made.ring /\ b.rings = made.rings
      /\ b.topology = made.topology /\ b.channels = e.channels /\ b.rails = e.rails
      /\ b.railOrder = e.railOrder /\ b.groups = e.groups
  BY <1>2, <1>5 DEF Shaped
<1>7. /\ Shaped(c) /\ c.profile = Nothing /\ c.ring = made.ring /\ c.rings = made.rings
      /\ c.topology = made.topology /\ c.channels = e.channels /\ c.rails = e.rails
      /\ c.railOrder = e.railOrder /\ c.groups = e.groups
  BY <1>3, <1>6 DEF Shaped
<1> QED BY <1>4, <1>7

(* What from_environment does, in the words of the proofs.                  *)
LEMMA EnvironmentStep ==
  ASSUME FromEnvironment
  PROVE  \E order, ring, e, u :
           /\ order \in scene.orders /\ e \in Settings
           /\ ring \in Primaries(order) /\ ValidRingOrder(ring, topology.world) /\ ValidSettings(e)
           /\ u = IF e.inferred # 0 THEN Inferred(Configured(e, Made("Auto", ring)), e.inferred)
                  ELSE Configured(e, Made("Auto", ring))
           /\ tuning' = IF u = Nothing THEN Nothing
                        ELSE IF e.policy = "Hierarchical" /\ u.groups = <<>> THEN Nothing
                        ELSE IF e.profile # "none" THEN Loaded(u, e.profile = "probed") ELSE u
<1>1. PICK order \in scene.orders : \E ring \in Primaries(order) :
        \E made \in {Made("Auto", ring)}, e \in Settings :
          /\ ValidRingOrder(ring, topology.world)
          /\ ValidSettings(e)
          /\ \E u \in {IF e.inferred # 0 THEN Inferred(Configured(e, made), e.inferred)
                        ELSE Configured(e, made)} :
               tuning' = IF u = Nothing THEN Nothing
                         ELSE IF e.policy = "Hierarchical" /\ u.groups = <<>> THEN Nothing
                         ELSE IF e.profile # "none" THEN Loaded(u, e.profile = "probed") ELSE u
  BY Zenon DEF FromEnvironment
<1>2. PICK ring \in Primaries(order) : \E made \in {Made("Auto", ring)}, e \in Settings :
          /\ ValidRingOrder(ring, topology.world)
          /\ ValidSettings(e)
          /\ \E u \in {IF e.inferred # 0 THEN Inferred(Configured(e, made), e.inferred)
                        ELSE Configured(e, made)} :
               tuning' = IF u = Nothing THEN Nothing
                         ELSE IF e.policy = "Hierarchical" /\ u.groups = <<>> THEN Nothing
                         ELSE IF e.profile # "none" THEN Loaded(u, e.profile = "probed") ELSE u
  BY <1>1, Zenon
<1>3. PICK made, e, u :
        /\ made = Made("Auto", ring) /\ e \in Settings
        /\ ValidRingOrder(ring, topology.world) /\ ValidSettings(e)
        /\ u = IF e.inferred # 0 THEN Inferred(Configured(e, made), e.inferred)
               ELSE Configured(e, made)
        /\ tuning' = IF u = Nothing THEN Nothing
                     ELSE IF e.policy = "Hierarchical" /\ u.groups = <<>> THEN Nothing
                     ELSE IF e.profile # "none" THEN Loaded(u, e.profile = "probed") ELSE u
  BY <1>2
<1> QED BY <1>3

(* A tuning that is made from nothing is fresh, and its profile, if it has  *)
(* one, is the stored one.                                                  *)
LEMMA MakingStep ==
  ASSUME tuning = Nothing, Next
  PROVE  Fresh(tuning)' /\ (tuning' # Nothing => tuning'.profile \in {Nothing, saved})
<1> DEFINE Goal == Fresh(tuning') /\ (tuning' # Nothing => tuning'.profile \in {Nothing, saved})
<1> SUFFICES Goal
  BY DEF Fresh
<1>1. CASE FromTopology
  <2>1. PICK policy, ring : tuning' = Made(policy, ring)
    BY <1>1 DEF FromTopology
  <2> QED BY <2>1, MadeShaped DEF Fresh
<1>2. CASE FromEnvironment
  <2>1. PICK ring, e, u :
          /\ u = IF e.inferred # 0 THEN Inferred(Configured(e, Made("Auto", ring)), e.inferred)
                 ELSE Configured(e, Made("Auto", ring))
          /\ tuning' = IF u = Nothing THEN Nothing
                       ELSE IF e.policy = "Hierarchical" /\ u.groups = <<>> THEN Nothing
                       ELSE IF e.profile # "none" THEN Loaded(u, e.profile = "probed") ELSE u
    BY <1>2, EnvironmentStep
  <2>2. PICK made : made = Configured(e, Made("Auto", ring))
    OBVIOUS
  <2>3. Shaped(made) /\ made.profile = Nothing
    BY <2>2, MadeShaped, ConfiguredShaped
  <2>4. ASSUME u # Nothing PROVE Shaped(u) /\ u.profile = Nothing
    <3>1. CASE e.inferred # 0
      <4>1. PICK groups : u = [made EXCEPT !.groups = groups]
        BY <3>1, <2>1, <2>2, <2>4, InferredGroups
      <4> QED BY <4>1, <2>3 DEF Shaped
    <3>2. CASE e.inferred = 0
      BY <3>2, <2>1, <2>2, <2>3
    <3> QED BY <3>1, <3>2
  <2>5. CASE tuning' = Nothing
    BY <2>5 DEF Fresh
  <2>6. CASE u # Nothing /\ tuning' = Loaded(u, e.profile = "probed")
    <3>1. (e.profile = "probed") \in BOOLEAN
      OBVIOUS
    <3>2. Fresh(tuning')
      BY <2>6, <2>4, <3>1, LoadedFresh
    <3>3. tuning' # Nothing => tuning'.profile = saved
      BY <2>6, <2>4 DEF Loaded, Shaped
    <3> QED BY <3>2, <3>3
  <2>7. CASE u # Nothing /\ tuning' = u
    BY <2>7, <2>4 DEF Fresh
  <2> QED BY <2>1, <2>5, <2>6, <2>7
<1>3. CASE tuning' = tuning
  BY <1>3 DEF Fresh
<1>4. CASE EnterLink \/ EnterRailLink \/ EnterAggregateLink \/ SaveProfile
  BY <1>4, <1>3 DEF EnterLink, EnterRailLink, EnterAggregateLink, Enter, SaveProfile
<1> QED BY <1>1, <1>2, <1>4 DEF Next, Build, WithDirectTransport, WithTransport, WithHierarchy,
          WithInferredHierarchy, WithRingChannels, WithP2pRails, WithRailOrder, WithAutotuneProfile, Restart

(* A tuning stays fresh, whatever is called.                                *)
LEMMA FreshStep ==
  ASSUME Fresh(tuning), [Next]_vars
  PROVE  Fresh(tuning)'
<1> SUFFICES Fresh(tuning')
  BY DEF Fresh
<1>1. CASE UNCHANGED vars
  BY <1>1 DEF vars
<1>2. CASE Next /\ tuning = Nothing
  BY <1>2, MakingStep DEF Fresh
<1>3. CASE Next /\ tuning # Nothing /\ tuning' # Nothing /\ tuning' # tuning
  BY <1>3, BuilderStep DEF Fresh
<1>4. CASE tuning' = Nothing \/ tuning' = tuning
  BY <1>4 DEF Fresh
<1> QED BY <1>1, <1>2, <1>3, <1>4

(* ProfileFresh for every topology, scenario and sequence of builder calls: *)
(* a profile that plan uses was measured with the topology, rings, groups,  *)
(* rails and transport of the tuning that uses it.                          *)
THEOREM ProfileAlwaysFresh == Spec => []ProfileFresh
<1>1. Init => Fresh(tuning)
  BY DEF Init, Fresh
<1>2. Fresh(tuning) /\ [Next]_vars => Fresh(tuning)'
  BY FreshStep
<1>3. Fresh(tuning) => ProfileFresh
  BY DEF Fresh, ProfileFresh
<1> QED BY <1>1, <1>2, <1>3, PTL DEF Spec

-----------------------------------------------------------------------------
(* Orders.                                                                  *)

(* A set of numbers that is not empty has a smallest element.               *)
LEMMA LeastElement ==
  ASSUME NEW S \in SUBSET Nat, S # {}
  PROVE  \E x \in S : \A y \in S : x <= y
<1> DEFINE R == {ss \in Nat \X Nat : ss[1] < ss[2]}
<1>1. IsWellFoundedOn(R, Nat)
  <2>1. OpToRel(<, Nat) = R
    BY DEF OpToRel
  <2> QED
    BY <2>1, NatLessThanWellFounded
<1>2. PICK x \in S : \A y \in S : ~(<<y, x>> \in R)
  <2> HIDE DEF R
  <2> QED
    BY <1>1, WFMin
<1>3. ASSUME NEW y \in S PROVE x <= y
  <2>1. y \in Nat /\ x \in Nat
    OBVIOUS
  <2>2. ~(y < x)
    BY <1>2, <2>1, Zenon
  <2> QED
    BY <2>1, <2>2
<1> QED
  BY <1>3

(* R puts any two elements of S in an order.                                *)
Orders(R, S) ==
  /\ \A x, y \in S : x = y \/ <<x, y>> \in R \/ <<y, x>> \in R
  /\ \A x, y, z \in S : <<x, y>> \in R /\ <<y, z>> \in R => <<x, z>> \in R

IsFirst(R, T, x) == x \in T /\ \A y \in T : x = y \/ <<x, y>> \in R

(* A finite set that is in order has a first element.                       *)
LEMMA FirstExists ==
  ASSUME NEW S, IsFiniteSet(S), NEW R, Orders(R, S), NEW T \in SUBSET S, T # {}
  PROVE  \E x : IsFirst(R, T, x)
<1> DEFINE Sized(n, U) == U \in SUBSET S /\ U # {} /\ Cardinality(U) = n
           Bad == {n \in Nat : \E U : Sized(n, U) /\ ~ \E x : IsFirst(R, U, x)}
<1>1. Bad = {}
  <2> SUFFICES ASSUME Bad # {} PROVE FALSE
    OBVIOUS
  <2>1. PICK n \in Bad : \A y \in Bad : n <= y
    <3>1. Bad \in SUBSET Nat
      OBVIOUS
    <3> HIDE DEF Bad
    <3> QED BY <3>1, LeastElement
  <2>2. PICK U : Sized(n, U) /\ ~ \E x : IsFirst(R, U, x)
    OBVIOUS
  <2>3. PICK z \in U : TRUE
    BY <2>2
  <2>4. IsFiniteSet(U)
    BY <2>2, FS_Subset
  <2>5. IsFiniteSet(U \ {z}) /\ Cardinality(U \ {z}) = n - 1 /\ n \in Nat /\ Cardinality(U \ {z}) \in Nat
    <3>1. IsFiniteSet(U \ {z}) /\ Cardinality(U \ {z}) = Cardinality(U) - 1
      BY <2>3, <2>4, FS_RemoveElement
    <3> QED BY <3>1, <2>2, FS_CardinalityType
  <2>6. U \ {z} # {}
    <3> SUFFICES ASSUME U = {z} PROVE FALSE
      BY <2>3
    <3>1. IsFirst(R, U, z)
      BY DEF IsFirst
    <3> QED BY <3>1, <2>2
  <2>7. PICK x : IsFirst(R, U \ {z}, x)
    <3>1. n - 1 \notin Bad
      BY <2>1, <2>5
    <3>2. Sized(n - 1, U \ {z})
      BY <2>2, <2>5, <2>6
    <3> QED BY <3>1, <3>2, <2>5
  <2>8. x \in S /\ z \in S /\ U \subseteq S
    BY <2>2, <2>3, <2>7 DEF IsFirst
  <2>9. CASE <<z, x>> \in R
    <3>1. IsFirst(R, U, z)
      BY <2>3, <2>7, <2>8, <2>9 DEF IsFirst, Orders
    <3> QED BY <3>1, <2>2
  <2>10. CASE ~(<<z, x>> \in R)
    <3>1. IsFirst(R, U, x)
      BY <2>3, <2>7, <2>8, <2>10 DEF IsFirst, Orders
    <3> QED BY <3>1, <2>2
  <2> QED BY <2>9, <2>10
<1>2. IsFiniteSet(T)
  BY FS_Subset
<1>3. Cardinality(T) \in Nat
  BY <1>2, FS_CardinalityType
<1> QED BY <1>1, <1>3

InOrderOf(R, o, n) == \A i, j \in 1 .. n : i < j => <<o[i], o[j]>> \in R

(* It can be put in a sequence.                                             *)
LEMMA SortedExists ==
  ASSUME NEW S, IsFiniteSet(S), NEW R, Orders(R, S)
  PROVE  \E o \in [1 .. Cardinality(S) -> S] : InOrderOf(R, o, Cardinality(S))
<1> DEFINE Sorted(n, U) == \E o \in [1 .. n -> U] : InOrderOf(R, o, n)
           Bad == {n \in Nat : \E U \in SUBSET S : Cardinality(U) = n /\ ~Sorted(n, U)}
<1>1. Bad = {}
  <2> SUFFICES ASSUME Bad # {} PROVE FALSE
    OBVIOUS
  <2>1. PICK n \in Bad : \A y \in Bad : n <= y
    <3>1. Bad \in SUBSET Nat
      OBVIOUS
    <3> HIDE DEF Bad
    <3> QED BY <3>1, LeastElement
  <2>2. PICK U \in SUBSET S : Cardinality(U) = n /\ ~Sorted(n, U)
    OBVIOUS
  <2>3. IsFiniteSet(U) /\ n \in Nat
    BY <2>2, FS_Subset
  <2>4. n # 0
    <3> SUFFICES ASSUME n = 0 PROVE Sorted(n, U)
      BY <2>2
    <3>1. [i \in 1 .. 0 |-> 0] \in [1 .. 0 -> U] /\ 1 .. 0 = {}
      OBVIOUS
    <3> QED BY <3>1 DEF InOrderOf
  <2>5. U # {}
    BY <2>2, <2>4, FS_EmptySet
  <2>6. PICK x : IsFirst(R, U, x)
    BY <2>5, FirstExists
  <2>7. x \in U /\ Cardinality(U \ {x}) = n - 1 /\ n - 1 \in Nat /\ U \ {x} \in SUBSET S
    <3>1. x \in U
      BY <2>6 DEF IsFirst
    <3>2. Cardinality(U \ {x}) = Cardinality(U) - 1
      BY <3>1, <2>3, FS_RemoveElement
    <3>3. n - 1 \in Nat
      BY <2>3, <2>4
    <3> QED BY <3>1, <3>2, <3>3, <2>2
  <2>8. Sorted(n - 1, U \ {x})
    BY <2>1, <2>7
  <2>9. PICK p \in [1 .. n - 1 -> U \ {x}] : InOrderOf(R, p, n - 1)
    BY <2>8
  <2> DEFINE o == [i \in 1 .. n |-> IF i = 1 THEN x ELSE p[i - 1]]
  <2>10. o \in [1 .. n -> U]
    BY <2>7, <2>9
  <2>11. ASSUME NEW i \in 1 .. n, NEW j \in 1 .. n, i < j PROVE <<o[i], o[j]>> \in R
    <3>1. j - 1 \in 1 .. n - 1 /\ o[j] = p[j - 1] /\ p[j - 1] \in U \ {x}
      BY <2>9, <2>11
    <3>2. CASE i = 1
      BY <3>1, <3>2, <2>6 DEF IsFirst
    <3>3. CASE i # 1
      <4>1. i - 1 \in 1 .. n - 1 /\ o[i] = p[i - 1] /\ i - 1 < j - 1
        BY <3>3, <2>11
      <4> QED BY <4>1, <3>1, <2>9 DEF InOrderOf
    <3> QED BY <3>2, <3>3
  <2>12. Sorted(n, U)
    BY <2>10, <2>11 DEF InOrderOf
  <2> QED BY <2>12, <2>2
<1>2. Cardinality(S) \in Nat /\ S \in SUBSET S
  BY FS_CardinalityType
<1> QED BY <1>1, <1>2

(* Words of integers of one length.                                         *)
Words(n) == [1 .. n -> Int]

(* LexLess orders them.                                                     *)
LEMMA LexTotal ==
  ASSUME NEW n \in Nat, NEW a \in Words(n), NEW b \in Words(n), a # b
  PROVE  LexLess(a, b) \/ LexLess(b, a)
<1> DEFINE D == {i \in 1 .. n : a[i] # b[i]}
<1>1. D # {}
  BY DEF Words
<1>2. PICK i \in D : \A j \in D : i <= j
  <2>1. D \in SUBSET Nat
    OBVIOUS
  <2> HIDE DEF D
  <2> QED BY <1>1, <2>1, LeastElement
<1>3. i \in 1 .. n /\ a[i] # b[i] /\ a[i] \in Int /\ b[i] \in Int
      /\ DOMAIN a = 1 .. n /\ DOMAIN b = 1 .. n
  BY DEF Words
<1>4. \A j \in 1 .. i - 1 : j \in 1 .. n /\ a[j] = b[j]
  <2> SUFFICES ASSUME NEW j \in 1 .. i - 1 PROVE j \in 1 .. n /\ a[j] = b[j]
    OBVIOUS
  <2>1. j \in 1 .. n /\ ~(i <= j)
    BY <1>3
  <2> QED BY <2>1, <1>2
<1> HIDE DEF D
<1>5. CASE a[i] < b[i]
  BY <1>3, <1>4, <1>5 DEF LexLess
<1>6. CASE b[i] < a[i]
  BY <1>3, <1>4, <1>6 DEF LexLess
<1> QED BY <1>3, <1>5, <1>6

(* The order of words is transitive.                                        *)
LEMMA LexTransitive ==
  ASSUME NEW n \in Nat, NEW a \in Words(n), NEW b \in Words(n), NEW c \in Words(n),
         LexLess(a, b), LexLess(b, c)
  PROVE  LexLess(a, c)
<1>1. DOMAIN a = 1 .. n /\ DOMAIN b = 1 .. n /\ DOMAIN c = 1 .. n
      /\ \A i \in 1 .. n : a[i] \in Int /\ b[i] \in Int /\ c[i] \in Int
  BY DEF Words
<1>2. PICK i \in 1 .. n : (\A j \in 1 .. i - 1 : a[j] = b[j]) /\ a[i] < b[i]
  BY <1>1 DEF LexLess
<1>3. PICK k \in 1 .. n : (\A j \in 1 .. k - 1 : b[j] = c[j]) /\ b[k] < c[k]
  BY <1>1 DEF LexLess
<1>4. PICK m \in 1 .. n : m <= i /\ m <= k /\ (m = i \/ m = k)
  OBVIOUS
<1>5. \A j \in 1 .. m - 1 : j \in DOMAIN a /\ a[j] = c[j]
  <2> SUFFICES ASSUME NEW j \in 1 .. m - 1 PROVE j \in 1 .. n /\ a[j] = c[j]
    BY <1>1
  <2>1. j \in 1 .. i - 1 /\ j \in 1 .. k - 1 /\ j \in 1 .. n
    BY <1>4
  <2> QED BY <2>1, <1>2, <1>3
<1>6. a[m] < c[m]
  <2>1. a[m] \in Int /\ b[m] \in Int /\ c[m] \in Int
    BY <1>1
  <2>2. (m = i \/ m \in 1 .. i - 1) /\ (m = k \/ m \in 1 .. k - 1)
    BY <1>4
  <2>3. a[m] <= b[m] /\ b[m] <= c[m] /\ (a[m] < b[m] \/ b[m] < c[m])
    BY <2>1, <2>2, <1>2, <1>3, <1>4
  <2> QED BY <2>1, <2>3
<1> QED BY <1>1, <1>5, <1>6 DEF LexLess

(* No word is before itself.                                                *)
LEMMA LexNever ==
  ASSUME NEW n \in Nat, NEW a \in Words(n)
  PROVE  ~LexLess(a, a)
<1>1. DOMAIN a = 1 .. n /\ \A i \in 1 .. n : a[i] \in Int
  BY DEF Words
<1> QED BY <1>1 DEF LexLess

(* Things with words of their own, in the order of the words.               *)
ByKey(S, key) == {p \in S \X S : LexLess(key[p[1]], key[p[2]])}

(* Different words give an order of the things they belong to.              *)
LEMMA KeysOrder ==
  ASSUME NEW S, NEW n \in Nat, NEW key \in [S -> Words(n)],
         \A x, y \in S : key[x] = key[y] => x = y
  PROVE  Orders(ByKey(S, key), S)
<1>1. ASSUME NEW x \in S, NEW y \in S, x # y
      PROVE  <<x, y>> \in ByKey(S, key) \/ <<y, x>> \in ByKey(S, key)
  <2>1. key[x] \in Words(n) /\ key[y] \in Words(n) /\ key[x] # key[y]
    BY <1>1
  <2>2. LexLess(key[x], key[y]) \/ LexLess(key[y], key[x])
    BY <2>1, LexTotal
  <2> QED BY <2>2 DEF ByKey
<1>2. ASSUME NEW x \in S, NEW y \in S, NEW z \in S,
             <<x, y>> \in ByKey(S, key), <<y, z>> \in ByKey(S, key)
      PROVE  <<x, z>> \in ByKey(S, key)
  <2>1. LexLess(key[x], key[y]) /\ LexLess(key[y], key[z])
    BY <1>2 DEF ByKey
  <2>2. key[x] \in Words(n) /\ key[y] \in Words(n) /\ key[z] \in Words(n)
    OBVIOUS
  <2>3. LexLess(key[x], key[z])
    BY <2>1, <2>2, LexTransitive
  <2> QED BY <2>3 DEF ByKey
<1> QED BY <1>1, <1>2 DEF Orders

(* One of finitely many words comes first, and LexMin finds it.             *)
LEMMA LexMinIn ==
  ASSUME NEW n \in Nat, NEW S \in SUBSET Words(n), IsFiniteSet(S), S # {}
  PROVE  LexMin(S) \in S
<1> DEFINE key == [x \in S |-> x]
<1>1. key \in [S -> Words(n)] /\ \A x, y \in S : key[x] = key[y] => x = y
  OBVIOUS
<1>2. PICK x : IsFirst(ByKey(S, key), S, x)
  <2>1. Orders(ByKey(S, key), S)
    <3> HIDE DEF key
    <3> QED BY <1>1, KeysOrder
  <2> HIDE DEF key
  <2> QED BY <2>1, FirstExists
<1>3. x \in S /\ \A y \in S : x = y \/ LexLess(x, y)
  BY <1>2 DEF IsFirst, ByKey
<1> QED BY <1>3 DEF LexMin

(* Finitely many integers have a smallest and a largest one.                *)
LEMMA MinMaxIn ==
  ASSUME NEW S \in SUBSET Int, IsFiniteSet(S), S # {}
  PROVE  Min(S) \in S /\ Max(S) \in S
<1> DEFINE Up == {p \in S \X S : p[1] < p[2]}
           Down == {p \in S \X S : p[1] > p[2]}
<1>1. Orders(Up, S) /\ Orders(Down, S)
  BY DEF Orders
<1>2. PICK x : IsFirst(Up, S, x)
  <2> HIDE DEF Up, Down
  <2> QED BY <1>1, FirstExists
<1>3. PICK y : IsFirst(Down, S, y)
  <2> HIDE DEF Up, Down
  <2> QED BY <1>1, FirstExists
<1>4. x \in S /\ \A z \in S : x <= z
  <2>1. x \in S /\ \A z \in S : x = z \/ <<x, z>> \in Up
    BY <1>2 DEF IsFirst
  <2>2. ASSUME NEW z \in S PROVE x <= z
    <3>1. x \in Int /\ z \in Int
      BY <2>1
    <3>2. x = z \/ x < z
      BY <2>1
    <3> QED BY <3>1, <3>2
  <2> QED BY <2>1, <2>2
<1>5. y \in S /\ \A z \in S : y >= z
  <2>1. y \in S /\ \A z \in S : y = z \/ <<y, z>> \in Down
    BY <1>3 DEF IsFirst
  <2>2. ASSUME NEW z \in S PROVE y >= z
    <3>1. y \in Int /\ z \in Int
      BY <2>1
    <3>2. y = z \/ y > z
      BY <2>1
    <3> QED BY <3>1, <3>2
  <2> QED BY <2>1, <2>2
<1> QED BY <1>4, <1>5 DEF Min, Max

-----------------------------------------------------------------------------
(* Sums and rails.                                                          *)

(* f is a prefix, up to n, of the sequence that starts with a and goes on   *)
(* with the step G.                                                         *)
Iterates(f, n, D, a, G) ==
  /\ f \in [0 .. n -> D] /\ f[0] = a
  /\ \A k \in 0 .. n - 1 : f[k + 1] = G[<<f[k], k + 1>>]

(* Every step can be iterated any number of times: by a least number of     *)
(* times that has no iteration.                                             *)
LEMMA IterationUpTo ==
  ASSUME NEW D, NEW a \in D, NEW G \in [D \X Nat -> D], NEW n \in Nat
  PROVE  \E f : Iterates(f, n, D, a, G)
<1> DEFINE Bad == {m \in Nat : ~ \E f : Iterates(f, m, D, a, G)}
<1> SUFFICES ASSUME Bad # {} PROVE FALSE
  OBVIOUS
<1>1. PICK m \in Bad : \A y \in Bad : m <= y
  BY LeastElement
<1>2. CASE m = 0
  <2> DEFINE f == [k \in 0 .. 0 |-> a]
  <2>1. Iterates(f, 0, D, a, G)
    BY DEF Iterates
  <2> QED
    BY <1>2, <2>1
<1>3. CASE m # 0
  <2>1. m - 1 \in Nat /\ m \in Nat
    BY <1>3
  <2>2. PICK f : Iterates(f, m - 1, D, a, G)
    BY <1>1, <2>1
  <2> DEFINE h == [k \in 0 .. m |-> IF k = m THEN G[<<f[m - 1], m>>] ELSE f[k]]
  <2>3. f \in [0 .. m - 1 -> D] /\ f[0] = a /\ \A k \in 0 .. (m - 1) - 1 : f[k + 1] = G[<<f[k], k + 1>>]
    BY <2>2 DEF Iterates
  <2>4. h \in [0 .. m -> D]
    BY <2>1, <2>3
  <2>5. \A k \in 0 .. m - 1 : h[k] = f[k]
    BY <2>1
  <2>6. h[m] = G[<<f[m - 1], m>>]
    BY <2>1
  <2> HIDE DEF h
  <2>7. ASSUME NEW k \in 0 .. m - 1 PROVE h[k + 1] = G[<<h[k], k + 1>>]
    <3>1. CASE k = m - 1
      BY <3>1, <2>1, <2>5, <2>6
    <3>2. CASE k # m - 1
      <4>1. k \in 0 .. (m - 1) - 1 /\ k + 1 \in 0 .. m - 1
        BY <3>2, <2>1
      <4> QED BY <4>1, <2>3, <2>5
    <3> QED BY <3>1, <3>2
  <2>8. h[0] = a
    BY <2>1, <2>3, <2>5
  <2>9. Iterates(h, m, D, a, G)
    BY <2>4, <2>7, <2>8 DEF Iterates
  <2> QED
    BY <2>9
<1> QED
  BY <1>2, <1>3

(* The running sum that Total reads.                                        *)
Sums(f, n, values) ==
  f = [k \in 0 .. n |-> IF k = 0 THEN 0 ELSE f[k - 1] + values[k]]

(* A sum of integers is an integer.                                         *)
LEMMA TotalInt ==
  ASSUME NEW n \in Nat, NEW values, \A k \in 1 .. n : values[k] \in Int
  PROVE  Total(n, values) \in Int
<1> DEFINE G == [x \in Int \X Nat |-> x[1] + (IF x[2] \in 1 .. n THEN values[x[2]] ELSE 0)]
<1>1. G \in [Int \X Nat -> Int]
  OBVIOUS
<1>2. PICK f : Iterates(f, n, Int, 0, G)
  <2> HIDE DEF G
  <2> QED BY <1>1, IterationUpTo
<1>3. f \in [0 .. n -> Int] /\ f[0] = 0 /\ \A k \in 0 .. n - 1 : f[k + 1] = G[<<f[k], k + 1>>]
  <2> HIDE DEF G
  <2> QED BY <1>2 DEF Iterates
<1>4. ASSUME NEW k \in 0 .. n, k # 0 PROVE f[k] = f[k - 1] + values[k]
  <2>1. k - 1 \in 0 .. n - 1 /\ k \in 1 .. n /\ (k - 1) + 1 = k /\ f[k - 1] \in Int
    BY <1>3, <1>4
  <2>2. f[k] = G[<<f[k - 1], k>>]
    BY <1>3, <2>1
  <2> QED BY <2>1, <2>2
<1>5. Sums(f, n, values)
  BY <1>3, <1>4 DEF Sums
<1> DEFINE h == CHOOSE g : Sums(g, n, values)
<1>6. Sums(h, n, values)
  BY <1>5, Zenon
<1>7. Total(n, values) = h[n]
  BY DEF Total, Sums
<1> HIDE DEF h
<1> DEFINE Bad == {k \in 0 .. n : h[k] \notin Int}
<1>8. Bad = {}
  <2> SUFFICES ASSUME Bad # {} PROVE FALSE
    OBVIOUS
  <2>1. PICK k \in Bad : \A y \in Bad : k <= y
    <3>1. Bad \in SUBSET Nat
      OBVIOUS
    <3> HIDE DEF Bad
    <3> QED BY <3>1, LeastElement
  <2>2. h[k] = IF k = 0 THEN 0 ELSE h[k - 1] + values[k]
    BY <1>6 DEF Sums
  <2>3. k # 0
    BY <2>2
  <2>4. k - 1 \in 0 .. n /\ k \in 1 .. n /\ ~(k <= k - 1)
    BY <2>3
  <2>5. h[k - 1] \in Int /\ values[k] \in Int
    BY <2>1, <2>4
  <2> QED BY <2>2, <2>3, <2>5
<1> QED BY <1>7, <1>8

(* What a function takes on a finite set is finite.                         *)
LEMMA FiniteRange ==
  ASSUME NEW S, IsFiniteSet(S), NEW f, f = [x \in S |-> f[x]]
  PROVE  IsFiniteSet(Range(f)) /\ (S # {} => Range(f) # {})
<1>1. f \in Surjection(S, Range(f))
  BY DEF Surjection, Range
<1>2. IsFiniteSet(Range(f))
  BY <1>1, FS_Surjection
<1> QED BY <1>2 DEF Range

(* The sum over pairs.                                                      *)
LEMMA PairTotalInt ==
  ASSUME NEW world \in Nat, NEW value, \A p \in DOMAIN value : value[p] \in Int
  PROVE  PairTotal(world, value) \in Int
<1> DEFINE row(a) == [b \in 1 .. world |-> IF <<a - 1, b - 1>> \in DOMAIN value THEN value[<<a - 1, b - 1>>] ELSE 0]
           rows == [a \in 1 .. world |-> Total(world, row(a))]
<1>1. ASSUME NEW a \in 1 .. world PROVE Total(world, row(a)) \in Int
  <2>1. \A k \in 1 .. world : row(a)[k] \in Int
    OBVIOUS
  <2> HIDE DEF row
  <2> QED BY <2>1, TotalInt
<1>2. \A k \in 1 .. world : rows[k] \in Int
  BY <1>1
<1>3. Total(world, rows) \in Int
  <2> HIDE DEF rows
  <2> QED BY <1>2, TotalInt
<1> QED BY <1>3 DEF PairTotal

(* A link of a rail has a cost.                                             *)
LEMMA RailLinks ==
  ASSUME NEW t, IsTopology(t), NEW rail \in Nat, NEW p \in DOMAIN OnRail(t, rail)
  PROVE  OnRail(t, rail)[p].bandwidth \in Int /\ OnRail(t, rail)[p].latency \in Int
<1> DEFINE own == IF rail < Len(t.rails) THEN t.rails[rail + 1] ELSE <<>>
<1>1. OnRail(t, rail) = [q \in DOMAIN own \cup DOMAIN t.links |-> IF q \in DOMAIN own THEN own[q] ELSE t.links[q]]
  BY DEF OnRail
<1>2. p \in DOMAIN own \/ p \in DOMAIN t.links
  BY <1>1
<1>3. ASSUME p \in DOMAIN own PROVE own[p] \in LinkCosts
  <2>1. CASE rail < Len(t.rails)
    <3>1. rail + 1 \in DOMAIN t.rails /\ own = t.rails[rail + 1]
      BY <2>1 DEF IsTopology
    <3> QED BY <3>1, <1>3 DEF IsTopology
  <2>2. CASE ~(rail < Len(t.rails))
    <3>1. own = <<>>
      BY <2>2
    <3>2. DOMAIN << >> = {}
      OBVIOUS
    <3> QED BY <3>1, <3>2, <1>3
  <2> QED BY <2>1, <2>2
<1>4. ASSUME p \in DOMAIN t.links PROVE t.links[p] \in LinkCosts
  BY <1>4 DEF IsTopology
<1> HIDE DEF own
<1>5. OnRail(t, rail)[p] \in LinkCosts
  BY <1>1, <1>2, <1>3, <1>4
<1> QED BY <1>5 DEF LinkCosts

(* A sequence is a function on its places, and the other way around.        *)
LEMMA SeqFunction ==
  ASSUME NEW T, NEW s \in Seq(T)
  PROVE  Len(s) \in Nat /\ s \in [1 .. Len(s) -> T]
<1>1. Len(s) \in Nat /\ DOMAIN s = 1 .. Len(s) /\ s = [i \in 1 .. Len(s) |-> s[i]]
  OBVIOUS
<1>2. \A i \in 1 .. Len(s) : s[i] \in T
  OBVIOUS
<1> QED BY <1>1, <1>2

(* A function on 1 .. n and one more value.                                 *)
LEMMA AppendWord ==
  ASSUME NEW T, NEW n \in Nat, NEW s \in [1 .. n -> T], NEW x \in T,
         NEW z, z = Append(s, x)
  PROVE  z \in [1 .. n + 1 -> T] /\ z[n + 1] = x /\ \A i \in 1 .. n : z[i] = s[i]
<1>1. s \in Seq(T) /\ Len(s) = n
  OBVIOUS
<1>2. Append(s, x) \in Seq(T) /\ Len(Append(s, x)) = n + 1
  BY <1>1
<1>3. Append(s, x)[n + 1] = x /\ \A i \in 1 .. n : Append(s, x)[i] = s[i]
  BY <1>1
<1>4. Append(s, x) \in [1 .. n + 1 -> T]
  BY <1>2, SeqFunction
<1> QED BY <1>3, <1>4

(* The score of a rail and its number are a word.                           *)
LEMMA RailKeyWord ==
  ASSUME NEW t, IsTopology(t), NEW rail \in Nat
  PROVE  RailKey(t, rail) \in Words(4) /\ RailKey(t, rail)[4] = rail
<1> DEFINE own == OnRail(t, rail)
           pairs == {p \in RanksOf(t) \X RanksOf(t) : p[1] < p[2] /\ p \in DOMAIN own}
           bandwidth == [p \in pairs |-> own[p].bandwidth]
           latency == [p \in pairs |-> own[p].latency]
<1>1. \A p \in pairs : own[p].bandwidth \in Int /\ own[p].latency \in Int
  BY RailLinks
<1>2. IsFiniteSet(pairs)
  <2>1. IsFiniteSet(RanksOf(t))
    <3>1. t.world - 1 \in Int
      BY DEF IsTopology
    <3> QED BY <3>1, FS_Interval DEF RanksOf
  <2>2. IsFiniteSet(RanksOf(t) \X RanksOf(t))
    BY <2>1, FS_Product
  <2>3. pairs \in SUBSET (RanksOf(t) \X RanksOf(t))
    OBVIOUS
  <2> HIDE DEF pairs
  <2> QED BY <2>2, <2>3, FS_Subset
<1>3. RailScore(t, rail) = IF pairs = {} THEN <<0, 0, 0>>
        ELSE <<-Min(Range(bandwidth)), -PairTotal(t.world, bandwidth), PairTotal(t.world, latency)>>
  BY DEF RailScore
<1>4. /\ DOMAIN bandwidth = pairs /\ \A p \in pairs : bandwidth[p] \in Int
      /\ DOMAIN latency = pairs /\ \A p \in pairs : latency[p] \in Int
      /\ bandwidth = [p \in pairs |-> bandwidth[p]]
  BY <1>1
<1>5. \E a, b, c \in Int : RailScore(t, rail) = <<a, b, c>>
  <2> HIDE DEF pairs, bandwidth, latency
  <2>0. t.world \in Nat
    BY DEF IsTopology
  <2>1. CASE pairs = {}
    BY <2>1, <1>3
  <2>2. CASE pairs # {}
    <3>1. Range(bandwidth) \subseteq Int
      BY <1>4 DEF Range
    <3>2. IsFiniteSet(Range(bandwidth)) /\ Range(bandwidth) # {}
      BY <1>2, <1>4, <2>2, FiniteRange
    <3>3. Min(Range(bandwidth)) \in Int
      BY <3>1, <3>2, MinMaxIn
    <3>4. PairTotal(t.world, bandwidth) \in Int /\ PairTotal(t.world, latency) \in Int
      BY <1>4, <2>0, PairTotalInt
    <3>5. -Min(Range(bandwidth)) \in Int /\ -PairTotal(t.world, bandwidth) \in Int
      BY <3>3, <3>4
    <3> QED BY <3>4, <3>5, <2>2, <1>3
  <2> QED BY <2>1, <2>2
<1>6. PICK a, b, c \in Int : RailScore(t, rail) = <<a, b, c>>
  BY <1>5
<1>7. PICK x : x = rail /\ x \in Int
  OBVIOUS
<1>8. PICK z : z = Append(<<a, b, c>>, x)
  OBVIOUS
<1>9. z \in Seq(Int) /\ Len(z) = 4 /\ z[4] = x
  BY <1>7, <1>8
<1>10. z \in [1 .. Len(z) -> Int]
  BY <1>9, SeqFunction
<1>11. z = RailKey(t, rail)
  BY <1>6, <1>7, <1>8 DEF RailKey
<1> QED BY <1>7, <1>9, <1>10, <1>11 DEF Words

(* PreferredRailOrder lists every rail once.                                *)
LEMMA PreferredValid ==
  ASSUME NEW t, IsTopology(t), NEW rails \in Nat
  PROVE  ValidRailOrder(PreferredRailOrder(t, rails), rails)
<1> DEFINE S == 0 .. rails - 1
           key == [r \in S |-> RailKey(t, r)]
           Sorted(o) == \A i, j \in 1 .. rails : i < j => LexLess(RailKey(t, o[i]), RailKey(t, o[j]))
<1>1. \A r \in S : RailKey(t, r) \in Words(4) /\ RailKey(t, r)[4] = r
  BY RailKeyWord
<1>2. key \in [S -> Words(4)] /\ \A x, y \in S : key[x] = key[y] => x = y
  BY <1>1
<1>3. IsFiniteSet(S) /\ Cardinality(S) = rails
  BY FS_Interval
<1>4. PICK o \in [1 .. rails -> S] : InOrderOf(ByKey(S, key), o, rails)
  <2>1. Orders(ByKey(S, key), S)
    <3> HIDE DEF S, key
    <3> QED BY <1>2, KeysOrder
  <2> HIDE DEF S, key
  <2> QED BY <2>1, <1>3, SortedExists
<1>5. Sorted(o)
  <2> SUFFICES ASSUME NEW i \in 1 .. rails, NEW j \in 1 .. rails, i < j
               PROVE  LexLess(RailKey(t, o[i]), RailKey(t, o[j]))
    OBVIOUS
  <2>1. <<o[i], o[j]>> \in ByKey(S, key)
    BY <1>4 DEF InOrderOf
  <2> QED BY <2>1 DEF ByKey
<1> DEFINE P == PreferredRailOrder(t, rails)
<1>6. P \in [1 .. rails -> S] /\ Sorted(P)
  BY <1>5, Zenon DEF PreferredRailOrder
<1> HIDE DEF P
<1>7. ASSUME NEW i \in 1 .. rails, NEW j \in 1 .. rails, i < j PROVE P[i] # P[j]
  <2>1. P[i] \in S /\ LexLess(RailKey(t, P[i]), RailKey(t, P[j]))
    BY <1>6, <1>7
  <2>2. RailKey(t, P[i]) \in Words(4)
    BY <1>1, <2>1
  <2>3. ~LexLess(RailKey(t, P[i]), RailKey(t, P[i]))
    BY <2>2, LexNever
  <2> QED BY <2>1, <2>3
<1>8. P \in Injection(1 .. rails, S)
  <2>1. ASSUME NEW i \in 1 .. rails, NEW j \in 1 .. rails, i # j PROVE P[i] # P[j]
    <3>1. i < j \/ j < i
      BY <2>1
    <3> QED BY <3>1, <1>7
  <2> QED BY <2>1, <1>6 DEF Injection, IsInjective
<1>9. Cardinality(1 .. rails) = rails
  BY FS_Interval
<1>10. P \in Surjection(1 .. rails, S)
  BY <1>3, <1>8, <1>9, FS_Injection
<1>11. Range(P) = S
  BY <1>6, <1>10 DEF Surjection, Range
<1>12. Len(P) = rails
  BY <1>6
<1> QED BY <1>11, <1>12 DEF ValidRailOrder, P

-----------------------------------------------------------------------------
(* Rings.                                                                   *)

(* An order of all ranks of a world.                                        *)
IsRing(o, w) == o \in [1 .. w -> 0 .. w - 1] /\ Range(o) = 0 .. w - 1

(* There are finitely many functions from a finite set of places.           *)
LEMMA FiniteFunctions ==
  ASSUME NEW S, IsFiniteSet(S), NEW m \in Nat
  PROVE  IsFiniteSet([1 .. m -> S])
<1> DEFINE Bad == {n \in Nat : ~IsFiniteSet([1 .. n -> S])}
<1> SUFFICES ASSUME Bad # {} PROVE FALSE
  OBVIOUS
<1>1. PICK n \in Bad : \A y \in Bad : n <= y
  <2>1. Bad \in SUBSET Nat
    OBVIOUS
  <2> HIDE DEF Bad
  <2> QED BY <2>1, LeastElement
<1>2. n \in Nat /\ ~IsFiniteSet([1 .. n -> S])
  OBVIOUS
<1>3. CASE n = 0
  <2>1. PICK e : e = [i \in 1 .. 0 |-> 0]
    OBVIOUS
  <2>2. [1 .. n -> S] = {e}
    <3>1. 1 .. n = {} /\ 1 .. 0 = {}
      BY <1>3
    <3>2. ASSUME NEW f \in [1 .. n -> S] PROVE f = e
      BY <2>1, <3>1
    <3>3. e \in [1 .. n -> S]
      BY <2>1, <3>1
    <3> QED BY <3>2, <3>3
  <2> QED BY <2>2, <1>2, FS_Singleton
<1>4. CASE n # 0
  <2>1. n - 1 \in Nat /\ n \in 1 .. n /\ \A i \in 1 .. n - 1 : i \in 1 .. n
    BY <1>2, <1>4
  <2>2. IsFiniteSet([1 .. n - 1 -> S])
    BY <1>1, <2>1
  <2> DEFINE A == [1 .. n -> S]
             B == [1 .. n - 1 -> S] \X S
             F == [f \in A |-> <<[i \in 1 .. n - 1 |-> f[i]], f[n]>>]
  <2>3. IsFiniteSet(B)
    BY <2>2, FS_Product
  <2>4. F \in [A -> B]
    BY <2>1
  <2>5. ASSUME NEW f \in A, NEW g \in A, F[f] = F[g] PROVE f = g
    <3>1. [i \in 1 .. n - 1 |-> f[i]] = [i \in 1 .. n - 1 |-> g[i]] /\ f[n] = g[n]
      BY <2>5
    <3>2. \A i \in 1 .. n - 1 : f[i] = g[i]
      BY <3>1
    <3>3. \A i \in 1 .. n : i = n \/ i \in 1 .. n - 1
      BY <1>2
    <3> QED BY <3>1, <3>2, <3>3
  <2>6. F \in Injection(A, B)
    <3> HIDE DEF A, B, F
    <3> QED BY <2>4, <2>5 DEF Injection, IsInjective
  <2>7. IsFiniteSet(A)
    <3> HIDE DEF A, B, F
    <3> QED BY <2>3, <2>6, FS_Injection
  <2> QED BY <2>7, <1>2
<1> QED BY <1>3, <1>4

(* A path without repetition and a rank that is not on it.                  *)
LEMMA PathGrows ==
  ASSUME NEW S, NEW n \in Nat, NEW q \in Injection(1 .. n, S), NEW r \in S, r \notin Range(q),
         NEW p, p = Append(q, r)
  PROVE  p \in Injection(1 .. n + 1, S)
<1>1. q \in [1 .. n -> S] /\ \A i, j \in 1 .. n : q[i] = q[j] => i = j
  BY DEF Injection, IsInjective
<1>2. p \in [1 .. n + 1 -> S] /\ p[n + 1] = r /\ \A i \in 1 .. n : p[i] = q[i]
  <2>1. p \in [1 .. n + 1 -> S]
    BY <1>1, AppendWord
  <2>2. p[n + 1] = r
    BY <1>1, AppendWord
  <2>3. \A i \in 1 .. n : p[i] = q[i]
    BY <1>1, AppendWord
  <2> QED BY <2>1, <2>2, <2>3
<1>3. \A i \in 1 .. n : q[i] # r
  BY <1>1 DEF Range
<1>4. ASSUME NEW i \in 1 .. n + 1, NEW j \in 1 .. n + 1, p[i] = p[j] PROVE i = j
  <2>1. (i = n + 1 \/ i \in 1 .. n) /\ (j = n + 1 \/ j \in 1 .. n)
    OBVIOUS
  <2> QED BY <2>1, <1>1, <1>2, <1>3, <1>4
<1> QED BY <1>2, <1>4 DEF Injection, IsInjective

(* One round of Paths.                                                      *)
Extended(t, widest, orders) ==
  UNION {{Append(order, r) : r \in IF widest THEN Widest(t, order) ELSE Onward(t, order)} : order \in orders}

IsPaths(f, t, start, widest) ==
  f = [n \in 0 .. t.world - 1 |->
         IF n = 0 THEN {<<start>>}
         ELSE UNION {{Append(order, r) : r \in IF widest THEN Widest(t, order) ELSE Onward(t, order)} :
                       order \in f[n - 1]}]

(* The recursive function of Paths exists.                                  *)
LEMMA PathsExist ==
  ASSUME NEW t, IsTopology(t), NEW start \in RanksOf(t), NEW widest
  PROVE  \E f : IsPaths(f, t, start, widest)
<1> DEFINE Q == Seq(RanksOf(t))
           D == SUBSET Q
           G == [x \in D \X Nat |-> Extended(t, widest, x[1])]
           w == t.world - 1
<1>0. w \in Nat
  BY DEF IsTopology
<1>1. ASSUME NEW X \in D PROVE Extended(t, widest, X) \in D
  <2> SUFFICES ASSUME NEW o \in X, NEW r \in IF widest THEN Widest(t, o) ELSE Onward(t, o)
               PROVE  Append(o, r) \in Q
    BY DEF Extended
  <2>1. r \in RanksOf(t)
    BY DEF Widest, Onward
  <2>2. o \in Q
    OBVIOUS
  <2> QED BY <2>1, <2>2
<1>2. {<<start>>} \in D
  OBVIOUS
<1>3. G \in [D \X Nat -> D]
  <2> HIDE DEF D
  <2> QED BY <1>1
<1>4. PICK f : Iterates(f, w, D, {<<start>>}, G)
  <2> HIDE DEF D, G, w
  <2> QED BY <1>0, <1>2, <1>3, IterationUpTo
<1>5. f \in [0 .. w -> D] /\ f[0] = {<<start>>} /\ \A k \in 0 .. w - 1 : f[k + 1] = G[<<f[k], k + 1>>]
  <2> HIDE DEF D, G, w
  <2> QED BY <1>4 DEF Iterates
<1>6. ASSUME NEW n \in 0 .. w, n # 0 PROVE f[n] = Extended(t, widest, f[n - 1])
  <2>1. n - 1 \in 0 .. w - 1 /\ (n - 1) + 1 = n /\ n - 1 \in 0 .. w /\ n \in Nat
    BY <1>0, <1>6
  <2>2. f[n] = G[<<f[n - 1], n>>] /\ f[n - 1] \in D
    <3> HIDE DEF D, G, w
    <3> QED BY <1>5, <2>1
  <2> HIDE DEF D
  <2> QED BY <2>1, <2>2
<1> HIDE DEF D, G
<1>7. f = [n \in 0 .. w |-> IF n = 0 THEN {<<start>>} ELSE Extended(t, widest, f[n - 1])]
  <2> HIDE DEF w
  <2> QED BY <1>5, <1>6
<1>8. IsPaths(f, t, start, widest)
  BY <1>7 DEF IsPaths, Extended
<1> QED BY <1>8

(* A path visits no rank twice.                                             *)
LEMMA PathsSimple ==
  ASSUME NEW t, IsTopology(t), NEW start \in RanksOf(t), NEW widest, NEW o \in Paths(t, start, widest)
  PROVE  IsRing(o, t.world)
<1> DEFINE w == t.world
           S == RanksOf(t)
           Good(n, p) == p \in Injection(1 .. n + 1, S)
           h == CHOOSE g : IsPaths(g, t, start, widest)
<1>0. w \in Nat /\ w > 0 /\ w - 1 \in 0 .. w - 1 /\ S = 0 .. w - 1
  BY DEF IsTopology, RanksOf
<1>1. IsPaths(h, t, start, widest)
  <2>1. \E g : IsPaths(g, t, start, widest)
    BY PathsExist
  <2> QED BY <2>1, Zenon
<1>2. Paths(t, start, widest) = h[w - 1]
  BY DEF Paths, IsPaths
<1> HIDE DEF h
<1>3. h[0] = {<<start>>}
  BY <1>0, <1>1 DEF IsPaths
<1>4. ASSUME NEW n \in 0 .. w - 1, n # 0 PROVE h[n] = Extended(t, widest, h[n - 1])
  BY <1>1, <1>4 DEF IsPaths, Extended
<1> DEFINE Bad == {n \in 0 .. w - 1 : \E p \in h[n] : ~Good(n, p)}
<1>5. Bad = {}
  <2> SUFFICES ASSUME Bad # {} PROVE FALSE
    OBVIOUS
  <2>1. PICK n \in Bad : \A y \in Bad : n <= y
    <3>1. Bad \in SUBSET Nat
      BY <1>0
    <3> HIDE DEF Bad
    <3> QED BY <3>1, LeastElement
  <2>2. PICK p \in h[n] : ~Good(n, p)
    OBVIOUS
  <2>3. n \in 0 .. w - 1 /\ n \in Nat
    BY <1>0
  <2>4. CASE n = 0
    <3>1. p = <<start>> /\ start \in S
      BY <2>4, <2>2, <1>3
    <3>2. p \in [1 .. 0 + 1 -> S] /\ \A i, j \in 1 .. 0 + 1 : i = j
      BY <3>1
    <3>3. Good(0, p)
      <4> HIDE DEF S
      <4> QED BY <3>2 DEF Injection, IsInjective
    <3> QED BY <3>3, <2>2, <2>4
  <2>5. CASE n # 0
    <3>1. n - 1 \in 0 .. w - 1 /\ ~(n <= n - 1)
      BY <2>3, <2>5, <1>0
    <3>2. PICK q \in h[n - 1] : \E r \in IF widest THEN Widest(t, q) ELSE Onward(t, q) : p = Append(q, r)
      BY <1>4, <2>2, <2>3, <2>5 DEF Extended
    <3>3. PICK r \in IF widest THEN Widest(t, q) ELSE Onward(t, q) : p = Append(q, r)
      BY <3>2
    <3>4. r \in S /\ r \notin Range(q)
      BY DEF Widest, Onward
    <3>5. Good(n - 1, q)
      BY <2>1, <3>1, <3>2
    <3>6. (n - 1) + 1 = n /\ n \in Nat
      BY <2>3
    <3>7. q \in Injection(1 .. n, S)
      <4> HIDE DEF S
      <4> QED BY <3>5, <3>6
    <3>11. Good(n, p)
      <4> HIDE DEF S
      <4> QED BY <3>3, <3>4, <3>6, <3>7, PathGrows
    <3> QED BY <3>11, <2>2
  <2> QED BY <2>4, <2>5
<1>6. o \in Injection(1 .. w, 0 .. w - 1)
  <2>1. Good(w - 1, o)
    BY <1>0, <1>2, <1>5
  <2>2. (w - 1) + 1 = w
    BY <1>0
  <2> QED BY <2>1, <2>2, <1>0
<1>7. Cardinality(1 .. w) = w /\ Cardinality(0 .. w - 1) = w /\ IsFiniteSet(0 .. w - 1)
  <2>1. 0 \in Int /\ 1 \in Int /\ w \in Int /\ w - 1 \in Int /\ ~(1 > w) /\ ~(0 > w - 1)
        /\ w - 1 + 1 = w /\ (w - 1) - 0 + 1 = w
    BY <1>0
  <2> HIDE DEF w
  <2> QED BY <2>1, FS_Interval
<1>8. o \in Surjection(1 .. w, 0 .. w - 1)
  BY <1>6, <1>7, FS_Injection
<1>9. o \in [1 .. w -> 0 .. w - 1]
  BY <1>6 DEF Injection
<1> QED BY <1>8, <1>9 DEF IsRing, Surjection, Range

(* What a concatenation holds.                                              *)
LEMMA ConcatSeq ==
  ASSUME NEW S, NEW a \in Seq(S), NEW b \in Seq(S), NEW z, z = a \o b
  PROVE  /\ z \in Seq(S) /\ Len(z) = Len(a) + Len(b)
         /\ \A k \in 1 .. Len(a) : z[k] = a[k]
         /\ \A k \in 1 .. Len(b) : z[Len(a) + k] = b[k]
<1>1. z \in Seq(S) /\ Len(z) = Len(a) + Len(b)
  OBVIOUS
<1>2. \A k \in 1 .. Len(a) : z[k] = a[k]
  OBVIOUS
<1>3. \A k \in 1 .. Len(b) : z[Len(a) + k] = b[k]
  OBVIOUS
<1> QED BY <1>1, <1>2, <1>3

(* The rotation of a ring to one of its places.                             *)
Turned(o, i) == SubSeq(o, i, Len(o)) \o SubSeq(o, 1, i - 1)

(* A rotation of a ring is a ring.                                          *)
LEMMA RotatedUp ==
  ASSUME NEW w \in Nat, NEW o, IsRing(o, w), NEW i \in 1 .. w, NEW up, up = Turned(o, i)
  PROVE  IsRing(up, w) /\ up[1] = o[i]
<1> DEFINE S == 0 .. w - 1
<1>1. o \in [1 .. w -> S] /\ Range(o) = S
  BY DEF IsRing
<1> HIDE DEF S
<1>2. Len(o) = w /\ DOMAIN o = 1 .. w
  BY <1>1
<1>3. PICK a, b : a = SubSeq(o, i, w) /\ b = SubSeq(o, 1, i - 1)
  OBVIOUS
<1> DEFINE m == w - i + 1
           n == i - 1
<1>s. o \in Seq(S)
  BY <1>1
<1>4. a \in Seq(S) /\ Len(a) = m /\ \A k \in 1 .. m : a[k] = o[i + k - 1]
  <2>1. a \in Seq(S) /\ Len(a) = m
    BY <1>s, <1>2, <1>3
  <2>2. \A k \in 1 .. m : a[k] = o[i + k - 1]
    BY <1>s, <1>2, <1>3
  <2> QED BY <2>1, <2>2
<1>5. b \in Seq(S) /\ Len(b) = n /\ \A k \in 1 .. n : b[k] = o[k]
  <2>1. b \in Seq(S) /\ Len(b) = n
    BY <1>s, <1>2, <1>3
  <2>2. \A k \in 1 .. n : b[k] = o[k]
    BY <1>s, <1>2, <1>3
  <2> QED BY <2>1, <2>2
<1>6. up = a \o b
  BY <1>2, <1>3 DEF Turned
<1>7. m \in Nat /\ n \in Nat /\ m + n = w
  OBVIOUS
<1>8. /\ up \in Seq(S) /\ Len(up) = w
      /\ \A k \in 1 .. m : up[k] = a[k]
      /\ \A k \in 1 .. n : up[m + k] = b[k]
  <2>0. a \in Seq(S) /\ b \in Seq(S)
    BY <1>4, <1>5
  <2>1. /\ up \in Seq(S) /\ Len(up) = Len(a) + Len(b)
        /\ \A k \in 1 .. Len(a) : up[k] = a[k]
        /\ \A k \in 1 .. Len(b) : up[Len(a) + k] = b[k]
    BY ONLY <2>0, <1>6, ConcatSeq
  <2>2. Len(a) = m /\ Len(b) = n
    BY <1>4, <1>5
  <2> HIDE DEF m, n
  <2> QED BY <2>1, <2>2, <1>7
<1>9. up \in [1 .. w -> S]
  BY <1>8, SeqFunction
<1>10. up[1] = o[i]
  <2>1. 1 \in 1 .. m /\ i + 1 - 1 = i
    OBVIOUS
  <2> QED BY <2>1, <1>4, <1>8
<1>11. ASSUME NEW x \in S PROVE \E k \in 1 .. w : up[k] = x
  <2>1. PICK j \in 1 .. w : o[j] = x
    BY <1>1, <1>2 DEF Range
  <2>2. CASE i <= j
    <3>1. j - i + 1 \in 1 .. m /\ j - i + 1 \in 1 .. w /\ i + (j - i + 1) - 1 = j
      BY <2>2
    <3>2. up[j - i + 1] = x
      BY <3>1, <2>1, <1>4, <1>8
    <3> QED BY <3>1, <3>2
  <2>3. CASE ~(i <= j)
    <3>1. j \in 1 .. n /\ m + j \in 1 .. w
      BY <2>3
    <3>2. up[m + j] = x
      BY <3>1, <2>1, <1>5, <1>8
    <3> QED BY <3>1, <3>2
  <2> QED BY <2>2, <2>3
<1>12. Range(up) = S
  BY <1>9, <1>11 DEF Range
<1> QED BY <1>9, <1>10, <1>12 DEF IsRing, S

(* The other direction.                                                     *)
LEMMA RotatedDown ==
  ASSUME NEW w \in Nat \ {0}, NEW up, IsRing(up, w), up[1] = 0,
         NEW down, down = << 0 >> \o Reverse(Tail(up))
  PROVE  IsRing(down, w)
<1> DEFINE S == 0 .. w - 1
           n == w - 1
<1>1. up \in [1 .. w -> S] /\ Range(up) = S /\ 0 \in S
  BY DEF IsRing
<1> HIDE DEF S
<1>2. up \in Seq(S) /\ Len(up) = w /\ DOMAIN up = 1 .. w /\ up # <<>>
  BY <1>1
<1>3. PICK t : t = Tail(up)
  OBVIOUS
<1>4. t \in Seq(S) /\ Len(t) = n /\ \A k \in 1 .. n : t[k] = up[k + 1]
  BY <1>2, <1>3
<1>5. PICK b : b = Reverse(t)
  OBVIOUS
<1>6. b \in Seq(S) /\ Len(b) = n /\ \A k \in 1 .. n : b[k] = up[w + 1 - k]
  <2>1. b = [k \in 1 .. n |-> t[n - k + 1]]
    BY <1>4, <1>5 DEF Reverse
  <2>2. \A k \in 1 .. n : n - k + 1 \in 1 .. n /\ (n - k + 1) + 1 = w + 1 - k /\ w + 1 - k \in 1 .. w
    OBVIOUS
  <2>3. \A k \in 1 .. n : b[k] = up[w + 1 - k]
    BY <2>1, <2>2, <1>4
  <2>4. \A k \in 1 .. n : up[w + 1 - k] \in S
    BY <2>2, <1>1
  <2>5. \A k \in 1 .. n : b[k] \in S
    BY <2>3, <2>4
  <2>6. n \in Nat /\ b = [k \in 1 .. n |-> b[k]]
    BY <2>1
  <2>7. b \in [1 .. n -> S]
    BY <2>5, <2>6
  <2> HIDE DEF n
  <2>8. b \in Seq(S) /\ Len(b) = n
    BY <2>6, <2>7
  <2> QED BY <2>3, <2>8
<1>9. down = << 0 >> \o b
  BY <1>3, <1>5
<1>11. /\ down \in Seq(S) /\ Len(down) = w
       /\ down[1] = 0
       /\ \A k \in 1 .. n : down[1 + k] = b[k]
  <2>0. << 0 >> \in Seq(S) /\ n \in Nat /\ 1 + n = w
    BY <1>1
  <2>1. PICK a : a = << 0 >>
    OBVIOUS
  <2>2. a \in Seq(S) /\ b \in Seq(S) /\ down = a \o b
    BY <1>6, <1>9, <2>0, <2>1
  <2>3. /\ down \in Seq(S) /\ Len(down) = Len(a) + Len(b)
        /\ \A k \in 1 .. Len(a) : down[k] = a[k]
        /\ \A k \in 1 .. Len(b) : down[Len(a) + k] = b[k]
    BY ONLY <2>2, ConcatSeq
  <2>4. Len(a) = 1 /\ a[1] = 0 /\ Len(b) = n
    BY <1>6, <2>1
  <2> HIDE DEF n
  <2> QED BY <2>0, <2>3, <2>4
<1>12. down \in [1 .. w -> S] /\ down[1] = 0
  BY <1>11, SeqFunction
<1>13. ASSUME NEW x \in S PROVE \E k \in 1 .. w : down[k] = x
  <2>1. PICK j \in 1 .. w : up[j] = x
    BY <1>1, <1>2 DEF Range
  <2>2. CASE j = 1
    <3>1. 1 \in 1 .. w /\ down[1] = x
      BY <2>1, <2>2, <1>12
    <3> QED BY <3>1
  <2>3. CASE j # 1
    <3>1. w + 1 - j \in 1 .. n /\ 1 + (w + 1 - j) \in 1 .. w /\ w + 1 - (w + 1 - j) = j
      BY <2>3
    <3>2. down[1 + (w + 1 - j)] = x
      BY <3>1, <2>1, <1>6, <1>11
    <3> QED BY <3>1, <3>2
  <2> QED BY <2>2, <2>3
<1>14. Range(down) = S
  BY <1>12, <1>13 DEF Range
<1> QED BY <1>12, <1>14 DEF IsRing, S

(* RotateToZero keeps the ring.                                             *)
LEMMA RotatedRing ==
  ASSUME NEW w \in Nat \ {0}, NEW o, IsRing(o, w)
  PROVE  IsRing(RotateToZero(o), w)
<1> DEFINE i == CHOOSE k \in DOMAIN o : o[k] = 0
           up == SubSeq(o, i, Len(o)) \o SubSeq(o, 1, i - 1)
           down == << 0 >> \o Reverse(Tail(up))
<1>1. RotateToZero(o) = LexMin({up, down})
  BY DEF RotateToZero
<1>2. i \in 1 .. w /\ o[i] = 0
  <2>1. 0 \in Range(o) /\ DOMAIN o = 1 .. w
    BY DEF IsRing
  <2>2. \E k \in DOMAIN o : o[k] = 0
    BY <2>1 DEF Range
  <2> QED BY <2>1, <2>2
<1> HIDE DEF i
<1>3. IsRing(up, w) /\ up[1] = 0
  <2>1. w \in Nat /\ up = Turned(o, i)
    BY DEF Turned
  <2> HIDE DEF up
  <2>2. IsRing(up, w) /\ up[1] = o[i]
    BY <1>2, <2>1, RotatedUp
  <2> QED BY <1>2, <2>2
<1> HIDE DEF up
<1>4. IsRing(down, w)
  <2> HIDE DEF down
  <2> QED BY <1>3, RotatedDown DEF down
<1> HIDE DEF down
<1>5. {up, down} \in SUBSET Words(w) /\ IsFiniteSet({up, down}) /\ {up, down} # {}
  <2>1. up \in Words(w) /\ down \in Words(w)
    <3>1. \A x \in 0 .. w - 1 : x \in Int
      OBVIOUS
    <3> QED BY <3>1, <1>3, <1>4 DEF IsRing, Words
  <2>2. IsFiniteSet({up} \cup {down})
    BY FS_Singleton, FS_Union
  <2>3. {up} \cup {down} = {up, down}
    OBVIOUS
  <2> QED BY <2>1, <2>2, <2>3
<1>6. LexMin({up, down}) \in {up, down}
  BY <1>5, LexMinIn
<1> QED BY <1>1, <1>3, <1>4, <1>6

Rings(w) == {o \in [1 .. w -> 0 .. w - 1] : IsRing(o, w)}

(* The candidates of the search are rings, finitely many.                   *)
LEMMA CandidatesRings ==
  ASSUME NEW t, IsTopology(t)
  PROVE  Candidates(t) \subseteq Rings(t.world) /\ IsFiniteSet(Candidates(t))
<1> DEFINE w == t.world
<1>0. w \in Nat \ {0} /\ RanksOf(t) = 0 .. w - 1 /\ 0 \in RanksOf(t)
  BY DEF IsTopology, RanksOf
<1>1. ASSUME NEW o \in CollectRings(t) PROVE IsRing(o, w)
  <2>1. o \in Paths(t, 0, FALSE)
    BY DEF CollectRings
  <2> QED BY <2>1, <1>0, PathsSimple
<1>2. ASSUME NEW start \in RanksOf(t), NEW o \in Greedy(t, start) PROVE IsRing(o, w)
  <2>1. PICK p \in Paths(t, start, TRUE) : o = RotateToZero(p)
    BY DEF Greedy
  <2>2. IsRing(p, w)
    BY PathsSimple
  <2>3. IsRing(RotateToZero(p), w)
    <3> HIDE DEF w
    <3> QED BY <2>2, <1>0, RotatedRing
  <2> QED BY <2>1, <2>3
<1>3. \A o \in Candidates(t) : IsRing(o, w)
  BY <1>1, <1>2 DEF Candidates
<1>4. Candidates(t) \subseteq Rings(w)
  BY <1>3 DEF Rings, IsRing
<1>5. IsFiniteSet([1 .. w -> 0 .. w - 1])
  <2>1. IsFiniteSet(0 .. w - 1) /\ w \in Nat
    BY <1>0, FS_Interval
  <2> HIDE DEF w
  <2> QED BY <2>1, FiniteFunctions
<1>6. Candidates(t) \in SUBSET [1 .. w -> 0 .. w - 1]
  BY <1>4 DEF Rings
<1>7. IsFiniteSet(Candidates(t))
  BY <1>5, <1>6, FS_Subset
<1> QED BY <1>4, <1>7

(* A ring along links only.                                                 *)
Closed(t, o) == IsRing(o, t.world) /\ Range(Edges(o)) \subseteq DOMAIN t.links

(* Its score.                                                               *)
LEMMA RingScoreInts ==
  ASSUME NEW t, IsTopology(t), NEW o, Closed(t, o)
  PROVE  \E a, b, c \in Int : RingScore(t, o) = <<a, b, c>>
<1> DEFINE w == t.world
           bandwidth == [i \in DOMAIN o |-> t.links[Edges(o)[i]].bandwidth]
           latency == [i \in DOMAIN o |-> t.links[Edges(o)[i]].latency]
<1>0. w \in Nat \ {0} /\ DOMAIN o = 1 .. w /\ Len(o) = w
  BY DEF IsTopology, Closed, IsRing
<1>1. ASSUME NEW i \in 1 .. w PROVE t.links[Edges(o)[i]] \in LinkCosts
  <2>1. Edges(o)[i] \in Range(Edges(o))
    BY <1>0 DEF Edges, Range
  <2>2. Edges(o)[i] \in DOMAIN t.links
    BY <2>1 DEF Closed
  <2> QED BY <2>2 DEF IsTopology
<1>2. \A i \in 1 .. w : bandwidth[i] \in Int /\ latency[i] \in Int
  <2> SUFFICES ASSUME NEW i \in 1 .. w PROVE bandwidth[i] \in Int /\ latency[i] \in Int
    OBVIOUS
  <2>1. t.links[Edges(o)[i]].bandwidth \in Nat /\ t.links[Edges(o)[i]].latency \in Nat
    BY <1>1 DEF LinkCosts
  <2> QED BY <2>1, <1>0
<1>3. bandwidth = [i \in 1 .. w |-> bandwidth[i]]
  BY <1>0
<1>4. RingScore(t, o) = <<-Min(Range(bandwidth)), -Total(w, bandwidth), Total(w, latency)>>
  BY <1>0 DEF RingScore
<1> HIDE DEF w, bandwidth, latency
<1>5. Total(w, bandwidth) \in Int /\ Total(w, latency) \in Int
  BY <1>0, <1>2, TotalInt
<1>6. Min(Range(bandwidth)) \in Int
  <2>1. IsFiniteSet(1 .. w) /\ 1 .. w # {}
    <3>1. 1 \in Int /\ w \in Int /\ 1 \in 1 .. w
      BY <1>0
    <3> QED BY <3>1, FS_Interval
  <2>2. IsFiniteSet(Range(bandwidth)) /\ Range(bandwidth) # {}
    BY <2>1, <1>3, FiniteRange
  <2>3. Range(bandwidth) \subseteq Int
    BY <1>2, <1>3 DEF Range
  <2> QED BY <2>2, <2>3, MinMaxIn
<1>7. -Min(Range(bandwidth)) \in Int /\ -Total(w, bandwidth) \in Int
  BY <1>5, <1>6
<1> QED BY <1>4, <1>5, <1>7

(* What rings are compared by is a word, and ends with the ring.            *)
LEMMA RingKeyWord ==
  ASSUME NEW t, IsTopology(t), NEW o, Closed(t, o), NEW selected, NEW m \in Nat, DOMAIN selected = 1 .. m,
         NEW z, z = RingKey(t, o, selected)
  PROVE  z \in Words(5 + t.world) /\ \A i \in 1 .. t.world : z[5 + i] = o[i]
<1> DEFINE w == t.world
           uses(i) == {k \in DOMAIN selected : {o[i], Around(o, i)} \in RingEdges(selected[k])}
           usage == [i \in DOMAIN o |-> Cardinality(uses(i))]
<1>0. w \in Nat \ {0} /\ DOMAIN o = 1 .. w /\ Len(o) = w /\ o \in Seq(Int)
  <2>1. w \in Nat \ {0} /\ o \in [1 .. w -> 0 .. w - 1]
    BY DEF IsTopology, Closed, IsRing
  <2>2. \A i \in 1 .. w : o[i] \in Int
    BY <2>1
  <2>3. o \in [1 .. w -> Int]
    BY <2>1, <2>2
  <2> QED BY <2>1, <2>3
<1>1. ASSUME NEW i \in 1 .. w PROVE Cardinality(uses(i)) \in Int
  <2>1. IsFiniteSet(1 .. m)
    BY FS_Interval
  <2>2. uses(i) \in SUBSET (1 .. m)
    OBVIOUS
  <2>3. IsFiniteSet(uses(i))
    <3> HIDE DEF uses
    <3> QED BY <2>1, <2>2, FS_Subset
  <2> HIDE DEF uses
  <2> QED BY <2>3, FS_CardinalityType
<1>2. \A i \in 1 .. w : usage[i] \in Int
  BY <1>0, <1>1
<1>3. usage = [i \in 1 .. w |-> usage[i]]
  BY <1>0
<1>4. RingKey(t, o, selected) = <<Max(Range(usage)), Total(w, usage)>> \o RingScore(t, o) \o o
  BY <1>0 DEF RingKey
<1> HIDE DEF w, usage
<1>5. Total(w, usage) \in Int
  BY <1>0, <1>2, TotalInt
<1>6. Max(Range(usage)) \in Int
  <2>1. IsFiniteSet(1 .. w) /\ 1 .. w # {}
    <3>1. 1 \in Int /\ w \in Int /\ 1 \in 1 .. w
      BY <1>0
    <3> QED BY <3>1, FS_Interval
  <2>2. IsFiniteSet(Range(usage)) /\ Range(usage) # {}
    BY <2>1, <1>3, FiniteRange
  <2>3. Range(usage) \subseteq Int
    BY <1>2, <1>3 DEF Range
  <2> QED BY <2>2, <2>3, MinMaxIn
<1>7. PICK a, b, c \in Int : RingScore(t, o) = <<a, b, c>>
  BY RingScoreInts
<1>8. PICK p, q, r : p = <<Max(Range(usage)), Total(w, usage)>> /\ q = <<a, b, c>> /\ r = p \o q
  OBVIOUS
<1>9. p \in Seq(Int) /\ q \in Seq(Int) /\ Len(p) = 2 /\ Len(q) = 3
  BY <1>5, <1>6, <1>8
<1>10. r \in Seq(Int) /\ Len(r) = Len(p) + Len(q)
  BY ONLY <1>8, <1>9, ConcatSeq
<1>11. Len(r) = 5
  BY <1>9, <1>10
<1>12. z = r \o o
  BY <1>4, <1>7, <1>8
<1>13. /\ z \in Seq(Int) /\ Len(z) = Len(r) + Len(o)
       /\ \A k \in 1 .. Len(o) : z[Len(r) + k] = o[k]
  BY ONLY <1>0, <1>10, <1>12, ConcatSeq
<1>14. Len(z) = 5 + w /\ \A k \in 1 .. w : z[5 + k] = o[k]
  BY <1>0, <1>11, <1>13
<1>15. z \in [1 .. Len(z) -> Int]
  BY <1>13, SeqFunction
<1> QED BY <1>14, <1>15 DEF Words, w

(* One more ring is selected from those that are left.                      *)
LEMMA PickOne ==
  ASSUME NEW t, IsTopology(t), NEW C, IsFiniteSet(C), \A o \in C : Closed(t, o),
         NEW s \in [left : SUBSET C, selected : Seq(C)]
  PROVE  Pick(t, s) \in [left : SUBSET C, selected : Seq(C)]
<1> DEFINE best(o) == \A q \in s.left : o = q \/ LexLess(RingKey(t, o, s.selected), RingKey(t, q, s.selected))
           ring == CHOOSE o \in s.left : best(o)
           w == t.world
           key == [o \in s.left |-> RingKey(t, o, s.selected)]
           R == ByKey(s.left, key)
<1>0. w \in Nat /\ s.left \in SUBSET C /\ s.selected \in Seq(C)
  BY DEF IsTopology
<1>1. PICK m \in Nat : DOMAIN s.selected = 1 .. m
  BY <1>0
<1>2. \A o \in s.left : key[o] \in Words(5 + w) /\ \A i \in 1 .. w : key[o][5 + i] = o[i]
  <2> SUFFICES ASSUME NEW o \in s.left PROVE key[o] \in Words(5 + w) /\ \A i \in 1 .. w : key[o][5 + i] = o[i]
    OBVIOUS
  <2>1. Closed(t, o) /\ key[o] = RingKey(t, o, s.selected)
    BY <1>0
  <2> HIDE DEF key
  <2> QED BY <1>1, <2>1, RingKeyWord
<1>3. key \in [s.left -> Words(5 + w)]
  BY <1>2
<1>4. ASSUME NEW x \in s.left, NEW y \in s.left, key[x] = key[y] PROVE x = y
  <2>1. \A i \in 1 .. w : x[i] = y[i]
    <3> HIDE DEF key, w
    <3> QED BY <1>2, <1>4
  <2>2. x \in [1 .. w -> 0 .. w - 1] /\ y \in [1 .. w -> 0 .. w - 1]
    BY <1>0 DEF Closed, IsRing
  <2>3. x = [i \in 1 .. w |-> x[i]] /\ y = [i \in 1 .. w |-> y[i]]
    <3> HIDE DEF key, w
    <3> QED BY <2>2
  <2> HIDE DEF key, w
  <2> QED BY <2>1, <2>3
<1>5. CASE s.left = {}
  BY <1>5 DEF Pick
<1>6. CASE s.left # {}
  <2>1. Orders(R, s.left)
    <3>1. 5 + w \in Nat
      BY <1>0
    <3> HIDE DEF key, w
    <3> QED BY <1>3, <1>4, <3>1, KeysOrder
  <2>2. IsFiniteSet(s.left)
    BY <1>0, FS_Subset
  <2>3. PICK x : IsFirst(R, s.left, x)
    <3>1. s.left \in SUBSET s.left
      OBVIOUS
    <3> HIDE DEF R
    <3> QED BY <2>1, <2>2, <3>1, <1>6, FirstExists
  <2>4. x \in s.left /\ best(x)
    <3>1. x \in s.left /\ \A y \in s.left : x = y \/ <<x, y>> \in R
      <4> HIDE DEF R
      <4> QED BY <2>3 DEF IsFirst
    <3> QED BY <3>1 DEF ByKey
  <2>5. ring \in s.left
    <3> HIDE DEF best
    <3> QED BY <2>4
  <2>6. Pick(t, s) = [left |-> s.left \ {ring}, selected |-> Append(s.selected, ring)]
    BY <1>6 DEF Pick
  <2> HIDE DEF ring
  <2>7. s.left \ {ring} \in SUBSET C /\ Append(s.selected, ring) \in Seq(C)
    BY <2>5, <1>0
  <2> QED BY <2>6, <2>7
<1> QED BY <1>5, <1>6

IsPicked(f, t, candidates, maximum) ==
  f = [n \in 0 .. maximum |->
         IF n = 0 THEN [left |-> candidates, selected |-> <<>>] ELSE Pick(t, f[n - 1])]

(* SelectDiverse selects candidates.                                        *)
LEMMA SelectedFrom ==
  ASSUME NEW t, IsTopology(t), NEW C, IsFiniteSet(C), \A o \in C : Closed(t, o), NEW maximum \in Nat
  PROVE  SelectDiverse(t, C, maximum) \in Seq(C)
<1> DEFINE D == [left : SUBSET C, selected : Seq(C)]
           a == [left |-> C, selected |-> <<>>]
           G == [x \in D \X Nat |-> Pick(t, x[1])]
<1>1. \A s \in D : Pick(t, s) \in D
  BY PickOne
<1>2. a \in D
  OBVIOUS
<1>3. G \in [D \X Nat -> D]
  <2> HIDE DEF D
  <2> QED BY <1>1
<1>4. PICK f : Iterates(f, maximum, D, a, G)
  <2> HIDE DEF D, G, a
  <2> QED BY <1>2, <1>3, IterationUpTo
<1>5. f \in [0 .. maximum -> D] /\ f[0] = a /\ \A k \in 0 .. maximum - 1 : f[k + 1] = G[<<f[k], k + 1>>]
  <2> HIDE DEF D, G, a
  <2> QED BY <1>4 DEF Iterates
<1>6. ASSUME NEW n \in 0 .. maximum, n # 0 PROVE f[n] = Pick(t, f[n - 1])
  <2>1. n - 1 \in 0 .. maximum - 1 /\ (n - 1) + 1 = n /\ n - 1 \in 0 .. maximum /\ n \in Nat
    BY <1>6
  <2>2. f[n] = G[<<f[n - 1], n>>] /\ f[n - 1] \in D
    <3> HIDE DEF D, G, a
    <3> QED BY <1>5, <2>1
  <2> HIDE DEF D
  <2> QED BY <2>1, <2>2
<1>7. IsPicked(f, t, C, maximum)
  <2> HIDE DEF D, G
  <2> QED BY <1>5, <1>6 DEF IsPicked
<1> HIDE DEF G
<1> DEFINE h == CHOOSE g : IsPicked(g, t, C, maximum)
<1>8. IsPicked(h, t, C, maximum)
  BY <1>7, Zenon
<1>9. SelectDiverse(t, C, maximum) = h[maximum].selected
  BY DEF SelectDiverse, IsPicked
<1> HIDE DEF h
<1> DEFINE Bad == {n \in 0 .. maximum : h[n] \notin D}
<1>10. Bad = {}
  <2> SUFFICES ASSUME Bad # {} PROVE FALSE
    OBVIOUS
  <2>1. PICK n \in Bad : \A y \in Bad : n <= y
    <3>1. Bad \in SUBSET Nat
      OBVIOUS
    <3> HIDE DEF Bad
    <3> QED BY <3>1, LeastElement
  <2>2. n \in 0 .. maximum /\ h[n] \notin D
    OBVIOUS
  <2>3. h[n] = IF n = 0 THEN a ELSE Pick(t, h[n - 1])
    <3> HIDE DEF D
    <3> QED BY <2>2, <1>8 DEF IsPicked
  <2> HIDE DEF D, a
  <2>4. n # 0
    BY <2>2, <2>3, <1>2
  <2>5. n - 1 \in 0 .. maximum /\ ~(n <= n - 1)
    BY <2>2, <2>4
  <2>6. h[n - 1] \in D
    BY <2>1, <2>5
  <2> QED BY <2>2, <2>3, <2>4, <2>6, <1>1
<1>11. h[maximum] \in D
  <2>1. maximum \in 0 .. maximum
    OBVIOUS
  <2> HIDE DEF D
  <2> QED BY <2>1, <1>10
<1> QED BY <1>9, <1>11

(* What the ring search returns are rings of the world.                     *)
LEMMA BestAreRings ==
  ASSUME NEW t, IsTopology(t), NEW maximum \in Nat
  PROVE  BestRingOrders(t, maximum) \in Seq(Rings(t.world))
<1>1. CASE t.world = 1
  <2>1. BestRingOrders(t, maximum) = << << 0 >> >>
    BY <1>1 DEF BestRingOrders
  <2>2. PICK o : o = << 0 >>
    OBVIOUS
  <2>3. o \in [1 .. 1 -> 0 .. 1 - 1] /\ DOMAIN o = 1 .. 1 /\ o[1] = 0
    BY <2>2
  <2>4. IsRing(o, 1)
    BY <2>3 DEF IsRing, Range
  <2>5. o \in Rings(t.world)
    BY <2>3, <2>4, <1>1 DEF Rings
  <2>6. <<o>> \in Seq(Rings(t.world))
    BY <2>5
  <2> QED BY <2>1, <2>2, <2>6
<1>2. CASE t.world # 1 /\ \E o \in Candidates(t) : ~(Range(Edges(o)) \subseteq DOMAIN t.links)
  <2>1. BestRingOrders(t, maximum) = <<>>
    BY <1>2 DEF BestRingOrders
  <2> QED BY <2>1
<1>3. CASE t.world # 1 /\ ~ \E o \in Candidates(t) : ~(Range(Edges(o)) \subseteq DOMAIN t.links)
  <2> DEFINE C == Candidates(t)
             B == SelectDiverse(t, C, maximum)
  <2>1. BestRingOrders(t, maximum) = B
    BY <1>3 DEF BestRingOrders
  <2>2. C \subseteq Rings(t.world) /\ IsFiniteSet(C)
    BY CandidatesRings
  <2>3. \A o \in C : Closed(t, o)
    BY <2>2, <1>3 DEF Closed, Rings
  <2> HIDE DEF C
  <2>4. B \in Seq(C)
    BY <2>2, <2>3, SelectedFrom
  <2> HIDE DEF B
  <2>5. B \in Seq(Rings(t.world))
    BY <2>2, <2>4
  <2> QED BY <2>1, <2>5
<1> QED BY <1>1, <1>2, <1>3

(* No two rings have the same edges.                                        *)
Differ(orders) == \A i, j \in DOMAIN orders : i # j => RingEdges(orders[i]) # RingEdges(orders[j])

(* A ring is added unless its edges are those of another.                   *)
LEMMA WithRingDiffers ==
  ASSUME NEW S, NEW orders \in Seq(S), Differ(orders), NEW o \in S
  PROVE  WithRing(orders, o) \in Seq(S) /\ Differ(WithRing(orders, o))
<1>1. CASE \E i \in DOMAIN orders : RingEdges(orders[i]) = RingEdges(o)
  BY <1>1 DEF WithRing
<1>2. CASE ~ \E i \in DOMAIN orders : RingEdges(orders[i]) = RingEdges(o)
  <2>1. PICK z : z = Append(orders, o)
    OBVIOUS
  <2>2. WithRing(orders, o) = z
    BY <1>2, <2>1 DEF WithRing
  <2>3. PICK n \in Nat : Len(orders) = n /\ DOMAIN orders = 1 .. n
    OBVIOUS
  <2>4. z \in Seq(S) /\ DOMAIN z = 1 .. n + 1
    BY <2>1, <2>3
  <2>5. z[n + 1] = o /\ \A i \in 1 .. n : z[i] = orders[i]
    BY <2>1, <2>3
  <2>6. ASSUME NEW i \in 1 .. n + 1, NEW j \in 1 .. n + 1, i # j PROVE RingEdges(z[i]) # RingEdges(z[j])
    <3>1. (i = n + 1 \/ i \in 1 .. n) /\ (j = n + 1 \/ j \in 1 .. n)
      OBVIOUS
    <3> QED BY <3>1, <2>3, <2>5, <2>6, <1>2 DEF Differ
  <2>7. Differ(z)
    BY <2>4, <2>6 DEF Differ
  <2> QED BY <2>2, <2>4, <2>7
<1> QED BY <1>1, <1>2

IsKept(f, best, primary) ==
  f = [k \in 0 .. Len(best) |-> IF k = 0 THEN <<primary>> ELSE WithRing(f[k - 1], best[k])]

(* ring_orders_with_primary: the rings it returns differ, the primary one   *)
(* comes first.                                                             *)
LEMMA PrimaryDiffers ==
  ASSUME NEW t, NEW primary, NEW maximum, NEW S, primary \in S, BestRingOrders(t, maximum) \in Seq(S)
  PROVE  /\ RingOrdersWithPrimary(t, primary, maximum) \in Seq(S)
         /\ Differ(RingOrdersWithPrimary(t, primary, maximum))
         /\ RingOrdersWithPrimary(t, primary, maximum)[1] = primary
<1> DEFINE best == BestRingOrders(t, maximum)
           N == Len(best)
           D == {x \in Seq(S) : Differ(x) /\ x # <<>> /\ x[1] = primary}
           a == <<primary>>
           G == [x \in D \X Nat |-> WithRing(x[1], IF x[2] \in 1 .. N THEN best[x[2]] ELSE primary)]
<1>0. N \in Nat /\ \A k \in 1 .. N : best[k] \in S
  <2> HIDE DEF best
  <2> QED BY DEF best
<1> HIDE DEF best, N
<1>1. ASSUME NEW x \in D, NEW o \in S PROVE WithRing(x, o) \in D
  <2>1. x \in Seq(S) /\ Differ(x) /\ x # <<>> /\ x[1] = primary
    OBVIOUS
  <2>2. WithRing(x, o) \in Seq(S) /\ Differ(WithRing(x, o))
    BY <2>1, WithRingDiffers
  <2>3. Append(x, o) # <<>> /\ Append(x, o)[1] = x[1]
    BY <2>1
  <2> QED BY <2>1, <2>2, <2>3 DEF WithRing
<1>2. a \in D
  <2>1. a \in Seq(S) /\ DOMAIN a = {1}
    OBVIOUS
  <2>2. Differ(a)
    BY <2>1 DEF Differ
  <2>3. a # <<>> /\ a[1] = primary
    OBVIOUS
  <2> QED BY <2>1, <2>2, <2>3
<1>3. G \in [D \X Nat -> D]
  <2>1. \A k \in Nat : (IF k \in 1 .. N THEN best[k] ELSE primary) \in S
    BY <1>0
  <2> HIDE DEF D
  <2> QED BY <1>1, <2>1
<1>4. PICK f : Iterates(f, N, D, a, G)
  <2> HIDE DEF D, G, a
  <2> QED BY <1>0, <1>2, <1>3, IterationUpTo
<1>5. f \in [0 .. N -> D] /\ f[0] = a /\ \A k \in 0 .. N - 1 : f[k + 1] = G[<<f[k], k + 1>>]
  <2> HIDE DEF D, G, a
  <2> QED BY <1>4 DEF Iterates
<1>6. ASSUME NEW n \in 0 .. N, n # 0 PROVE f[n] = WithRing(f[n - 1], best[n])
  <2>1. n - 1 \in 0 .. N - 1 /\ (n - 1) + 1 = n /\ n - 1 \in 0 .. N /\ n \in Nat /\ n \in 1 .. N
    BY <1>0, <1>6
  <2>2. f[n] = G[<<f[n - 1], n>>] /\ f[n - 1] \in D
    <3> HIDE DEF D, G, a
    <3> QED BY <1>5, <2>1
  <2> HIDE DEF D
  <2> QED BY <2>1, <2>2
<1>7. IsKept(f, best, primary)
  <2> HIDE DEF D, G
  <2> QED BY <1>5, <1>6 DEF IsKept, N
<1> HIDE DEF G
<1> DEFINE h == CHOOSE g : IsKept(g, best, primary)
<1>8. IsKept(h, best, primary)
  BY <1>7, Zenon
<1>9. RingOrdersWithPrimary(t, primary, maximum) = h[N]
  BY DEF RingOrdersWithPrimary, IsKept, best, N
<1> HIDE DEF h
<1> DEFINE Bad == {n \in 0 .. N : h[n] \notin D}
<1>10. Bad = {}
  <2> SUFFICES ASSUME Bad # {} PROVE FALSE
    OBVIOUS
  <2>1. PICK n \in Bad : \A y \in Bad : n <= y
    <3>1. Bad \in SUBSET Nat
      BY <1>0
    <3> HIDE DEF Bad
    <3> QED BY <3>1, LeastElement
  <2>2. n \in 0 .. N /\ h[n] \notin D
    OBVIOUS
  <2>3. h[n] = IF n = 0 THEN a ELSE WithRing(h[n - 1], best[n])
    <3> HIDE DEF D
    <3> QED BY <2>2, <1>8 DEF IsKept, N
  <2> HIDE DEF D, a
  <2>4. n # 0
    BY <2>2, <2>3, <1>2
  <2>5. n - 1 \in 0 .. N /\ ~(n <= n - 1) /\ n \in 1 .. N
    BY <1>0, <2>2, <2>4
  <2>6. h[n - 1] \in D
    BY <2>1, <2>5
  <2> QED BY <2>2, <2>3, <2>4, <2>5, <2>6, <1>0, <1>1
<1>11. h[N] \in D
  <2>1. N \in 0 .. N
    BY <1>0
  <2> HIDE DEF D
  <2> QED BY <2>1, <1>10
<1> QED BY <1>9, <1>11

(* The rings of a tuning.                                                   *)
RingsGood(rings, world) ==
  /\ \A o \in Range(rings) : ValidRingOrder(o, world)
  /\ Differ(rings)

(* A tuning is made with rings of its world, its own first.                 *)
LEMMA MadeRings ==
  ASSUME NEW t, IsTopology(t), NEW ring, ValidRingOrder(ring, t.world)
  PROVE  /\ RingsGood(RingOrdersWithPrimary(t, ring, MaxRingChannels), t.world)
         /\ RingOrdersWithPrimary(t, ring, MaxRingChannels)[1] = ring
<1> DEFINE S == Rings(t.world) \cup {ring}
           K == RingOrdersWithPrimary(t, ring, MaxRingChannels)
           B == BestRingOrders(t, MaxRingChannels)
<1>1. B \in Seq(Rings(t.world))
  BY TuningAssumption, BestAreRings
<1>2. B \in Seq(S)
  <2> HIDE DEF B
  <2> QED BY <1>1
<1>3. K \in Seq(S) /\ Differ(K) /\ K[1] = ring
  <2>1. ring \in S
    OBVIOUS
  <2> HIDE DEF S
  <2> QED BY <1>2, <2>1, PrimaryDiffers
<1>4. ASSUME NEW o \in Rings(t.world) PROVE ValidRingOrder(o, t.world)
  <2>1. t.world \in Nat /\ o \in [1 .. t.world -> 0 .. t.world - 1] /\ Range(o) = 0 .. t.world - 1
    BY DEF Rings, IsRing, IsTopology
  <2>2. Len(o) = t.world
    BY <2>1
  <2> QED BY <2>1, <2>2 DEF ValidRingOrder
<1>5. \A o \in S : ValidRingOrder(o, t.world)
  BY <1>4
<1> HIDE DEF S, K
<1>6. Range(K) \subseteq S
  BY <1>3 DEF Range
<1> QED BY <1>3, <1>5, <1>6 DEF RingsGood, K

(* The search for one ring finds a ring of the world, if any.               *)
LEMMA PrimaryRings ==
  ASSUME NEW t, IsTopology(t), NEW ring \in Range(BestRingOrders(t, 1))
  PROVE  ValidRingOrder(ring, t.world)
<1> DEFINE B == BestRingOrders(t, 1)
<1>1. B \in Seq(Rings(t.world))
  BY BestAreRings
<1> HIDE DEF B
<1>2. ring \in Rings(t.world)
  BY <1>1 DEF Range, B
<1>3. t.world \in Nat /\ ring \in [1 .. t.world -> 0 .. t.world - 1] /\ Range(ring) = 0 .. t.world - 1
  BY <1>2 DEF Rings, IsRing, IsTopology
<1>4. Len(ring) = t.world
  BY <1>3
<1> QED BY <1>3, <1>4 DEF ValidRingOrder

-----------------------------------------------------------------------------
(* Groups.                                                                  *)

(* Where a step leads from each of a row of sets to the next.               *)
LEMMA StaysIn ==
  ASSUME NEW n \in Nat, NEW D, NEW h, h[0] \in D[0],
         \A k \in 0 .. n - 1 : h[k] \in D[k] => h[k + 1] \in D[k + 1]
  PROVE  \A k \in 0 .. n : h[k] \in D[k]
<1> DEFINE Bad == {k \in 0 .. n : h[k] \notin D[k]}
<1> SUFFICES ASSUME Bad # {} PROVE FALSE
  OBVIOUS
<1>1. PICK k \in Bad : \A y \in Bad : k <= y
  <2>1. Bad \in SUBSET Nat
    OBVIOUS
  <2> HIDE DEF Bad
  <2> QED BY <2>1, LeastElement
<1>2. k \in 0 .. n /\ h[k] \notin D[k] /\ k # 0
  OBVIOUS
<1>3. k - 1 \in 0 .. n - 1 /\ k - 1 \in 0 .. n /\ (k - 1) + 1 = k /\ ~(k <= k - 1)
  BY <1>2
<1>4. h[k - 1] \in D[k - 1]
  BY <1>1, <1>3
<1> QED BY <1>2, <1>3, <1>4

IsReach(f, t, first, free, threshold, bytes) ==
  f = [n \in 0 .. t.world |->
         IF n = 0 THEN {first}
         ELSE UNION {g \cup (free \cap Neighbours(t, g, threshold, bytes)) : g \in {f[n - 1]}}]

(* A group holds its first rank and free ranks only.                        *)
LEMMA ReachFree ==
  ASSUME NEW t, IsTopology(t), NEW free, NEW first \in free, NEW threshold, NEW bytes
  PROVE  /\ Reach(t, first, free, threshold, bytes) \subseteq free
         /\ first \in Reach(t, first, free, threshold, bytes)
<1> DEFINE D == {X \in SUBSET free : first \in X}
           Step(X) == X \cup (free \cap Neighbours(t, X, threshold, bytes))
           G == [x \in D \X Nat |-> Step(x[1])]
           w == t.world
<1>0. w \in Nat
  BY DEF IsTopology
<1>1. \A X \in D : Step(X) \in D
  OBVIOUS
<1>2. {first} \in D
  OBVIOUS
<1>3. \A X : UNION {g \cup (free \cap Neighbours(t, g, threshold, bytes)) : g \in {X}} = Step(X)
  OBVIOUS
<1> HIDE DEF Step
<1>4. G \in [D \X Nat -> D]
  <2> HIDE DEF D
  <2> QED BY <1>1
<1>5. PICK f : Iterates(f, w, D, {first}, G)
  <2> HIDE DEF D, G, w
  <2> QED BY <1>0, <1>2, <1>4, IterationUpTo
<1>6. f \in [0 .. w -> D] /\ f[0] = {first} /\ \A k \in 0 .. w - 1 : f[k + 1] = G[<<f[k], k + 1>>]
  <2> HIDE DEF D, G, w
  <2> QED BY <1>5 DEF Iterates
<1>7. ASSUME NEW n \in 0 .. w, n # 0 PROVE f[n] = Step(f[n - 1])
  <2>1. n - 1 \in 0 .. w - 1 /\ (n - 1) + 1 = n /\ n - 1 \in 0 .. w /\ n \in Nat
    BY <1>0, <1>7
  <2>2. f[n] = G[<<f[n - 1], n>>] /\ f[n - 1] \in D
    <3> HIDE DEF D, G, w
    <3> QED BY <1>6, <2>1
  <2> HIDE DEF D
  <2> QED BY <2>1, <2>2
<1> HIDE DEF D, G
<1>8. IsReach(f, t, first, free, threshold, bytes)
  <2>1. f = [n \in 0 .. w |-> IF n = 0 THEN {first} ELSE Step(f[n - 1])]
    <3> HIDE DEF w
    <3> QED BY <1>6, <1>7
  <2> QED BY <2>1, <1>3 DEF IsReach
<1> DEFINE h == CHOOSE g : IsReach(g, t, first, free, threshold, bytes)
<1>9. IsReach(h, t, first, free, threshold, bytes)
  BY <1>8, Zenon
<1>10. Reach(t, first, free, threshold, bytes) = h[w]
  BY DEF Reach, IsReach
<1> HIDE DEF h
<1>11. h[0] = {first} /\ \A k \in 0 .. w - 1 : h[k + 1] = Step(h[k])
  <2>1. h = [n \in 0 .. w |-> IF n = 0 THEN {first} ELSE Step(h[n - 1])]
    BY <1>9, <1>3 DEF IsReach
  <2>2. 0 \in 0 .. w /\ \A k \in 0 .. w - 1 : k + 1 \in 0 .. w /\ k + 1 # 0 /\ (k + 1) - 1 = k
    BY <1>0
  <2> HIDE DEF w
  <2> QED BY <2>1, <2>2
<1>12. h[w] \in D
  <2> DEFINE E == [k \in 0 .. w |-> D]
  <2>1. \A k \in 0 .. w : E[k] = D
    OBVIOUS
  <2>2. 0 \in 0 .. w /\ w \in 0 .. w /\ \A k \in 0 .. w - 1 : k \in 0 .. w /\ k + 1 \in 0 .. w
    BY <1>0
  <2>3. h[0] \in E[0] /\ \A k \in 0 .. w - 1 : h[k] \in E[k] => h[k + 1] \in E[k + 1]
    <3> HIDE DEF w, E
    <3> QED BY <2>1, <2>2, <1>1, <1>2, <1>11
  <2> HIDE DEF E, w
  <2>4. \A k \in 0 .. w : h[k] \in E[k]
    BY <1>0, <2>3, StaysIn
  <2> QED BY <2>1, <2>2, <2>4
<1> QED BY <1>10, <1>12 DEF D

(* Groups without a common rank that hold the first k ranks.                *)
Groupings(t, k) ==
  {g \in Seq(SUBSET RanksOf(t)) :
     /\ \A i \in DOMAIN g : g[i] # {}
     /\ \A i, j \in DOMAIN g : i # j => g[i] \cap g[j] = {}
     /\ 0 .. k - 1 \subseteq UNION Range(g)}

(* The next rank is in one of them or founds one.                           *)
LEMMA DomainGrows ==
  ASSUME NEW t, IsTopology(t), NEW k \in RanksOf(t), NEW g \in Groupings(t, 0), NEW threshold, NEW bytes
  PROVE  /\ WithDomain(t, g, k, threshold, bytes) \in Groupings(t, 0)
         /\ g \in Groupings(t, k) => WithDomain(t, g, k, threshold, bytes) \in Groupings(t, k + 1)
<1> DEFINE visited == UNION Range(g)
           R == RanksOf(t)
           z == WithDomain(t, g, k, threshold, bytes)
           x == Reach(t, k, R \ visited, threshold, bytes)
<1>0. k \in Nat /\ g \in Seq(SUBSET R) /\ (\A i \in DOMAIN g : g[i] # {})
      /\ (\A i, j \in DOMAIN g : i # j => g[i] \cap g[j] = {})
  BY DEF Groupings, RanksOf, IsTopology
<1>1. SUFFICES /\ z \in Seq(SUBSET R) /\ (\A i \in DOMAIN z : z[i] # {})
               /\ (\A i, j \in DOMAIN z : i # j => z[i] \cap z[j] = {})
               /\ visited \cup {k} \subseteq UNION Range(z)
  <2>1. ASSUME 0 .. k - 1 \subseteq visited PROVE 0 .. (k + 1) - 1 \subseteq UNION Range(z)
    <3> SUFFICES ASSUME NEW y \in 0 .. (k + 1) - 1 PROVE y \in UNION Range(z)
      OBVIOUS
    <3>1. y = k \/ y \in 0 .. k - 1
      BY <1>0
    <3> HIDE DEF z
    <3> QED BY <1>1, <2>1, <3>1
  <2>2. 0 .. 0 - 1 = {}
    OBVIOUS
  <2> HIDE DEF z
  <2> QED BY <1>1, <2>1, <2>2 DEF Groupings, z
<1>2. CASE k \in visited
  <2>1. z = g
    BY <1>2 DEF WithDomain
  <2> QED BY <2>1, <1>2, <1>0
<1>3. CASE k \notin visited
  <2>1. z = Append(g, x)
    BY <1>3 DEF WithDomain
  <2>2. x \subseteq R \ visited /\ k \in x
    BY <1>3, ReachFree
  <2> HIDE DEF z, x
  <2>3. /\ z \in Seq(SUBSET R) /\ Len(z) = Len(g) + 1 /\ DOMAIN z = 1 .. Len(g) + 1 /\ Len(g) \in Nat
        /\ DOMAIN g = 1 .. Len(g) /\ z[Len(g) + 1] = x /\ \A i \in 1 .. Len(g) : z[i] = g[i]
    BY <1>0, <2>1, <2>2
  <2>4. \A i \in DOMAIN z : i = Len(g) + 1 \/ i \in DOMAIN g
    BY <2>3
  <2>5. \A i \in DOMAIN g : z[i] = g[i] /\ g[i] \subseteq visited /\ i \in DOMAIN z
    BY <2>3 DEF Range
  <2>6. \A i \in DOMAIN z : z[i] # {}
    BY <1>0, <2>2, <2>3, <2>4, <2>5
  <2>7. ASSUME NEW i \in DOMAIN z, NEW j \in DOMAIN z, i # j PROVE z[i] \cap z[j] = {}
    <3>1. CASE i \in DOMAIN g /\ j \in DOMAIN g
      BY <3>1, <2>5, <2>7, <1>0
    <3>2. CASE i = Len(g) + 1 /\ j \in DOMAIN g
      BY <3>2, <2>2, <2>3, <2>5
    <3>3. CASE i \in DOMAIN g /\ j = Len(g) + 1
      BY <3>3, <2>2, <2>3, <2>5
    <3> QED BY <3>1, <3>2, <3>3, <2>4, <2>7
  <2>8. visited \subseteq UNION Range(z)
    <3> SUFFICES ASSUME NEW i \in DOMAIN g, NEW y \in g[i] PROVE y \in UNION Range(z)
      BY DEF Range
    <3> QED BY <2>5 DEF Range
  <2>9. k \in UNION Range(z)
    <3>1. Len(g) + 1 \in DOMAIN z
      BY <2>3
    <3> QED BY <3>1, <2>2, <2>3 DEF Range
  <2> QED BY <2>3, <2>6, <2>7, <2>8, <2>9
<1> QED BY <1>2, <1>3

IsFound(f, t, threshold, bytes) ==
  f = [k \in 0 .. t.world |->
         IF k = 0 THEN <<>> ELSE WithDomain(t, f[k - 1], k - 1, threshold, bytes)]

(* The domains of a threshold are groups that hold every rank.              *)
LEMMA DomainsCover ==
  ASSUME NEW t, IsTopology(t), NEW threshold, NEW bytes
  PROVE  Domains(t, threshold, bytes) \in Groupings(t, t.world)
<1> DEFINE D == Groupings(t, 0)
           w == t.world
           Step(X, k) == WithDomain(t, X, k - 1, threshold, bytes)
           G == [x \in D \X Nat |-> IF x[2] \in 1 .. w THEN Step(x[1], x[2]) ELSE x[1]]
<1>0. w \in Nat /\ \A k \in 1 .. w : k - 1 \in RanksOf(t) /\ (k - 1) + 1 = k
  BY DEF IsTopology, RanksOf
<1>1. \A X \in D, k \in 1 .. w : Step(X, k) \in D /\ (X \in Groupings(t, k - 1) => Step(X, k) \in Groupings(t, k))
  <2> SUFFICES ASSUME NEW X \in D, NEW k \in 1 .. w
               PROVE  Step(X, k) \in D /\ (X \in Groupings(t, k - 1) => Step(X, k) \in Groupings(t, k))
    OBVIOUS
  <2>1. k - 1 \in RanksOf(t) /\ (k - 1) + 1 = k
    BY <1>0
  <2>2. Step(X, k) \in D /\ (X \in Groupings(t, k - 1) => Step(X, k) \in Groupings(t, (k - 1) + 1))
    BY <2>1, DomainGrows
  <2> QED BY <2>1, <2>2
<1>2. <<>> \in D
  <2>1. <<>> \in Seq(SUBSET RanksOf(t)) /\ DOMAIN <<>> = {} /\ 0 .. 0 - 1 = {}
    OBVIOUS
  <2> QED BY <2>1 DEF Groupings
<1>3. \A k \in 0 .. w : Groupings(t, k) \subseteq D
  <2>1. 0 .. 0 - 1 = {}
    OBVIOUS
  <2> QED BY <2>1 DEF Groupings
<1> HIDE DEF D, Step
<1>4. G \in [D \X Nat -> D]
  BY <1>1
<1>5. PICK f : Iterates(f, w, D, <<>>, G)
  <2> HIDE DEF G, w
  <2> QED BY <1>0, <1>2, <1>4, IterationUpTo
<1>6. f \in [0 .. w -> D] /\ f[0] = <<>> /\ \A k \in 0 .. w - 1 : f[k + 1] = G[<<f[k], k + 1>>]
  <2> HIDE DEF G, w
  <2> QED BY <1>5 DEF Iterates
<1>7. ASSUME NEW n \in 0 .. w, n # 0 PROVE f[n] = Step(f[n - 1], n)
  <2>1. n - 1 \in 0 .. w - 1 /\ (n - 1) + 1 = n /\ n - 1 \in 0 .. w /\ n \in Nat /\ n \in 1 .. w
    BY <1>0, <1>7
  <2>2. f[n] = G[<<f[n - 1], n>>] /\ f[n - 1] \in D
    <3> HIDE DEF G, w
    <3> QED BY <1>6, <2>1
  <2> QED BY <2>1, <2>2
<1> HIDE DEF G
<1>8. IsFound(f, t, threshold, bytes)
  <2>1. f = [n \in 0 .. w |-> IF n = 0 THEN <<>> ELSE Step(f[n - 1], n)]
    <3> HIDE DEF w
    <3> QED BY <1>6, <1>7
  <2> QED BY <2>1 DEF IsFound, Step
<1> DEFINE h == CHOOSE g : IsFound(g, t, threshold, bytes)
<1>9. IsFound(h, t, threshold, bytes)
  BY <1>8, Zenon
<1>10. Domains(t, threshold, bytes) = h[w]
  BY DEF Domains, IsFound
<1> HIDE DEF h
<1>11. h[0] = <<>> /\ \A k \in 0 .. w - 1 : h[k + 1] = Step(h[k], k + 1)
  <2>1. h = [n \in 0 .. w |-> IF n = 0 THEN <<>> ELSE Step(h[n - 1], n)]
    BY <1>9 DEF IsFound, Step
  <2>2. 0 \in 0 .. w /\ \A k \in 0 .. w - 1 : k + 1 \in 0 .. w /\ k + 1 # 0 /\ (k + 1) - 1 = k
    BY <1>0
  <2> HIDE DEF w
  <2> QED BY <2>1, <2>2
<1>12. h[w] \in Groupings(t, w)
  <2> DEFINE E == [k \in 0 .. w |-> Groupings(t, k)]
  <2>1. \A k \in 0 .. w : E[k] = Groupings(t, k)
    OBVIOUS
  <2>2. 0 \in 0 .. w /\ w \in 0 .. w
        /\ \A k \in 0 .. w - 1 : k \in 0 .. w /\ k + 1 \in 0 .. w /\ k + 1 \in 1 .. w /\ (k + 1) - 1 = k
    BY <1>0
  <2>3. h[0] \in E[0]
    BY <2>1, <2>2, <1>2, <1>11 DEF D
  <2>4. ASSUME NEW k \in 0 .. w - 1, h[k] \in E[k] PROVE h[k + 1] \in E[k + 1]
    <3>1. h[k] \in Groupings(t, k) /\ h[k] \in D
      BY <2>1, <2>2, <2>4, <1>3
    <3> QED BY <3>1, <2>1, <2>2, <1>1, <1>11
  <2> HIDE DEF E, w
  <2>5. \A k \in 0 .. w : h[k] \in E[k]
    BY <1>0, <2>3, <2>4, StaysIn
  <2> QED BY <2>1, <2>2, <2>5
<1> QED BY <1>10, <1>12

(* A list of the elements of a set, each once.                              *)
Lists(S) == {o \in [1 .. Cardinality(S) -> S] : IsInjective(o) /\ Range(o) = S}

(* Sorting lists a finite set of numbers.                                   *)
LEMMA AscendingLists ==
  ASSUME NEW S \in SUBSET Int, IsFiniteSet(S)
  PROVE  Ascending(S) \in Lists(S)
<1> DEFINE R == {p \in S \X S : p[1] < p[2]}
           n == Cardinality(S)
           Sorted(o) == \A i, j \in DOMAIN o : i < j => o[i] < o[j]
<1>1. Orders(R, S)
  BY DEF Orders
<1>2. n \in Nat
  BY FS_CardinalityType
<1>3. PICK p \in [1 .. n -> S] : InOrderOf(R, p, n)
  <2> HIDE DEF R
  <2> QED BY <1>1, SortedExists
<1>4. Sorted(p)
  BY <1>3 DEF InOrderOf
<1>5. PICK o : o = Ascending(S)
  OBVIOUS
<1> HIDE DEF R
<1>6. o \in [1 .. n -> S] /\ Sorted(o)
  BY <1>3, <1>4, <1>5 DEF Ascending
<1>7. \A i, j \in 1 .. n : o[i] = o[j] => i = j
  <2> SUFFICES ASSUME NEW i \in 1 .. n, NEW j \in 1 .. n, o[i] = o[j], i # j PROVE FALSE
    OBVIOUS
  <2>1. i < j \/ j < i
    BY <1>2
  <2>2. o[i] < o[j] \/ o[j] < o[i]
    BY <1>6, <2>1
  <2>3. o[i] \in Int
    BY <1>6
  <2> QED BY <2>2, <2>3
<1>8. o \in Injection(1 .. n, S)
  <2> HIDE DEF n
  <2> QED BY <1>6, <1>7 DEF Injection, IsInjective
<1>9. Cardinality(1 .. n) = n /\ IsFiniteSet(1 .. n)
  <2>1. 1 \in Int /\ n \in Int /\ (1 > n => n = 0) /\ n - 1 + 1 = n
    BY <1>2
  <2> HIDE DEF n
  <2> QED BY <2>1, FS_Interval
<1>10. o \in Surjection(1 .. n, S)
  BY <1>8, <1>9, FS_Injection
<1> QED BY <1>5, <1>6, <1>8, <1>10 DEF Lists, Injection, Surjection, Range

(* So does moving one to the front.                                         *)
LEMMA SwapLists ==
  ASSUME NEW S, IsFiniteSet(S), NEW o \in Lists(S), NEW x \in S, NEW z, z = SwapToFront(o, x)
  PROVE  z \in Lists(S)
<1> DEFINE n == Cardinality(S)
<1>0. n \in Nat /\ o \in [1 .. n -> S] /\ (\A i, j \in 1 .. n : o[i] = o[j] => i = j) /\ Range(o) = S
  BY FS_CardinalityType DEF Lists, IsInjective
<1> HIDE DEF n
<1>1. PICK m \in 1 .. n : o[m] = x
  BY <1>0 DEF Range
<1>2. 1 \in 1 .. n
  BY <1>0, <1>1
<1>3. z = [i \in 1 .. n |-> IF i = 1 THEN x ELSE IF o[i] = x THEN o[1] ELSE o[i]]
  BY <1>0 DEF SwapToFront
<1>4. z[1] = o[m] /\ (m # 1 => z[m] = o[1]) /\ \A i \in 1 .. n : i # 1 /\ i # m => z[i] = o[i]
  BY <1>0, <1>1, <1>2, <1>3
<1>5. z \in [1 .. n -> S]
  BY <1>0, <1>2, <1>3
<1>6. \A i, j \in 1 .. n : z[i] = z[j] => i = j
  <2> SUFFICES ASSUME NEW i \in 1 .. n, NEW j \in 1 .. n, z[i] = z[j] PROVE i = j
    OBVIOUS
  <2> QED BY <1>0, <1>1, <1>2, <1>4
<1>7. Range(z) = S
  <2>1. ASSUME NEW y \in S PROVE \E i \in 1 .. n : z[i] = y
    <3>1. PICK k \in 1 .. n : o[k] = y
      BY <1>0 DEF Range
    <3> QED BY <3>1, <1>1, <1>2, <1>4
  <2> QED BY <2>1, <1>5 DEF Range
<1> QED BY <1>5, <1>6, <1>7 DEF Lists, IsInjective, n

(* Times are numbers.                                                       *)
LEMMA FiniteInt == Finite \subseteq Int
<1>1. Never \in Int
  BY SMT DEF Never
<1> QED BY <1>1 DEF Finite

(* The leader of a group is in it, and the group is listed from its leader. *)
LEMMA LeaderLists ==
  ASSUME NEW t, NEW group \in SUBSET Int, IsFiniteSet(group), NEW bytes, Leaders(t, group, bytes) # {}
  PROVE  LeaderFirst(t, group, bytes) \in Lists(group)
<1> DEFINE cost(c) == LeaderCost(t, group, c, bytes)
           f == [c \in group |-> <<cost(c), c>>]
           A == {<<cost(c), c>> : c \in group}
           L == {x \in A : x[1] \in Finite}
<1>1. Leaders(t, group, bytes) = L
  BY DEF Leaders
<1> HIDE DEF cost
<1>2. IsFiniteSet(L)
  <2>1. IsFiniteSet(A)
    <3>1. f = [c \in group |-> f[c]] /\ Range(f) = A
      BY DEF Range
    <3> HIDE DEF f, A
    <3> QED BY <3>1, FiniteRange
  <2>2. L \in SUBSET A
    OBVIOUS
  <2> HIDE DEF A, L
  <2> QED BY <2>1, <2>2, FS_Subset
<1>3. \A x \in L : x \in Words(2) /\ x[2] \in group
  <2> SUFFICES ASSUME NEW c \in group, cost(c) \in Finite PROVE <<cost(c), c>> \in Words(2)
    OBVIOUS
  <2>1. cost(c) \in Int /\ c \in Int
    BY FiniteInt
  <2> QED BY <2>1 DEF Words
<1> HIDE DEF A, L
<1>4. LexMin(L) \in L
  <2>1. L \in SUBSET Words(2) /\ 2 \in Nat /\ L # {}
    BY <1>1, <1>3
  <2> QED BY <2>1, <1>2, LexMinIn
<1>5. LexMin(L)[2] \in group
  BY <1>3, <1>4
<1>6. Ascending(group) \in Lists(group)
  BY AscendingLists
<1> QED BY <1>1, <1>5, <1>6, SwapLists DEF LeaderFirst

(* What the groups are arranged by is an order of their numbers.            *)
LEMMA CyclesArrange ==
  ASSUME NEW t, NEW n \in Nat \ {0}, NEW groups, DOMAIN groups = 1 .. n, NEW bytes,
         ArrangedByLeaders(t, groups, bytes) # <<>>
  PROVE  \E o \in Lists(1 .. n) : ArrangedByLeaders(t, groups, bytes) = [i \in 1 .. n |-> groups[o[i]]]
<1> DEFINE ranks == [i \in DOMAIN groups |-> Head(groups[i])]
           times(o) == CycleTimes(t, ranks, o, bytes)
           key(o) == CycleKey(times(o), o)
           C == RankCycles(t, ranks, bytes)
           K == {key(o) : o \in C}
           F == [1 .. n -> 1 .. n]
<1>1. K # {} /\ ArrangedByLeaders(t, groups, bytes) = Arranged(groups, LexMin(K))
  BY DEF ArrangedByLeaders
<1>2. Len(ranks) = n
  <2>1. ranks = [i \in 1 .. n |-> Head(groups[i])]
    OBVIOUS
  <2> QED BY <2>1
<1> HIDE DEF ranks
<1>3. C \in SUBSET F /\ \A o \in C : Range(o) = 1 .. n /\ Range(times(o)) \subseteq Finite
  BY <1>2 DEF RankCycles, Cycles
<1>4. IsFiniteSet(1 .. n) /\ Cardinality(1 .. n) = n
  <2>1. 1 \in Int /\ n \in Int /\ ~(1 > n) /\ n - 1 + 1 = n
    OBVIOUS
  <2> QED BY <2>1, FS_Interval
<1>5. IsFiniteSet(C)
  <2>1. IsFiniteSet(F)
    BY <1>4, FiniteFunctions
  <2> HIDE DEF C, F
  <2> QED BY <2>1, <1>3, FS_Subset
<1>6. IsFiniteSet(K)
  <2> DEFINE f == [o \in C |-> key(o)]
  <2> HIDE DEF C, key
  <2>1. f = [o \in C |-> f[o]] /\ Range(f) = K
    BY DEF Range
  <2> HIDE DEF f, K
  <2> QED BY <2>1, <1>5, FiniteRange
<1>7. ASSUME NEW o \in C PROVE key(o) \in Words(n + 2) /\ \A i \in 1 .. n : key(o)[i + 2] = o[i]
  <2> DEFINE T == times(o)
  <2>1. o \in F /\ DOMAIN o = 1 .. n /\ Len(o) = n
    <3>1. o \in F
      BY <1>3
    <3> QED BY <3>1
  <2>2. DOMAIN T = 1 .. n /\ T = [i \in 1 .. n |-> T[i]] /\ Range(T) \subseteq Finite
    BY <1>3, <2>1 DEF CycleTimes
  <2> HIDE DEF T
  <2>3. (\A i \in 1 .. n : T[i] \in Int) /\ Range(T) \in SUBSET Int
    BY <2>2, FiniteInt DEF Range
  <2>4. IsFiniteSet(Range(T)) /\ Range(T) # {}
    <3>1. 1 .. n # {}
      OBVIOUS
    <3> QED BY <3>1, <2>2, <1>4, FiniteRange
  <2>5. PICK a, b : a = Max(Range(T)) /\ b = Total(n, T) /\ a \in Int /\ b \in Int
    <3>1. Max(Range(T)) \in Int
      BY <2>3, <2>4, MinMaxIn
    <3>2. Total(n, T) \in Int
      BY <2>3, TotalInt
    <3> QED BY <3>1, <3>2
  <2>6. PICK z : z = <<a, b>> \o o
    OBVIOUS
  <2>7. key(o) = z
    BY <2>1, <2>5, <2>6 DEF CycleKey, T
  <2>8. PICK p \in Seq(Int) : p = <<a, b>> /\ Len(p) = 2
    <3>1. <<a, b>> \in Seq(Int) /\ Len(<<a, b>>) = 2
      BY <2>5
    <3> QED BY <3>1
  <2>9. o \in Seq(Int)
    BY <2>1
  <2>10. z \in Seq(Int) /\ Len(z) = 2 + n /\ \A i \in 1 .. n : z[2 + i] = o[i]
    <3>1. z \in Seq(Int) /\ Len(z) = Len(p) + Len(o) /\ \A i \in 1 .. Len(o) : z[Len(p) + i] = o[i]
      BY <2>6, <2>8, <2>9, ConcatSeq
    <3> QED BY <3>1, <2>1, <2>8
  <2>11. z \in [1 .. Len(z) -> Int]
    BY <2>10, SeqFunction
  <2>12. 2 + n = n + 2 /\ \A i \in 1 .. n : 2 + i = i + 2
    OBVIOUS
  <2> QED BY <2>7, <2>10, <2>11, <2>12 DEF Words
<1> HIDE DEF C, key
<1>8. LexMin(K) \in K
  <2>1. K \in SUBSET Words(n + 2) /\ n + 2 \in Nat
    BY <1>7
  <2> QED BY <1>1, <1>6, <2>1, LexMinIn
<1>9. PICK o \in C : LexMin(K) = key(o)
  BY <1>8
<1>10. Arranged(groups, LexMin(K)) = [i \in 1 .. n |-> groups[o[i]]]
  <2>1. \A i \in 1 .. n : LexMin(K)[i + 2] = o[i]
    BY <1>7, <1>9
  <2> HIDE DEF K
  <2> QED BY <2>1 DEF Arranged
<1>11. o \in Lists(1 .. n)
  <2>1. o \in [1 .. n -> 1 .. n] /\ Range(o) = 1 .. n
    BY <1>3
  <2>2. o \in Surjection(1 .. n, 1 .. n)
    BY <2>1 DEF Surjection, Range
  <2>3. o \in Injection(1 .. n, 1 .. n)
    BY <2>2, <1>4, FS_Surjection
  <2> QED BY <2>1, <2>3, <1>4 DEF Lists, Injection
<1> QED BY <1>1, <1>10, <1>11

(* Groups that hold every rank are valid groups once they are optimized.    *)
LEMMA OptimizedValid ==
  ASSUME NEW t, IsTopology(t), NEW d \in Groupings(t, t.world), Len(d) >= 2, NEW bytes,
         NEW z, z = OptimizeHierarchy(t, d, bytes), z # <<>>
  PROVE  z \in Seq(Seq(Int)) /\ ValidGroups(z, t.world)
<1> DEFINE n == Len(d)
           R == RanksOf(t)
           gs == [i \in DOMAIN d |-> LeaderFirst(t, d[i], bytes)]
<1>1. /\ d \in Seq(SUBSET R) /\ (\A i \in DOMAIN d : d[i] # {})
      /\ (\A i, j \in DOMAIN d : i # j => d[i] \cap d[j] = {}) /\ 0 .. t.world - 1 \subseteq UNION Range(d)
  BY DEF Groupings
<1>2. n \in Nat \ {0} /\ n >= 2 /\ DOMAIN d = 1 .. n /\ \A i \in 1 .. n : d[i] \in SUBSET R
  BY <1>1
<1>3. R = 0 .. t.world - 1 /\ R \subseteq Int /\ IsFiniteSet(R)
  <2>1. 0 \in Int /\ t.world - 1 \in Int
    BY DEF IsTopology
  <2> QED BY <2>1, FS_Interval DEF RanksOf
<1>4. (\A i \in DOMAIN d : Leaders(t, d[i], bytes) # {}) /\ z = ArrangedByLeaders(t, gs, bytes)
  BY DEF OptimizeHierarchy
<1> HIDE DEF n, R
<1>5. ASSUME NEW i \in 1 .. n PROVE gs[i] \in Lists(d[i]) /\ IsFiniteSet(d[i])
  <2>1. d[i] \in SUBSET Int /\ IsFiniteSet(d[i])
    BY <1>2, <1>3, FS_Subset
  <2>2. LeaderFirst(t, d[i], bytes) \in Lists(d[i])
    BY <1>2, <1>4, <2>1, LeaderLists
  <2> QED BY <1>2, <2>1, <2>2
<1>6. DOMAIN gs = 1 .. n
  BY <1>2
<1> HIDE DEF gs
<1>7. PICK o \in Lists(1 .. n) : z = [i \in 1 .. n |-> gs[o[i]]]
  BY <1>2, <1>4, <1>6, CyclesArrange
<1>8. (\A i \in 1 .. n : o[i] \in 1 .. n) /\ (\A i, j \in 1 .. n : o[i] = o[j] => i = j)
      /\ \A m \in 1 .. n : \E i \in 1 .. n : o[i] = m
  <2>1. Cardinality(1 .. n) = n
    <3>1. 1 \in Int /\ n \in Int /\ ~(1 > n) /\ n - 1 + 1 = n
      BY <1>2
    <3> QED BY <3>1, FS_Interval
  <2>2. o \in [1 .. n -> 1 .. n] /\ IsInjective(o) /\ Range(o) = 1 .. n
    BY <2>1 DEF Lists
  <2> QED BY <2>2 DEF IsInjective, Range
<1>9. ASSUME NEW i \in 1 .. n
      PROVE  /\ z[i] \in [1 .. Cardinality(d[o[i]]) -> d[o[i]]] /\ Range(z[i]) = d[o[i]]
             /\ Cardinality(d[o[i]]) \in Nat /\ \A k, l \in DOMAIN z[i] : z[i][k] = z[i][l] => k = l
  <2>1. o[i] \in 1 .. n /\ z[i] = gs[o[i]]
    BY <1>7, <1>8
  <2>2. z[i] \in Lists(d[o[i]]) /\ IsFiniteSet(d[o[i]])
    BY <1>5, <2>1
  <2> QED BY <2>2, FS_CardinalityType DEF Lists, IsInjective
<1>10. DOMAIN z = 1 .. n /\ Len(z) = n
  BY <1>2, <1>7
<1>11. ASSUME NEW i \in 1 .. n PROVE z[i] \in Seq(Int) /\ z[i] # <<>>
  <2>1. PICK m \in Nat : z[i] \in [1 .. m -> Int]
    <3>1. d[o[i]] \subseteq Int
      BY <1>2, <1>3, <1>8
    <3> QED BY <3>1, <1>9
  <2>2. z[i] \in Seq(Int)
    BY <2>1
  <2>3. d[o[i]] # {}
    BY <1>1, <1>2, <1>8
  <2>4. z[i] # <<>>
    <3> SUFFICES ASSUME z[i] = <<>> PROVE FALSE
      OBVIOUS
    <3>1. DOMAIN z[i] = {}
      OBVIOUS
    <3> QED BY <3>1, <2>3, <1>9 DEF Range
  <2> QED BY <2>2, <2>4
<1>12. z \in Seq(Seq(Int))
  <2>1. z \in [1 .. n -> Seq(Int)]
    BY <1>7, <1>10, <1>11
  <2> QED BY <2>1, <1>2
<1>13. UNION {Range(z[i]) : i \in DOMAIN z} = 0 .. t.world - 1
  <2>1. ASSUME NEW i \in DOMAIN z, NEW x \in Range(z[i]) PROVE x \in 0 .. t.world - 1
    <3>1. i \in 1 .. n
      BY <1>10
    <3>2. x \in d[o[i]] /\ o[i] \in 1 .. n
      BY <3>1, <1>8, <1>9
    <3>3. x \in R
      BY <3>2, <1>2
    <3> QED BY <3>3, <1>3
  <2>2. ASSUME NEW x \in 0 .. t.world - 1 PROVE \E i \in DOMAIN z : x \in Range(z[i])
    <3>1. PICK m \in 1 .. n : x \in d[m]
      BY <1>1, <1>2 DEF Range
    <3>2. PICK i \in 1 .. n : o[i] = m
      BY <1>8
    <3> QED BY <3>1, <3>2, <1>9, <1>10
  <2> QED BY <2>1, <2>2
<1>14. ASSUME NEW i \in DOMAIN z, NEW j \in DOMAIN z, NEW k \in DOMAIN z[i], NEW l \in DOMAIN z[j], z[i][k] = z[j][l]
       PROVE  i = j /\ k = l
  <2>1. z[i][k] \in d[o[i]] /\ z[j][l] \in d[o[j]]
    <3>1. i \in 1 .. n /\ j \in 1 .. n
      BY <1>10
    <3>2. z[i][k] \in Range(z[i]) /\ z[j][l] \in Range(z[j])
      BY <1>14 DEF Range
    <3> QED BY <3>1, <3>2, <1>9
  <2>2. o[i] = o[j]
    BY <1>1, <1>2, <1>8, <1>10, <1>14, <2>1
  <2>3. i = j
    BY <1>8, <1>10, <2>2
  <2> QED BY <2>3, <1>9, <1>10, <1>14
<1>15. Len(z) >= 2 /\ \A i \in DOMAIN z : z[i] # <<>>
  BY <1>2, <1>10, <1>11
<1> QED BY <1>12, <1>13, <1>14, <1>15 DEF ValidGroups

(* So are the candidates, of which there are finitely many.                 *)
LEMMA CandidatesValid ==
  ASSUME NEW t, IsTopology(t), NEW bytes
  PROVE  /\ IsFiniteSet(HierarchyCandidates(t, bytes))
         /\ \A g \in HierarchyCandidates(t, bytes) : g \in Seq(Seq(Int)) /\ ValidGroups(g, t.world)
<1> DEFINE R == RanksOf(t)
           linked == {p \in R \X R : p[1] < p[2] /\ p \in DOMAIN t.links}
           f == [p \in linked |-> LinkTime(t.links[p], bytes)]
           H == {LinkTime(t.links[p], bytes) : p \in linked}
           dom == [h \in H |-> Domains(t, h, bytes)]
           P == {d \in {Domains(t, h, bytes) : h \in H} : Len(d) \in 2 .. t.world - 1}
           opt == [d \in P |-> OptimizeHierarchy(t, d, bytes)]
           C == {OptimizeHierarchy(t, d, bytes) : d \in P} \ {<<>>}
<1>1. HierarchyCandidates(t, bytes) = C
  BY DEF HierarchyCandidates
<1>2. IsFiniteSet(linked)
  <2>1. IsFiniteSet(R)
    <3>1. 0 \in Int /\ t.world - 1 \in Int
      BY DEF IsTopology
    <3> QED BY <3>1, FS_Interval DEF RanksOf
  <2>2. IsFiniteSet(R \X R)
    BY <2>1, FS_Product
  <2>3. linked \in SUBSET (R \X R)
    OBVIOUS
  <2> HIDE DEF linked, R
  <2> QED BY <2>2, <2>3, FS_Subset
<1>3. IsFiniteSet(H)
  <2> HIDE DEF linked
  <2>1. f = [p \in linked |-> f[p]] /\ Range(f) = H
    BY DEF Range
  <2> HIDE DEF f, H
  <2> QED BY <2>1, <1>2, FiniteRange
<1> HIDE DEF H
<1>4. IsFiniteSet(P)
  <2>1. dom = [h \in H |-> dom[h]] /\ Range(dom) = {Domains(t, h, bytes) : h \in H}
    BY DEF Range
  <2>2. P \in SUBSET Range(dom)
    BY <2>1
  <2> HIDE DEF dom, P
  <2>3. IsFiniteSet(Range(dom))
    BY <2>1, <1>3, FiniteRange
  <2> QED BY <2>2, <2>3, FS_Subset
<1>5. \A d \in P : d \in Groupings(t, t.world) /\ Len(d) >= 2
  <2> SUFFICES ASSUME NEW h \in H, Len(Domains(t, h, bytes)) \in 2 .. t.world - 1
               PROVE  Domains(t, h, bytes) \in Groupings(t, t.world) /\ Len(Domains(t, h, bytes)) >= 2
    OBVIOUS
  <2>1. Domains(t, h, bytes) \in Groupings(t, t.world)
    BY DomainsCover
  <2> QED BY <2>1
<1> HIDE DEF P
<1>6. IsFiniteSet(C)
  <2>1. opt = [d \in P |-> opt[d]] /\ Range(opt) = {OptimizeHierarchy(t, d, bytes) : d \in P}
    BY DEF Range
  <2>2. C \in SUBSET Range(opt)
    BY <2>1
  <2> HIDE DEF opt, C
  <2>3. IsFiniteSet(Range(opt))
    BY <2>1, <1>4, FiniteRange
  <2> QED BY <2>2, <2>3, FS_Subset
<1>7. ASSUME NEW g \in C PROVE g \in Seq(Seq(Int)) /\ ValidGroups(g, t.world)
  <2>1. PICK d \in P : g = OptimizeHierarchy(t, d, bytes) /\ g # <<>>
    OBVIOUS
  <2> QED BY <2>1, <1>5, OptimizedValid
<1> QED BY <1>1, <1>6, <1>7

(* The order of sequences by the order R of their elements.                 *)
SeqOrder(R, S) ==
  {p \in Seq(S) \X Seq(S) :
     \E i \in DOMAIN p[2] : /\ \A j \in 1 .. i - 1 : j \in DOMAIN p[1] /\ p[1][j] = p[2][j]
                            /\ i \in DOMAIN p[1] => <<p[1][i], p[2][i]>> \in R}

(* It is one if R is.                                                       *)
LEMMA SeqOrders ==
  ASSUME NEW S, NEW R, Orders(R, S)
  PROVE  Orders(SeqOrder(R, S), Seq(S))
<1> DEFINE Less(a, b) == \E i \in DOMAIN b : /\ \A j \in 1 .. i - 1 : j \in DOMAIN a /\ a[j] = b[j]
                                             /\ i \in DOMAIN a => <<a[i], b[i]>> \in R
<1>1. \A a, b \in Seq(S) : <<a, b>> \in SeqOrder(R, S) <=> Less(a, b)
  BY DEF SeqOrder
<1>2. ASSUME NEW a \in Seq(S), NEW b \in Seq(S), a # b PROVE Less(a, b) \/ Less(b, a)
  <2> DEFINE Same(i) == i \in DOMAIN a /\ i \in DOMAIN b /\ a[i] = b[i]
             D == {i \in DOMAIN a \cup DOMAIN b : ~Same(i)}
  <2>1. DOMAIN a = 1 .. Len(a) /\ DOMAIN b = 1 .. Len(b) /\ Len(a) \in Nat /\ Len(b) \in Nat
    OBVIOUS
  <2>2. D # {}
    <3> SUFFICES ASSUME D = {} PROVE a = b
      BY <1>2
    <3>1. \A i \in DOMAIN a : i \in DOMAIN b /\ a[i] = b[i]
      OBVIOUS
    <3>2. \A i \in DOMAIN b : i \in DOMAIN a
      OBVIOUS
    <3>3. DOMAIN a = DOMAIN b
      BY <3>1, <3>2
    <3>4. Len(a) = Len(b)
      <4>1. Len(a) \in 1 .. Len(b) \/ Len(a) = 0
        BY <2>1, <3>3
      <4>2. Len(b) \in 1 .. Len(a) \/ Len(b) = 0
        BY <2>1, <3>3
      <4>3. ASSUME NEW m \in Nat, NEW n \in Nat, m \in 1 .. n \/ m = 0, n \in 1 .. m \/ n = 0 PROVE m = n
        BY <4>3
      <4> HIDE DEF D
      <4> QED BY <2>1, <4>1, <4>2, <4>3
    <3> QED BY <3>1, <3>4
  <2>3. D \in SUBSET Nat
    BY <2>1
  <2>4. PICK m \in D : \A y \in D : m <= y
    <3> HIDE DEF D
    <3> QED BY <2>2, <2>3, LeastElement
  <2>5. m \in DOMAIN a \cup DOMAIN b /\ ~Same(m) /\ m \in Nat
    BY <2>3
  <2>6. \A j \in 1 .. m - 1 : Same(j)
    <3> SUFFICES ASSUME NEW j \in 1 .. m - 1 PROVE Same(j)
      OBVIOUS
    <3>1. ~(m <= j) /\ j \in DOMAIN a \cup DOMAIN b
      BY <2>1, <2>5
    <3> QED BY <3>1, <2>4
  <2> HIDE DEF D
  <2>7. CASE m \in DOMAIN a /\ m \in DOMAIN b
    <3>1. a[m] \in S /\ b[m] \in S /\ a[m] # b[m]
      BY <2>5, <2>7
    <3>2. <<a[m], b[m]>> \in R \/ <<b[m], a[m]>> \in R
      BY <3>1 DEF Orders
    <3> QED BY <3>2, <2>6, <2>7
  <2>8. CASE m \notin DOMAIN a
    BY <2>5, <2>6, <2>8
  <2>9. CASE m \notin DOMAIN b
    BY <2>5, <2>6, <2>9
  <2> QED BY <2>7, <2>8, <2>9
<1>3. ASSUME NEW a \in Seq(S), NEW b \in Seq(S), NEW c \in Seq(S), Less(a, b), Less(b, c) PROVE Less(a, c)
  <2>1. DOMAIN a = 1 .. Len(a) /\ DOMAIN b = 1 .. Len(b) /\ DOMAIN c = 1 .. Len(c)
        /\ Len(a) \in Nat /\ Len(b) \in Nat /\ Len(c) \in Nat
    OBVIOUS
  <2>2. PICK i \in DOMAIN b : /\ \A j \in 1 .. i - 1 : j \in DOMAIN a /\ a[j] = b[j]
                              /\ i \in DOMAIN a => <<a[i], b[i]>> \in R
    BY <1>3
  <2>3. PICK k \in DOMAIN c : /\ \A j \in 1 .. k - 1 : j \in DOMAIN b /\ b[j] = c[j]
                              /\ k \in DOMAIN b => <<b[k], c[k]>> \in R
    BY <1>3
  <2>4. i \in Nat /\ k \in Nat /\ i >= 1 /\ k >= 1
    BY <2>1
  <2>5. CASE i < k
    <3>1. i \in 1 .. k - 1 /\ i \in DOMAIN c /\ b[i] = c[i] /\ \A j \in 1 .. i - 1 : j \in 1 .. k - 1
      BY <2>1, <2>3, <2>4, <2>5
    <3>2. \A j \in 1 .. i - 1 : j \in DOMAIN a /\ a[j] = c[j]
      BY <3>1, <2>2, <2>3
    <3>3. i \in DOMAIN a => <<a[i], c[i]>> \in R
      BY <3>1, <2>2
    <3> QED BY <3>1, <3>2, <3>3
  <2>6. CASE k < i
    <3>1. k \in 1 .. i - 1 /\ k \in DOMAIN b /\ k \in DOMAIN a /\ a[k] = b[k] /\ \A j \in 1 .. k - 1 : j \in 1 .. i - 1
      BY <2>1, <2>2, <2>4, <2>6
    <3>2. \A j \in 1 .. k - 1 : j \in DOMAIN a /\ a[j] = c[j]
      BY <3>1, <2>2, <2>3
    <3>3. <<a[k], c[k]>> \in R
      BY <3>1, <2>3
    <3> QED BY <3>2, <3>3
  <2>7. CASE i = k
    <3>1. \A j \in 1 .. i - 1 : j \in DOMAIN a /\ a[j] = c[j]
      BY <2>2, <2>3, <2>7
    <3>2. ASSUME i \in DOMAIN a PROVE <<a[i], c[i]>> \in R
      <4>1. a[i] \in S /\ b[i] \in S /\ c[i] \in S
        BY <3>2, <2>2, <2>3, <2>7
      <4>2. <<a[i], b[i]>> \in R /\ <<b[i], c[i]>> \in R
        BY <3>2, <2>2, <2>3, <2>7
      <4> QED BY <4>1, <4>2 DEF Orders
    <3>3. i \in DOMAIN c
      BY <2>3, <2>7
    <3>4. i \in DOMAIN a => <<a[i], c[i]>> \in R
      BY <3>2
    <3> QED BY <3>1, <3>3, <3>4
  <2>8. i < k \/ k < i \/ i = k
    BY <2>4
  <2> HIDE DEF Less
  <2> QED BY <2>5, <2>6, <2>7, <2>8
<1> HIDE DEF Less
<1> QED BY <1>1, <1>2, <1>3 DEF Orders

NumberOrder == {p \in Int \X Int : p[1] < p[2]}
WordOrder == SeqOrder(NumberOrder, Int)
GroupOrder == SeqOrder(WordOrder, Seq(Int))

(* GroupsLess is such an order.                                             *)
LEMMA GroupsOrdered ==
  /\ Orders(GroupOrder, Seq(Seq(Int)))
  /\ \A g, h \in Seq(Seq(Int)) : GroupsLess(g, h) <=> <<g, h>> \in GroupOrder
<1>1. Orders(NumberOrder, Int)
  BY DEF Orders, NumberOrder
<1>2. Orders(WordOrder, Seq(Int))
  BY <1>1, SeqOrders DEF WordOrder
<1>3. Orders(GroupOrder, Seq(Seq(Int)))
  BY <1>2, SeqOrders DEF GroupOrder
<1>4. \A a, b \in Seq(Int) : LexLess(a, b) <=> <<a, b>> \in WordOrder
  <2> SUFFICES ASSUME NEW a \in Seq(Int), NEW b \in Seq(Int) PROVE LexLess(a, b) <=> <<a, b>> \in WordOrder
    OBVIOUS
  <2>1. \A i \in DOMAIN b : i \in DOMAIN a => (a[i] < b[i] <=> <<a[i], b[i]>> \in NumberOrder)
    BY DEF NumberOrder
  <2> QED BY <2>1 DEF LexLess, WordOrder, SeqOrder
<1>5. ASSUME NEW g \in Seq(Seq(Int)), NEW h \in Seq(Seq(Int)) PROVE GroupsLess(g, h) <=> <<g, h>> \in GroupOrder
  <2>1. \A i \in DOMAIN h : i \in DOMAIN g => (LexLess(g[i], h[i]) <=> <<g[i], h[i]>> \in WordOrder)
    BY <1>4
  <2> QED BY <2>1 DEF GroupsLess, GroupOrder, SeqOrder
<1> QED BY <1>3, <1>5

(* What is inferred are valid groups: one of the candidates comes first.    *)
LEMMA InferredValid ==
  ASSUME NEW u, IsTopology(u.topology), NEW bytes, Inferred(u, bytes) # Nothing
  PROVE  \E groups : Inferred(u, bytes) = [u EXCEPT !.groups = groups] /\ ValidGroups(groups, u.topology.world)
<1> DEFINE C == HierarchyCandidates(u.topology, bytes)
           score(g) == GroupsScore([u EXCEPT !.groups = g], bytes)
           A == {<<score(g), g>> : g \in C}
           f == [g \in C |-> <<score(g), g>>]
           X == {x \in A : x[1] \in Finite}
           first(x, y) == x[1] < y[1] \/ (x[1] = y[1] /\ GroupsLess(x[2], y[2]))
           R == {p \in X \X X : first(p[1], p[2])}
           best == CHOOSE x \in X : \A y \in X : x = y \/ first(x, y)
<1>1. X # {} /\ Inferred(u, bytes) = [u EXCEPT !.groups = best[2]]
  BY DEF Inferred, Better
<1> HIDE DEF score
<1>2. IsFiniteSet(X)
  <2>1. IsFiniteSet(C)
    BY CandidatesValid
  <2> HIDE DEF C
  <2>2. f = [g \in C |-> f[g]] /\ Range(f) = A
    BY DEF Range
  <2>3. X \in SUBSET A
    OBVIOUS
  <2> HIDE DEF f, A, X
  <2>4. IsFiniteSet(A)
    BY <2>1, <2>2, FiniteRange
  <2> QED BY <2>3, <2>4, FS_Subset
<1>3. \A x \in X : x[1] \in Int /\ x[2] \in Seq(Seq(Int)) /\ ValidGroups(x[2], u.topology.world) /\ x = <<x[1], x[2]>>
  <2> SUFFICES ASSUME NEW g \in C, score(g) \in Finite
               PROVE  score(g) \in Int /\ g \in Seq(Seq(Int)) /\ ValidGroups(g, u.topology.world)
    OBVIOUS
  <2> QED BY FiniteInt, CandidatesValid
<1> HIDE DEF X
<1>4. Orders(R, X)
  <2>1. ASSUME NEW x \in X, NEW y \in X, x # y PROVE first(x, y) \/ first(y, x)
    <3>1. x[1] # y[1] \/ x[2] # y[2]
      BY <1>3, <2>1
    <3>2. CASE x[1] # y[1]
      BY <1>3, <3>2
    <3>3. CASE x[1] = y[1] /\ x[2] # y[2]
      <4>1. GroupsLess(x[2], y[2]) \/ GroupsLess(y[2], x[2])
        BY <1>3, <3>3, GroupsOrdered DEF Orders
      <4> QED BY <4>1, <3>3
    <3> QED BY <3>1, <3>2, <3>3
  <2>2. ASSUME NEW x \in X, NEW y \in X, NEW z \in X, first(x, y), first(y, z) PROVE first(x, z)
    <3>1. x[1] \in Int /\ y[1] \in Int /\ z[1] \in Int
      BY <1>3
    <3>2. CASE x[1] < y[1] \/ y[1] < z[1]
      BY <2>2, <3>1, <3>2
    <3>3. CASE x[1] = y[1] /\ GroupsLess(x[2], y[2]) /\ y[1] = z[1] /\ GroupsLess(y[2], z[2])
      <4>1. PICK a, b, c \in Seq(Seq(Int)) : a = x[2] /\ b = y[2] /\ c = z[2]
        BY <1>3
      <4>2. <<a, b>> \in GroupOrder /\ <<b, c>> \in GroupOrder
        BY <3>3, <4>1, GroupsOrdered
      <4>3. <<a, c>> \in GroupOrder
        BY <4>2, GroupsOrdered DEF Orders
      <4>4. GroupsLess(x[2], z[2])
        BY <4>1, <4>3, GroupsOrdered
      <4> QED BY <4>4, <3>3
    <3> QED BY <2>2, <3>2, <3>3
  <2> HIDE DEF first
  <2> QED BY <2>1, <2>2 DEF Orders
<1>5. PICK x : IsFirst(R, X, x)
  <2> HIDE DEF R
  <2> QED BY <1>1, <1>2, <1>4, FirstExists
<1>6. x \in X /\ \A y \in X : x = y \/ first(x, y)
  <2> HIDE DEF first
  <2> QED BY <1>5 DEF IsFirst
<1>7. best \in X
  <2> HIDE DEF first
  <2> QED BY <1>6
<1> HIDE DEF best
<1> QED BY <1>1, <1>3, <1>7

-----------------------------------------------------------------------------
(* The tuning and its topology.                                             *)

(* What TuningValid needs of the tuning u of a topology t: its topology is  *)
(* t, its ring is the first of its rings, an order of the rails that was given is one of its rails, and groups  *)
(* hold every rank once.                                                    *)
Sound(u, t) ==
  u # Nothing =>
    /\ Shaped(u) /\ u.topology = t /\ RingsGood(u.rings, t.world) /\ u.rings[1] = u.ring
    /\ u.rails \in Nat /\ (u.railOrder = <<>> \/ ValidRailOrder(u.railOrder, u.rails))
    /\ ValidChannels(u.channels) /\ (u.groups = <<>> \/ ValidGroups(u.groups, t.world))

(* The inductive invariant: the topology being entered is one, and the      *)
(* tuning, if there is one, was made for it.                                *)
TuningInv ==
  /\ scene \in Scenarios
  /\ IsTopology(topology)
  /\ Sound(tuning, topology)

(* A link with a cost leaves links with costs.                              *)
LEMMA LinkedCosts ==
  ASSUME NEW f, \A p \in DOMAIN f : f[p] \in LinkCosts, NEW a, NEW b, NEW c \in LinkCosts
  PROVE  \A p \in DOMAIN Linked(f, a, b, c) : Linked(f, a, b, c)[p] \in LinkCosts
<1> DEFINE g == Linked(f, a, b, c)
<1>1. g = [p \in DOMAIN f \cup {<<a, b>>, <<b, a>>} |-> IF p \in {<<a, b>>, <<b, a>>} THEN c ELSE f[p]]
  BY DEF Linked
<1> HIDE DEF g
<1>2. \A p \in DOMAIN g : g[p] \in LinkCosts
  BY <1>1
<1> QED BY <1>2 DEF g

(* A link more leaves a topology of the same ranks.                         *)
LEMMA AddLinkTopology ==
  ASSUME NEW t, IsTopology(t), NEW a, NEW b, NEW c \in LinkCosts
  PROVE  IsTopology(AddLink(t, a, b, c)) /\ AddLink(t, a, b, c).world = t.world
<1> DEFINE g == Linked(t.links, a, b, c)
           u == [t EXCEPT !.links = g]
<1>1. \A p \in DOMAIN g : g[p] \in LinkCosts
  BY LinkedCosts DEF IsTopology
<1>2. AddLink(t, a, b, c) = u
  BY DEF AddLink
<1> HIDE DEF g
<1>3. u = [world |-> t.world, links |-> g, rails |-> t.rails, aggregate |-> t.aggregate]
  BY DEF IsTopology
<1> HIDE DEF u
<1>4. u.world = t.world /\ u.links = g /\ u.rails = t.rails /\ u.aggregate = t.aggregate
  BY <1>3
<1>5. IsTopology(u)
  BY <1>1, <1>3, <1>4 DEF IsTopology
<1> QED BY <1>2, <1>4, <1>5

(* The same for aggregate links.                                            *)
LEMMA AddAggregateTopology ==
  ASSUME NEW t, IsTopology(t), NEW a, NEW b, NEW c
  PROVE  IsTopology(AddAggregateLink(t, a, b, c))
<1> DEFINE g == Linked(t.aggregate, a, b, c)
           u == [t EXCEPT !.aggregate = g]
<1>2. AddAggregateLink(t, a, b, c) = u
  BY DEF AddAggregateLink
<1> HIDE DEF g
<1>3. u = [world |-> t.world, links |-> t.links, rails |-> t.rails, aggregate |-> g]
  BY DEF IsTopology
<1> HIDE DEF u
<1>4. u.world = t.world /\ u.links = t.links /\ u.rails = t.rails /\ u.aggregate = g
  BY <1>3
<1>5. IsTopology(u)
  BY <1>3, <1>4 DEF IsTopology
<1> QED BY <1>2, <1>5

(* The same for the links of a rail, old or new.                            *)
LEMMA AddRailTopology ==
  ASSUME NEW t, IsTopology(t), NEW rail \in Nat, NEW a, NEW b, NEW c \in LinkCosts
  PROVE  IsTopology(AddRailLink(t, rail, a, b, c))
<1> DEFINE M == Max({Len(t.rails), rail + 1})
           old(i) == IF i <= Len(t.rails) THEN t.rails[i] ELSE <<>>
           g == [i \in 1 .. M |-> IF i = rail + 1 THEN Linked(old(i), a, b, c) ELSE old(i)]
           u == [t EXCEPT !.rails = g]
<1>1. AddRailLink(t, rail, a, b, c) = u
  BY DEF AddRailLink
<1>2. M \in Nat
  <2>1. PICK x, y : x = Len(t.rails) /\ y = rail + 1 /\ x \in Nat /\ y \in Nat
    BY DEF IsTopology
  <2>2. IsFiniteSet({x} \cup {y})
    BY FS_Singleton, FS_Union
  <2>3. {x} \cup {y} = {x, y} /\ {x, y} \subseteq Int /\ {x, y} # {}
    BY <2>1
  <2>4. Max({x, y}) \in {x, y}
    BY <2>2, <2>3, MinMaxIn
  <2> QED BY <2>1, <2>4
<1> HIDE DEF M
<1>3. ASSUME NEW i \in 1 .. M PROVE \A p \in DOMAIN old(i) : old(i)[p] \in LinkCosts
  <2>1. CASE i <= Len(t.rails)
    <3>1. i \in DOMAIN t.rails /\ old(i) = t.rails[i]
      BY <2>1 DEF IsTopology
    <3> QED BY <3>1 DEF IsTopology
  <2>2. CASE ~(i <= Len(t.rails))
    <3>1. old(i) = <<>> /\ DOMAIN << >> = {}
      BY <2>2
    <3> QED BY <3>1
  <2> QED BY <2>1, <2>2
<1> HIDE DEF old
<1>4. ASSUME NEW i \in 1 .. M PROVE \A p \in DOMAIN g[i] : g[i][p] \in LinkCosts
  <2>1. CASE i = rail + 1
    <3>1. g[i] = Linked(old(i), a, b, c)
      BY <2>1
    <3>2. \A p \in DOMAIN Linked(old(i), a, b, c) : Linked(old(i), a, b, c)[p] \in LinkCosts
      BY <1>3, LinkedCosts
    <3> QED BY <3>1, <3>2
  <2>2. CASE i # rail + 1
    <3>1. g[i] = old(i)
      BY <2>2
    <3> QED BY <3>1, <1>3
  <2> QED BY <2>1, <2>2
<1>5. DOMAIN g = 1 .. M /\ Len(g) = M
  BY <1>2
<1> HIDE DEF g
<1>6. u = [world |-> t.world, links |-> t.links, rails |-> g, aggregate |-> t.aggregate]
  BY DEF IsTopology
<1> HIDE DEF u
<1>7. u.world = t.world /\ u.links = t.links /\ u.rails = g /\ u.aggregate = t.aggregate
  BY <1>6
<1>8. IsTopology(u)
  BY <1>2, <1>4, <1>5, <1>6, <1>7 DEF IsTopology
<1> QED BY <1>1, <1>8

(* A tuning that is made is sound.                                          *)
LEMMA MadeSound ==
  ASSUME IsTopology(topology), NEW policy, NEW ring, ValidRingOrder(ring, topology.world)
  PROVE  Sound(Made(policy, ring), topology)
<1>1. PICK z : z = Made(policy, ring)
  OBVIOUS
<1>2. Shaped(z)
  BY <1>1, MadeShaped
<1>3. /\ z.topology = topology /\ z.rings = RingOrdersWithPrimary(topology, ring, MaxRingChannels)
      /\ z.ring = ring /\ z.rails = 1 /\ z.railOrder = <<>> /\ z.channels = 1 /\ z.groups = <<>>
  BY <1>1 DEF Made
<1>4. RingsGood(z.rings, topology.world) /\ z.rings[1] = z.ring
  BY <1>3, MadeRings
<1>5. MaxRingChannels \in Nat \ {0}
  BY TuningAssumption
<1>6. Sound(z, topology)
  BY <1>2, <1>3, <1>4, <1>5 DEF Sound, ValidChannels
<1> QED BY <1>1, <1>6

(* So is what valid settings make of it.                                    *)
LEMMA ConfiguredSound ==
  ASSUME IsTopology(topology), NEW ring, ValidRingOrder(ring, topology.world),
         NEW e \in Settings, ValidSettings(e)
  PROVE  Sound(Configured(e, Made("Auto", ring)), topology) /\ Configured(e, Made("Auto", ring)) # Nothing
<1>1. PICK z, v : z = Made("Auto", ring) /\ v = Configured(e, z)
  OBVIOUS
<1>2. Sound(z, topology) /\ Shaped(z) /\ z.profile = Nothing /\ z # Nothing
  <2>1. "policy" \in DOMAIN z
    BY <1>1 DEF Made
  <2> QED BY <1>1, <2>1, MadeSound, MadeShaped DEF Nothing
<1>3. /\ Shaped(v) /\ v.ring = z.ring /\ v.rings = z.rings /\ v.topology = z.topology
      /\ v.channels = e.channels /\ v.rails = e.rails /\ v.railOrder = e.railOrder /\ v.groups = e.groups
  BY <1>1, <1>2, ConfiguredShaped
<1>4. e.channels \in 1 .. MaxRingChannels /\ e.rails \in 1 .. MaxP2pRails
  BY DEF Settings
<1>5. MaxRingChannels \in Nat /\ MaxP2pRails \in Nat
  BY TuningAssumption
<1>6. e.rails \in Nat /\ ValidChannels(e.channels)
  BY <1>4, <1>5 DEF ValidChannels
<1>7. /\ e.railOrder = <<>> \/ ValidRailOrder(e.railOrder, e.rails)
      /\ e.groups = <<>> \/ ValidGroups(e.groups, topology.world)
  BY DEF ValidSettings
<1>8. Sound(v, topology)
  BY <1>2, <1>3, <1>6, <1>7 DEF Sound
<1>9. v # Nothing
  <2>1. "policy" \in DOMAIN v
    BY <1>3 DEF Shaped
  <2> QED BY <2>1 DEF Nothing
<1> QED BY <1>1, <1>8, <1>9

(* Inferring groups keeps a tuning sound.                                   *)
LEMMA InferredSound ==
  ASSUME NEW u, u # Nothing, NEW t, IsTopology(t), Sound(u, t), NEW bytes
  PROVE  Sound(Inferred(u, bytes), t)
<1>1. CASE Inferred(u, bytes) = Nothing
  BY <1>1 DEF Sound
<1>2. CASE Inferred(u, bytes) # Nothing
  <2>1. PICK groups : Inferred(u, bytes) = [u EXCEPT !.groups = groups] /\ ValidGroups(groups, t.world)
    <3>1. u.topology = t
      BY DEF Sound
    <3> QED BY <1>2, <3>1, InferredValid
  <2>2. PICK v : v = [u EXCEPT !.groups = groups]
    OBVIOUS
  <2>3. Shaped(v) /\ v.topology = u.topology /\ v.rings = u.rings /\ v.ring = u.ring /\ v.rails = u.rails
        /\ v.railOrder = u.railOrder /\ v.channels = u.channels /\ v.groups = groups
    BY <2>2 DEF Sound, Shaped
  <2>4. Sound(v, t)
    BY <2>1, <2>3 DEF Sound
  <2> QED BY <2>1, <2>2, <2>4
<1> QED BY <1>1, <1>2

(* Loading a profile, valid or refused, keeps a tuning sound.               *)
LEMMA LoadedSound ==
  ASSUME NEW u, u # Nothing, NEW t, Sound(u, t), NEW probed
  PROVE  Sound(Loaded(u, probed), t)
<1>1. CASE ~ValidProfile(u, saved, probed)
  BY <1>1 DEF Sound, Loaded
<1>2. CASE ValidProfile(u, saved, probed)
  <2>1. PICK v : v = [u EXCEPT !.profile = saved] /\ Loaded(u, probed) = v
    BY <1>2 DEF Loaded
  <2>2. Shaped(v) /\ v.topology = u.topology /\ v.rings = u.rings /\ v.ring = u.ring /\ v.rails = u.rails
        /\ v.railOrder = u.railOrder /\ v.channels = u.channels /\ v.groups = u.groups
    BY <2>1 DEF Sound, Shaped
  <2> QED BY <2>1, <2>2 DEF Sound
<1> QED BY <1>1, <1>2

(* Making a tuning.                                                         *)
LEMMA MakesSound ==
  ASSUME TuningInv, FromTopology \/ FromEnvironment
  PROVE  Sound(tuning', topology)
<1>0. IsTopology(topology)
  BY DEF TuningInv
<1>1. CASE FromTopology
  <2>1. PICK policy, ring : ValidRingOrder(ring, topology.world) /\ tuning' = Made(policy, ring)
    BY <1>1 DEF FromTopology
  <2> QED BY <1>0, <2>1, MadeSound
<1>2. CASE FromEnvironment
  <2>1. PICK ring, e, u :
          /\ e \in Settings /\ ValidRingOrder(ring, topology.world) /\ ValidSettings(e)
          /\ u = IF e.inferred # 0 THEN Inferred(Configured(e, Made("Auto", ring)), e.inferred)
                 ELSE Configured(e, Made("Auto", ring))
          /\ tuning' = IF u = Nothing THEN Nothing
                       ELSE IF e.policy = "Hierarchical" /\ u.groups = <<>> THEN Nothing
                       ELSE IF e.profile # "none" THEN Loaded(u, e.profile = "probed") ELSE u
    BY <1>2, EnvironmentStep
  <2>2. PICK made : made = Configured(e, Made("Auto", ring))
    OBVIOUS
  <2>3. Sound(made, topology) /\ made # Nothing
    BY <1>0, <2>1, <2>2, ConfiguredSound
  <2>4. Sound(u, topology)
    <3>1. CASE e.inferred # 0
      BY <3>1, <1>0, <2>1, <2>2, <2>3, InferredSound
    <3>2. CASE e.inferred = 0
      BY <3>2, <2>1, <2>2, <2>3
    <3> QED BY <3>1, <3>2
  <2>5. CASE tuning' = Nothing
    BY <2>5 DEF Sound
  <2>6. CASE u # Nothing /\ tuning' = Loaded(u, e.profile = "probed")
    BY <2>6, <2>4, LoadedSound
  <2>7. CASE u # Nothing /\ tuning' = u
    BY <2>7, <2>4
  <2> QED BY <2>1, <2>5, <2>6, <2>7
<1> QED BY <1>1, <1>2

(* A builder call.                                                          *)
LEMMA BuildsSound ==
  ASSUME TuningInv, tuning # Nothing,
         \/ WithDirectTransport \/ WithTransport \/ WithHierarchy \/ WithInferredHierarchy
         \/ WithRingChannels \/ WithP2pRails \/ WithRailOrder \/ WithAutotuneProfile
  PROVE  Sound(tuning', topology)
<1>0. Sound(tuning, topology) /\ IsTopology(topology)
  BY DEF TuningInv
<1>1. /\ Shaped(tuning) /\ tuning.topology = topology /\ RingsGood(tuning.rings, topology.world)
      /\ tuning.rings[1] = tuning.ring
      /\ tuning.rails \in Nat /\ (tuning.railOrder = <<>> \/ ValidRailOrder(tuning.railOrder, tuning.rails))
      /\ ValidChannels(tuning.channels) /\ (tuning.groups = <<>> \/ ValidGroups(tuning.groups, topology.world))
  BY <1>0 DEF Sound
<1>n. ASSUME tuning' = Nothing PROVE Sound(tuning', topology)
  BY <1>n DEF Sound
<1>r. ASSUME NEW v, Sound(v, topology), tuning' = Revalidated(v) PROVE Sound(tuning', topology)
  BY <1>r DEF Revalidated, Sound
<1>2. CASE WithDirectTransport
  <2>1. PICK d \in scene.directs :
          \/ tuning' = Revalidated([tuning EXCEPT !.bandwidth = d.bandwidth, !.latency = d.latency])
          \/ tuning' = Nothing
    BY <1>2 DEF WithDirectTransport, Build
  <2>2. PICK v : v = [tuning EXCEPT !.bandwidth = d.bandwidth, !.latency = d.latency]
    OBVIOUS
  <2>3. Shaped(v) /\ v.topology = tuning.topology /\ v.rings = tuning.rings /\ v.ring = tuning.ring /\ v.rails = tuning.rails
        /\ v.railOrder = tuning.railOrder /\ v.channels = tuning.channels /\ v.groups = tuning.groups
    BY <1>1, <2>2 DEF Shaped
  <2>4. Sound(v, topology)
    BY <1>1, <2>3 DEF Sound
  <2> QED BY <2>1, <2>2, <2>4, <1>r, <1>n
<1>3. CASE WithTransport
  <2>1. PICK d \in scene.transports : tuning' = Revalidated([tuning EXCEPT !.transport = d])
    BY <1>3 DEF WithTransport, Build
  <2>2. PICK v : v = [tuning EXCEPT !.transport = d]
    OBVIOUS
  <2>3. Shaped(v) /\ v.topology = tuning.topology /\ v.rings = tuning.rings /\ v.ring = tuning.ring /\ v.rails = tuning.rails
        /\ v.railOrder = tuning.railOrder /\ v.channels = tuning.channels /\ v.groups = tuning.groups
    BY <1>1, <2>2 DEF Shaped
  <2>4. Sound(v, topology)
    BY <1>1, <2>3 DEF Sound
  <2> QED BY <2>1, <2>2, <2>4, <1>r
<1>4. CASE WithHierarchy
  <2>1. PICK groups \in scene.groups :
          tuning' = IF ValidGroups(groups, topology.world)
                      THEN Revalidated([tuning EXCEPT !.groups = groups]) ELSE Nothing
    BY <1>4 DEF WithHierarchy, Build
  <2>2. PICK v : v = [tuning EXCEPT !.groups = groups]
    OBVIOUS
  <2>3. CASE ValidGroups(groups, topology.world)
    <3>1. Shaped(v) /\ v.topology = tuning.topology /\ v.rings = tuning.rings /\ v.ring = tuning.ring /\ v.rails = tuning.rails
          /\ v.railOrder = tuning.railOrder /\ v.channels = tuning.channels /\ v.groups = groups
      BY <1>1, <2>2 DEF Shaped
    <3>2. Sound(v, topology)
      BY <1>1, <2>3, <3>1 DEF Sound
    <3> QED BY <2>1, <2>2, <2>3, <3>2, <1>r
  <2>4. CASE ~ValidGroups(groups, topology.world)
    BY <2>1, <2>4, <1>n
  <2> QED BY <2>3, <2>4
<1>5. CASE WithInferredHierarchy
  <2>1. PICK bytes \in Payloads : \E u \in {Inferred(tuning, bytes)} : Build(IF u = Nothing THEN Nothing ELSE Revalidated(u))
    BY <1>5 DEF WithInferredHierarchy
  <2>2. PICK v : v = Inferred(tuning, bytes)
    OBVIOUS
  <2>3. tuning' = Nothing \/ tuning' = Revalidated(v)
    BY <2>1, <2>2 DEF Build
  <2>4. Sound(v, topology)
    BY <1>0, <2>2, InferredSound
  <2> QED BY <2>3, <2>4, <1>r, <1>n
<1>6. CASE WithRingChannels
  <2>1. PICK n \in 1 .. MaxRingChannels + 1 :
          tuning' = IF ValidChannels(n) THEN Revalidated([tuning EXCEPT !.channels = n]) ELSE Nothing
    BY <1>6 DEF WithRingChannels, Build
  <2>2. PICK v : v = [tuning EXCEPT !.channels = n]
    OBVIOUS
  <2>3. CASE ValidChannels(n)
    <3>1. Shaped(v) /\ v.topology = tuning.topology /\ v.rings = tuning.rings /\ v.ring = tuning.ring /\ v.rails = tuning.rails
          /\ v.railOrder = tuning.railOrder /\ v.channels = n /\ v.groups = tuning.groups
      BY <1>1, <2>2 DEF Shaped
    <3>2. Sound(v, topology)
      BY <1>1, <2>3, <3>1 DEF Sound
    <3> QED BY <2>1, <2>2, <2>3, <3>2, <1>r
  <2>4. CASE ~ValidChannels(n)
    BY <2>1, <2>4, <1>n
  <2> QED BY <2>3, <2>4
<1>7. CASE WithP2pRails
  <2>1. PICK n \in 1 .. MaxP2pRails + 1 :
          tuning' = IF n <= MaxP2pRails /\ (tuning.railOrder = <<>> \/ ValidRailOrder(tuning.railOrder, n))
                      THEN Revalidated([tuning EXCEPT !.rails = n]) ELSE Nothing
    BY <1>7 DEF WithP2pRails, Build
  <2>2. PICK v : v = [tuning EXCEPT !.rails = n]
    OBVIOUS
  <2>3. CASE n <= MaxP2pRails /\ (tuning.railOrder = <<>> \/ ValidRailOrder(tuning.railOrder, n))
    <3>1. Shaped(v) /\ v.topology = tuning.topology /\ v.rings = tuning.rings /\ v.ring = tuning.ring /\ v.rails = n
          /\ v.railOrder = tuning.railOrder /\ v.channels = tuning.channels /\ v.groups = tuning.groups
      BY <1>1, <2>2 DEF Shaped
    <3>2. n \in Nat
      BY TuningAssumption
    <3>3. Sound(v, topology)
      BY <1>1, <2>3, <3>1, <3>2 DEF Sound
    <3> QED BY <2>1, <2>2, <2>3, <3>3, <1>r
  <2>4. CASE ~(n <= MaxP2pRails /\ (tuning.railOrder = <<>> \/ ValidRailOrder(tuning.railOrder, n)))
    BY <2>1, <2>4, <1>n
  <2> QED BY <2>3, <2>4
<1>8. CASE WithRailOrder
  <2>1. PICK order \in scene.railOrders :
          tuning' = IF ValidRailOrder(order, tuning.rails)
                      THEN Revalidated([tuning EXCEPT !.railOrder = order]) ELSE Nothing
    BY <1>8 DEF WithRailOrder, Build
  <2>2. PICK v : v = [tuning EXCEPT !.railOrder = order]
    OBVIOUS
  <2>3. CASE ValidRailOrder(order, tuning.rails)
    <3>1. Shaped(v) /\ v.topology = tuning.topology /\ v.rings = tuning.rings /\ v.ring = tuning.ring /\ v.rails = tuning.rails
          /\ v.railOrder = order /\ v.channels = tuning.channels /\ v.groups = tuning.groups
      BY <1>1, <2>2 DEF Shaped
    <3>2. Sound(v, topology)
      BY <1>1, <2>3, <3>1 DEF Sound
    <3> QED BY <2>1, <2>2, <2>3, <3>2, <1>r
  <2>4. CASE ~ValidRailOrder(order, tuning.rails)
    BY <2>1, <2>4, <1>n
  <2> QED BY <2>3, <2>4
<1>9. CASE WithAutotuneProfile
  <2>1. PICK probed \in BOOLEAN : tuning' = Loaded(tuning, probed)
    BY <1>9 DEF WithAutotuneProfile, Build
  <2> QED BY <2>1, <1>0, LoadedSound
<1> QED BY <1>2, <1>3, <1>4, <1>5, <1>6, <1>7, <1>8, <1>9

(* Entering a link.                                                         *)
LEMMA EntersTopology ==
  ASSUME TuningInv, EnterLink \/ EnterRailLink \/ EnterAggregateLink
  PROVE  IsTopology(topology') /\ tuning' = Nothing
<1>0. IsTopology(topology) /\ scene.costs \cup scene.railCosts \subseteq LinkCosts
  BY TuningAssumption DEF TuningInv
<1>1. CASE EnterLink
  <2>1. PICK p \in Pairs, c \in scene.costs : Enter(AddLink(topology, p[1], p[2], c))
    BY <1>1 DEF EnterLink
  <2>2. c \in LinkCosts
    BY <1>0
  <2>3. IsTopology(AddLink(topology, p[1], p[2], c))
    BY <1>0, <2>2, AddLinkTopology
  <2> QED BY <2>1, <2>3 DEF Enter
<1>2. CASE EnterRailLink
  <2>1. PICK rail \in 0 .. MaxP2pRails - 1, p \in Pairs, c \in scene.railCosts :
          Enter(AddRailLink(topology, rail, p[1], p[2], c))
    BY <1>2 DEF EnterRailLink
  <2>2. c \in LinkCosts /\ rail \in Nat
    BY <1>0, TuningAssumption
  <2>3. IsTopology(AddRailLink(topology, rail, p[1], p[2], c))
    BY <1>0, <2>2, AddRailTopology
  <2> QED BY <2>1, <2>3 DEF Enter
<1>3. CASE EnterAggregateLink
  <2>1. PICK p \in Pairs, b \in scene.aggregates : Enter(AddAggregateLink(topology, p[1], p[2], b))
    BY <1>3 DEF EnterAggregateLink
  <2>2. IsTopology(AddAggregateLink(topology, p[1], p[2], b))
    BY <1>0, AddAggregateTopology
  <2> QED BY <2>1, <2>2 DEF Enter
<1> QED BY <1>1, <1>2, <1>3

(* The first state is in the invariant.                                     *)
LEMMA TuningInit == Init => TuningInv
<1> SUFFICES ASSUME Init PROVE TuningInv
  OBVIOUS
<1>1. scene \in Scenarios /\ topology = scene.start /\ tuning = Nothing
  BY DEF Init
<1> QED BY <1>1, TuningAssumption DEF TuningInv, Sound

(* Every call keeps the invariant.                                          *)
LEMMA TuningNext == TuningInv /\ [Next]_vars => TuningInv'
<1> SUFFICES ASSUME TuningInv, [Next]_vars
             PROVE  scene' \in Scenarios /\ IsTopology(topology') /\ Sound(tuning', topology')
  BY DEF TuningInv, Sound, IsTopology
<1>0. scene \in Scenarios /\ IsTopology(topology) /\ Sound(tuning, topology)
  BY DEF TuningInv
<1>1. CASE EnterLink \/ EnterRailLink \/ EnterAggregateLink
  <2>1. IsTopology(topology') /\ tuning' = Nothing
    BY <1>1, EntersTopology
  <2>2. scene' = scene
    BY <1>1 DEF EnterLink, EnterRailLink, EnterAggregateLink, Enter
  <2> QED BY <1>0, <2>1, <2>2 DEF Sound
<1>2. CASE FromTopology \/ FromEnvironment
  <2>1. Sound(tuning', topology)
    BY <1>2, MakesSound
  <2>2. scene' = scene /\ topology' = topology
    BY <1>2 DEF FromTopology, FromEnvironment
  <2> QED BY <1>0, <2>1, <2>2
<1>3. CASE \/ WithDirectTransport \/ WithTransport \/ WithHierarchy \/ WithInferredHierarchy
           \/ WithRingChannels \/ WithP2pRails \/ WithRailOrder \/ WithAutotuneProfile
  <2>1. scene' = scene /\ topology' = topology /\ tuning # Nothing
    BY <1>3 DEF Build, WithDirectTransport, WithTransport, WithHierarchy, WithInferredHierarchy,
                WithRingChannels, WithP2pRails, WithRailOrder, WithAutotuneProfile
  <2>2. Sound(tuning', topology)
    BY <1>3, <2>1, BuildsSound
  <2> QED BY <1>0, <2>1, <2>2
<1>4. CASE SaveProfile \/ UNCHANGED vars
  <2>1. scene' = scene /\ topology' = topology /\ tuning' = tuning
    BY <1>4 DEF SaveProfile, vars
  <2> QED BY <1>0, <2>1
<1>5. CASE Restart
  <2>1. scene' = scene /\ topology' = topology /\ tuning' = Nothing
    BY <1>5 DEF Restart
  <2> QED BY <1>0, <2>1 DEF Sound
<1> QED BY <1>1, <1>2, <1>3, <1>4, <1>5 DEF Next

(* TuningValid for every topology, scenario and sequence of calls: the      *)
(* rings that collect_rings, the greedy search and select_diverse_rings     *)
(* find visit every rank once, no two rings that ring_orders_with_primary   *)
(* returns have the same edges, the order of the rails lists every rail     *)
(* once, groups that were given or inferred hold every rank once, and the   *)
(* number of channels is within its limit.                                  *)
THEOREM TuningAlwaysValid == Spec => []TuningValid
<1>1. TuningInv => TuningValid
  <2> SUFFICES ASSUME TuningInv, tuning # Nothing
               PROVE  /\ \A o \in Range(tuning.rings) : ValidRingOrder(o, topology.world)
                      /\ \A i, j \in DOMAIN tuning.rings :
                           i # j => RingEdges(tuning.rings[i]) # RingEdges(tuning.rings[j])
                      /\ ValidRailOrder(RailOrder(tuning), tuning.rails)
                      /\ tuning.groups # <<>> => ValidGroups(tuning.groups, topology.world)
                      /\ ValidChannels(tuning.channels)
    BY DEF TuningValid
  <2>1. /\ tuning.topology = topology /\ RingsGood(tuning.rings, topology.world) /\ IsTopology(topology)
        /\ tuning.rails \in Nat /\ (tuning.railOrder = <<>> \/ ValidRailOrder(tuning.railOrder, tuning.rails))
        /\ ValidChannels(tuning.channels) /\ (tuning.groups = <<>> \/ ValidGroups(tuning.groups, topology.world))
    BY DEF TuningInv, Sound
  <2>2. ValidRailOrder(PreferredRailOrder(tuning.topology, tuning.rails), tuning.rails)
    BY <2>1, PreferredValid
  <2>3. ValidRailOrder(RailOrder(tuning), tuning.rails)
    BY <2>1, <2>2 DEF RailOrder
  <2> QED BY <2>1, <2>3 DEF RingsGood, Differ
<1> QED BY <1>1, TuningInit, TuningNext, PTL DEF Spec

-----------------------------------------------------------------------------
(* The stored profile.                                                      *)

(* It tells the fingerprint and the transport of the tuning it was measured *)
(* with, and the profile of a tuning is this one.                           *)
Stored ==
  /\ saved # Nothing =>
       /\ Shaped(saved.tuned) /\ saved.tuned.rings[1] = saved.tuned.ring
       /\ saved.fingerprint = Fingerprint(saved.tuned)
       /\ saved.detected = saved.tuned.topology
       /\ \E version : saved.execution = ExecutionFingerprint(version, saved.tuned)
  /\ tuning # Nothing => tuning.profile \in {Nothing, saved}

(* Equal fingerprints make equal estimates, for every number of channels.   *)
LEMMA FingerprintDecides ==
  ASSUME NEW u, NEW v, Shaped(u), Shaped(v), u.rings[1] = u.ring, v.rings[1] = v.ring,
         Fingerprint(u) = Fingerprint(v)
  PROVE  SameEstimates(u, v)
<1>1. ASSUME NEW n
      PROVE  Inputs([u EXCEPT !.channels = n]) = Inputs([v EXCEPT !.channels = n])
  <2>1. PICK a, b : a = [u EXCEPT !.channels = n] /\ b = [v EXCEPT !.channels = n]
    OBVIOUS
  <2>2. /\ a.topology = u.topology /\ a.ring = u.ring /\ a.rings = u.rings /\ a.groups = u.groups
        /\ a.bandwidth = u.bandwidth /\ a.latency = u.latency /\ a.rails = u.rails
        /\ a.railOrder = u.railOrder /\ a.channels = n
    BY <2>1 DEF Shaped
  <2>3. /\ b.topology = v.topology /\ b.ring = v.ring /\ b.rings = v.rings /\ b.groups = v.groups
        /\ b.bandwidth = v.bandwidth /\ b.latency = v.latency /\ b.rails = v.rails
        /\ b.railOrder = v.railOrder /\ b.channels = n
    BY <2>1 DEF Shaped
  <2>4. RailOrder(a) = RailOrder(u) /\ RailOrder(b) = RailOrder(v)
    BY <2>2, <2>3 DEF RailOrder
  <2>5. /\ u.topology = v.topology /\ u.rings = v.rings /\ u.groups = v.groups
        /\ u.bandwidth = v.bandwidth /\ u.latency = v.latency /\ RailOrder(u) = RailOrder(v)
    BY DEF Fingerprint
  <2>6. Inputs(a) = Inputs(b)
    BY <2>2, <2>3, <2>4, <2>5 DEF Inputs
  <2> QED BY <2>1, <2>6
<1> QED BY <1>1 DEF SameEstimates, DirectEstimate, PeerEstimate, HierarchicalEstimate

(* Every call keeps what the stored profile tells.                          *)
LEMMA StoredNext ==
  ASSUME TuningInv, Fresh(tuning), Stored, [Next]_vars
  PROVE  Stored'
<1>1. CASE SaveProfile
  <2>1. /\ tuning # Nothing /\ saved = Nothing /\ tuning' = tuning
        /\ \E entries, version :
             saved' = [version |-> version.profile, world |-> Len(tuning.ring),
                       fingerprint |-> Fingerprint(tuning), detected |-> tuning.topology,
                       execution |-> ExecutionFingerprint(version, tuning), entries |-> entries,
                       tuned |-> tuning]
    BY <1>1 DEF SaveProfile
  <2>2. /\ saved'.tuned = tuning /\ saved'.fingerprint = Fingerprint(tuning)
        /\ saved'.detected = tuning.topology
        /\ \E version : saved'.execution = ExecutionFingerprint(version, tuning)
    BY <2>1
  <2>3. Shaped(tuning) /\ tuning.rings[1] = tuning.ring
    BY <2>1 DEF TuningInv, Sound
  <2>4. tuning.profile = Nothing
    BY <2>1 DEF Stored
  <2>5. /\ Shaped(saved'.tuned) /\ saved'.tuned.rings[1] = saved'.tuned.ring
        /\ saved'.fingerprint = Fingerprint(saved'.tuned)
        /\ saved'.detected = saved'.tuned.topology
        /\ \E version : saved'.execution = ExecutionFingerprint(version, saved'.tuned)
    BY <2>2, <2>3
  <2> QED BY <2>1, <2>4, <2>5 DEF Stored, Shaped, Fingerprint, RailOrder, ExecutionFingerprint
<1>2. CASE ~SaveProfile
  <2>1. saved' = saved
    BY <1>2 DEF Next, vars, EnterLink, EnterRailLink, EnterAggregateLink, Enter, FromTopology,
         FromEnvironment, Build, WithDirectTransport, WithTransport, WithHierarchy,
         WithInferredHierarchy, WithRingChannels, WithP2pRails, WithRailOrder, WithAutotuneProfile, Restart
  <2>2. tuning' # Nothing => tuning'.profile \in {Nothing, saved}
    <3>1. CASE tuning' = Nothing \/ tuning' = tuning
      BY <3>1 DEF Stored
    <3>2. CASE Next /\ tuning = Nothing
      BY <3>2, MakingStep
    <3>3. CASE Next /\ tuning # Nothing /\ tuning' # Nothing /\ tuning' # tuning
      BY <3>3, BuilderStep DEF Stored
    <3> QED BY <3>1, <3>2, <3>3 DEF vars
  <2> QED BY <2>1, <2>2 DEF Stored, Shaped, Fingerprint, RailOrder, ExecutionFingerprint
<1> QED BY <1>1, <1>2

(* FingerprintCoversEstimates for every topology, scenario, payload and     *)
(* sequence of calls, with a restart on any other topology between storing  *)
(* a profile and loading it: a profile whose fingerprint fits was measured  *)
(* with a tuning that has the same estimates, and one in use with the       *)
(* transport and, up to what the probe cannot tell apart, the estimates of  *)
(* the tuning that uses it.                                                 *)
THEOREM FingerprintAlwaysCovers == Spec => []FingerprintCoversEstimates
<1> DEFINE Inv == TuningInv /\ Fresh(tuning) /\ Stored
<1>1. Init => Inv
  BY TuningInit DEF Init, Fresh, Stored
<1>2. Inv /\ [Next]_vars => Inv'
  BY TuningNext, FreshStep, StoredNext
<1>3. Inv => FingerprintCoversEstimates
  <2> SUFFICES ASSUME TuningInv, Fresh(tuning), Stored, tuning # Nothing, saved # Nothing
               PROVE  /\ saved.fingerprint = Fingerprint(tuning) => SameEstimates(tuning, saved.tuned)
                      /\ tuning.profile # Nothing =>
                           /\ tuning.transport = tuning.profile.tuned.transport
                           /\ \E t \in {tuning.topology, tuning.profile.tuned.topology} :
                                /\ t = tuning.topology \/ ProbedTopologyMatches(tuning.topology, t)
                                /\ SameEstimates([tuning EXCEPT !.topology = t], tuning.profile.tuned)
    BY DEF FingerprintCoversEstimates
  <2>1. /\ Shaped(tuning) /\ tuning.rings[1] = tuning.ring
        /\ Shaped(saved.tuned) /\ saved.tuned.rings[1] = saved.tuned.ring
        /\ saved.fingerprint = Fingerprint(saved.tuned) /\ saved.detected = saved.tuned.topology
    BY DEF TuningInv, Sound, Stored
  <2>2. saved.fingerprint = Fingerprint(tuning) => SameEstimates(tuning, saved.tuned)
    BY <2>1, FingerprintDecides
  <2>3. ASSUME tuning.profile # Nothing
        PROVE  /\ tuning.transport = tuning.profile.tuned.transport
               /\ \E t \in {tuning.topology, tuning.profile.tuned.topology} :
                    /\ t = tuning.topology \/ ProbedTopologyMatches(tuning.topology, t)
                    /\ SameEstimates([tuning EXCEPT !.topology = t], tuning.profile.tuned)
    <3>1. tuning.profile = saved /\ ValidProfile(tuning, saved, TRUE)
      BY <2>3 DEF Fresh, Stored
    <3>2. saved.execution = ExecutionFingerprint(Current, tuning) /\ MeasuredHere(tuning, saved, TRUE)
      BY <3>1 DEF ValidProfile
    <3>3. tuning.transport = saved.tuned.transport
      BY <3>2 DEF Stored, ExecutionFingerprint
    <3>4. ASSUME NEW t, saved.fingerprint = Fingerprint([tuning EXCEPT !.topology = t])
          PROVE  SameEstimates([tuning EXCEPT !.topology = t], saved.tuned)
      <4>1. PICK u : u = [tuning EXCEPT !.topology = t]
        OBVIOUS
      <4>2. Shaped(u) /\ u.rings[1] = u.ring
        BY <2>1, <4>1 DEF Shaped
      <4> QED BY <2>1, <3>4, <4>1, <4>2, FingerprintDecides
    <3>5. CASE saved.fingerprint = Fingerprint(tuning)
      <4>1. [tuning EXCEPT !.topology = tuning.topology] = tuning
        BY <2>1 DEF Shaped
      <4> QED BY <2>2, <3>1, <3>3, <3>5, <4>1
    <3>6. CASE /\ ProbedTopologyMatches(tuning.topology, saved.detected)
               /\ saved.fingerprint = Fingerprint([tuning EXCEPT !.topology = saved.detected])
      BY <2>1, <3>1, <3>3, <3>4, <3>6
    <3> QED BY <3>2, <3>5, <3>6 DEF MeasuredHere
  <2> QED BY <2>2, <2>3
<1> QED BY <1>1, <1>2, <1>3, PTL DEF Spec
=============================================================================
