--------------------------- MODULE FeaturesProofs ---------------------------
(***************************************************************************)
(* Start-up and the resources on top of it, for any number of goroutines,  *)
(* candidate paths, opened libraries and resources.  The argument: an Init *)
(* at work holds the package lock and no driver is installed then; so once *)
(* a driver is installed its library and its bindings never change, and    *)
(* everybody who calls a driver calls that one.  The last section is about *)
(* one virtual buffer made through that driver.                            *)
(***************************************************************************)
EXTENDS Features, VirtualBuffer, FiniteSetTheorems, TLAPS

\* Init works under the lock and only while no driver is installed.
InitAlone ==
  /\ \A g \in Goroutines : pc[g] \in InitSteps => mu = g
  /\ mu # Nobody => pc[mu] \in InitSteps /\ driver = 0 /\ path # 0

\* What Init has in hand at each of its steps; whoever else has a driver in
\* hand, in a Context or in a resource has the installed one.
HandsExact ==
  /\ \A g \in Goroutines :
       /\ pc[g] \in {"idle", "open"} => hand[g] = 0
       /\ pc[g] \in {"required", "optional", "cuInit"} =>
            /\ hand[g] \in Libs /\ lib[hand[g]] = "open"
            /\ pc[g] # "required" => requiredSymbols \subseteq bound[hand[g]]
            /\ pc[g] = "cuInit" =>
                 optionalSymbols \cap exports[hand[g]] \subseteq bound[hand[g]]
       /\ pc[g] \in PrimarySteps => hand[g] = driver /\ driver # 0
       /\ ctx[g] # 0 => ctx[g] = driver
       /\ pc[g] \in PrimarySteps => ctx[g] = 0

\* The installed driver is complete.
DriverComplete ==
  driver # 0 => /\ lib[driver] = "open" /\ driver \in inited
                /\ requiredSymbols \subseteq bound[driver]
                /\ optionalSymbols \cap exports[driver] \subseteq bound[driver]

\* Start-up.
SInv == NothingLeaks /\ InitAlone /\ HandsExact /\ DriverComplete

LinkGroup == {"LinkCreate", "LinkAddData", "LinkComplete", "LinkDestroy"}

ResourceTypes ==
  /\ rpc \in [Resources -> {"none", "create", "unpin", "live", "destroyed"}]
  /\ home \in [Resources -> Goroutines \cup {Nobody}]
  /\ via \in [Resources -> 0 .. MaxOpens]
  /\ pinned \subseteq Resources /\ lent \subseteq Resources

\* A resource that exists came from the installed driver, which has the whole
\* group of entry points it was checked for; its memory is pinned from before
\* its creation until after its end.
ResourcesExact ==
  /\ ResourceTypes
  /\ \A r \in Resources : rpc[r] # "none" => via[r] = driver /\ driver # 0
  /\ \A l \in Linkers : rpc[l] # "none" => LinkGroup \subseteq bound[driver]
  /\ \A v \in Virtuals : rpc[v] # "none" => rpc[v] = "live" /\ vmmAvailable(driver)
  /\ pinned = {r \in Linkers \cup Registrations : rpc[r] # "none"}
  /\ lent = {r \in Linkers \cup Registrations : rpc[r] = "live"}

\* The inductive invariant.
FInv == SInv /\ ResourcesExact

----------------------------------------------------------------------------
(* The tables.                                                             *)

\* Every core wrapper of cudaresult has its entry point among the required
\* ones of cudasys: the two tables agree.
LEMMA CoreRequired == CoreCalls \subseteq requiredSymbols
<1> USE DEF Wrappers
<1>1. init.core \subseteq requiredSymbols BY DEF init, requiredSymbols
<1>2. version.core \subseteq requiredSymbols BY DEF version, requiredSymbols
<1>3. context.core \subseteq requiredSymbols BY DEF context, requiredSymbols
<1>4. device.core \subseteq requiredSymbols BY DEF device, requiredSymbols
<1>5. memory.core \subseteq requiredSymbols BY DEF memory, requiredSymbols
<1>6. module.core \subseteq requiredSymbols BY DEF module, requiredSymbols
<1>7. stream.core \subseteq requiredSymbols BY DEF stream, requiredSymbols
<1>8. launch.core \subseteq requiredSymbols BY DEF launch, requiredSymbols
<1>9. \A f \in {function, graph, ipc, link, managed, mempool, occupancy, peer,
                pitch, surface, texture, vmm} : f.core = {}
  BY DEF function, graph, ipc, link, managed, mempool, occupancy, peer, pitch,
         surface, texture, vmm
<1> QED BY <1>1, <1>2, <1>3, <1>4, <1>5, <1>6, <1>7, <1>8, <1>9
        DEF CoreCalls, cudaresult

\* Every feature wrapper has its entry point in one of the tables.
LEMMA FeatureKnown ==
  FeatureCalls \subseteq requiredSymbols \cup optionalSymbols \cup bindByValueIPC
<1> USE DEF Wrappers
<1> DEFINE Known == requiredSymbols \cup optionalSymbols \cup bindByValueIPC
<1>1. device.feature \subseteq Known BY DEF device, optionalSymbols
<1>2. memory.feature \subseteq Known BY DEF memory, optionalSymbols
<1>3. launch.feature \subseteq Known BY DEF launch, optionalSymbols
<1>4. function.feature \subseteq Known BY DEF function, optionalSymbols
<1>5. graph.feature \subseteq Known BY DEF graph, optionalSymbols
<1>6. ipc.feature \subseteq Known BY DEF ipc, optionalSymbols, bindByValueIPC
<1>7. link.feature \subseteq Known BY DEF link, optionalSymbols
<1>8. managed.feature \subseteq Known BY DEF managed, optionalSymbols
<1>9. mempool.feature \subseteq Known BY DEF mempool, optionalSymbols
<1>10. occupancy.feature \subseteq Known BY DEF occupancy, optionalSymbols
<1>11. peer.feature \subseteq Known BY DEF peer, optionalSymbols
<1>12. pitch.feature \subseteq Known BY DEF pitch, optionalSymbols
<1>13. surface.feature \subseteq Known BY DEF surface, optionalSymbols
<1>14. texture.feature \subseteq Known BY DEF texture, optionalSymbols
<1>15. vmm.feature \subseteq Known BY DEF vmm, optionalSymbols
<1>16. \A f \in {init, version, context, module, stream} : f.feature = {}
  BY DEF init, version, context, module, stream
<1> HIDE DEF Known
<1>17. FeatureCalls \subseteq Known
  BY <1>1, <1>2, <1>3, <1>4, <1>5, <1>6, <1>7, <1>8, <1>9, <1>10, <1>11,
     <1>12, <1>13, <1>14, <1>15, <1>16
     DEF FeatureCalls, cudaresult
<1> QED BY <1>17 DEF Known

\* A wrapper whose entry point is bound calls the driver.
LEMMA BoundCalls == \A b, s : s \in b => Answer(b, s) = "call"
  BY DEF Answer

----------------------------------------------------------------------------
(* Facts the steps share.                                                  *)

\* There are finitely many owners of a retain.
LEMMA OwnersFinite == IsFiniteSet(Owners) /\ Cardinality(Owners) \in Nat
<1>1. Owners \subseteq Goroutines BY DEF Owners
<1>2. IsFiniteSet(Goroutines) BY StartupAssumption
<1>3. IsFiniteSet(Owners) BY <1>1, <1>2, FS_Subset
<1> QED BY <1>3, FS_CardinalityType

\* One more owner is one more retain.
LEMMA OwnerJoins ==
  ASSUME RetainsOwned, leaked \in Nat, NEW g, g \notin Owners,
         Owners' = Owners \cup {g}, retains' = retains + 1, leaked' = leaked
  PROVE  RetainsOwned'
<1>1. Cardinality(Owners \cup {g}) = Cardinality(Owners) + 1
  BY OwnersFinite, FS_AddElement
<1> QED BY <1>1, OwnersFinite DEF RetainsOwned

\* An owner that goes either gives its retain back or leaks it.
LEMMA OwnerLeaves ==
  ASSUME RetainsOwned, leaked \in Nat, NEW g \in Owners,
         Owners' = Owners \ {g},
         \/ retains' = retains - 1 /\ leaked' = leaked
         \/ retains' = retains /\ leaked' = leaked + 1
  PROVE  RetainsOwned' /\ retains' \in Nat /\ leaked' \in Nat
<1>1. Cardinality(Owners \ {g}) = Cardinality(Owners) - 1
  BY OwnersFinite, FS_RemoveElement
<1>2. Cardinality(Owners \ {g}) \in Nat
  BY OwnersFinite, FS_RemoveElement, FS_CardinalityType
<1> QED BY <1>1, <1>2, OwnersFinite DEF RetainsOwned

\* With the same owners the account stays as it is.
LEMMA OwnersStay ==
  ASSUME RetainsOwned, Owners' = Owners, retains' = retains, leaked' = leaked
  PROVE  RetainsOwned'
  BY DEF RetainsOwned

\* What no step of start-up does to the resources: it only adds a driver, and
\* leaves the installed one alone.
LEMMA ResourcesStay ==
  ASSUME ResourcesExact, UNCHANGED rvars,
         driver # 0 => driver' = driver /\ bound'[driver] = bound[driver]
  PROVE  ResourcesExact'
<1> USE DEF rvars
<1>1. ResourceTypes' BY DEF ResourcesExact, ResourceTypes
<1>2. \A r \in Resources : rpc'[r] # "none" => via'[r] = driver' /\ driver' # 0
  BY DEF ResourcesExact
<1>3. \A l \in Linkers : rpc'[l] # "none" => LinkGroup \subseteq bound'[driver']
  BY DEF ResourcesExact, Resources
<1>4. \A v \in Virtuals : rpc'[v] # "none" => rpc'[v] = "live" /\ vmmAvailable(driver)'
  <2> SUFFICES ASSUME NEW v \in Virtuals, rpc[v] # "none"
               PROVE  rpc[v] = "live" /\ vmmAvailable(driver)'
    OBVIOUS
  <2>1. driver # 0 /\ rpc[v] = "live" /\ vmmAvailable(driver)
    BY DEF ResourcesExact, Resources
  <2> QED BY <2>1 DEF vmmAvailable
<1>5. /\ pinned' = {r \in Linkers \cup Registrations : rpc'[r] # "none"}
      /\ lent' = {r \in Linkers \cup Registrations : rpc'[r] = "live"}
  BY DEF ResourcesExact
<1> QED BY <1>1, <1>2, <1>3, <1>4, <1>5 DEF ResourcesExact

\* The initial state.
LEMMA InitInv == FInit => FInv
<1> SUFFICES ASSUME FInit PROVE FInv
  OBVIOUS
<1> USE DEF FInit, Init
<1>1. TypeOK BY StartupAssumption DEF TypeOK, Libs
<1>2. LibrariesOwned BY DEF LibrariesOwned
<1>3. RetainsOwned
  <2>1. Owners = {} BY DEF Owners
  <2> QED BY <2>1, FS_EmptySet DEF RetainsOwned
<1>4. ThreadsOwned BY DEF ThreadsOwned, PrimarySteps
<1>5. InitAlone /\ HandsExact /\ DriverComplete
  BY DEF InitAlone, HandsExact, DriverComplete, InitSteps, PrimarySteps
<1>6. ResourcesExact
  <2>1. Linkers \cup Registrations \subseteq Resources BY DEF Resources
  <2> QED BY <2>1, StartupAssumption DEF ResourcesExact, ResourceTypes, Resources
<1> QED BY <1>1, <1>2, <1>3, <1>4, <1>5, <1>6 DEF FInv, SInv, NothingLeaks

----------------------------------------------------------------------------
(* Init.  While it is at work there is no driver, so nobody else has a     *)
(* library, a context or a resource.                                       *)

\* Who is in Init has the lock, is the only one there, and no driver is
\* installed.
LEMMA Alone ==
  ASSUME SInv, NEW g \in Goroutines, pc[g] \in InitSteps
  PROVE  /\ mu = g /\ driver = 0
         /\ \A k \in Goroutines : k # g => pc[k] = "idle" /\ hand[k] = 0
         /\ \A k \in Goroutines : ctx[k] = 0
<1>1. mu = g /\ driver = 0 BY StartupAssumption DEF SInv, InitAlone
<1>2. ASSUME NEW k \in Goroutines, k # g PROVE pc[k] = "idle" /\ hand[k] = 0
  <2>1. pc[k] \notin InitSteps BY <1>1, <1>2 DEF SInv, InitAlone
  <2>2. pc[k] \notin PrimarySteps BY <1>1 DEF SInv, HandsExact
  <2>3. pc[k] = "idle" BY <2>1, <2>2 DEF SInv, NothingLeaks, TypeOK
  <2> QED BY <2>3 DEF SInv, HandsExact
<1> QED BY <1>1, <1>2 DEF SInv, HandsExact

\* Init takes the lock.
LEMMA InitBeginStep == ASSUME SInv, NEW g \in Goroutines, InitBegin(g) PROVE SInv'
<1> USE DEF SInv, NothingLeaks, InitBegin, Goto, ctxVars
<1>1. TypeOK' BY StartupAssumption DEF TypeOK, InitSteps, Libs
<1>2. LibrariesOwned' BY DEF LibrariesOwned, TypeOK, InitSteps
<1>3. RetainsOwned'
  <2>1. Owners' = Owners BY DEF Owners, TypeOK
  <2> QED BY <2>1, OwnersStay
<1>4. ThreadsOwned' BY DEF ThreadsOwned, TypeOK, PrimarySteps
<1>5. InitAlone' BY StartupAssumption DEF InitAlone, InitSteps, TypeOK
<1>6. HandsExact' BY DEF HandsExact, TypeOK, PrimarySteps
<1>7. DriverComplete' BY DEF DriverComplete
<1> QED BY <1>1, <1>2, <1>3, <1>4, <1>5, <1>6, <1>7

\* A library opens and is in the hands of this Init.
LEMMA OpenSucceedsStep == ASSUME SInv, NEW g \in Goroutines, OpenSucceeds(g) PROVE SInv'
<1> USE DEF SInv, NothingLeaks, OpenSucceeds, Goto, ctxVars
<1>0. PICK h \in Libs, e \in Exports :
        /\ Fresh(h)
        /\ lib' = [lib EXCEPT ![h] = "open"]
        /\ exports' = [exports EXCEPT ![h] = e]
        /\ hand' = [hand EXCEPT ![g] = h]
  OBVIOUS
<1> HIDE DEF OpenSucceeds
<1>a. /\ pc[g] = "open" /\ pc' = [pc EXCEPT ![g] = "required"]
      /\ UNCHANGED <<mu, driver, bound, inited, path, dev, thread, ctx, retains, leaked>>
  BY DEF OpenSucceeds
<1>b. driver = 0 BY <1>a, Alone DEF InitSteps
<1>1. TypeOK' BY <1>0, <1>a, StartupAssumption DEF TypeOK, InitSteps, Libs
<1>2. LibrariesOwned'
  <2> SUFFICES ASSUME NEW k \in Libs, lib'[k] = "open"
               PROVE  \E j \in Goroutines : pc'[j] \in InitSteps /\ hand'[j] = k
    BY DEF LibrariesOwned, Libs
  <2>1. CASE k = h BY <1>0, <1>a, <2>1 DEF TypeOK, InitSteps
  <2>2. CASE k # h
    <3>1. lib[k] = "open" /\ k # 0 BY <1>0, <2>2 DEF TypeOK, Libs
    <3>2. PICK j \in Goroutines : pc[j] \in InitSteps /\ hand[j] = k
      BY <1>b, <3>1 DEF LibrariesOwned
    <3>3. j = g BY <1>a, <3>2, Alone DEF InitSteps
    <3>4. hand[g] = 0 BY <1>a DEF HandsExact
    <3> QED BY <3>1, <3>2, <3>3, <3>4
  <2> QED BY <2>1, <2>2
<1>3. RetainsOwned'
  <2>1. Owners' = Owners BY <1>a DEF Owners, TypeOK
  <2> QED BY <1>a, <2>1, OwnersStay
<1>4. ThreadsOwned' BY <1>a DEF ThreadsOwned, TypeOK, PrimarySteps
<1>5. InitAlone' BY <1>a DEF InitAlone, InitSteps, TypeOK
<1>6. HandsExact'
  <2> SUFFICES ASSUME NEW k \in Goroutines
               PROVE  /\ pc'[k] \in {"idle", "open"} => hand'[k] = 0
                      /\ pc'[k] \in {"required", "optional", "cuInit"} =>
                           /\ hand'[k] \in Libs /\ lib'[hand'[k]] = "open"
                           /\ pc'[k] = "required"
                      /\ pc'[k] \notin PrimarySteps /\ ctx'[k] = 0
    BY DEF HandsExact, Libs
  <2>1. CASE k = g BY <1>0, <1>a, <2>1, Alone DEF TypeOK, InitSteps, PrimarySteps
  <2>2. CASE k # g BY <1>0, <1>a, <2>2, Alone DEF TypeOK, InitSteps, PrimarySteps
  <2> QED BY <2>1, <2>2
<1>7. DriverComplete' BY <1>a, <1>b DEF DriverComplete
<1> QED BY <1>1, <1>2, <1>3, <1>4, <1>5, <1>6, <1>7

\* Init gives up holding nothing: what all its failures have in common.
LEMMA GivesUp ==
  ASSUME SInv, NEW g \in Goroutines, pc[g] \in InitSteps, Leave(g), hand'[g] = 0,
         TypeOK', \A k \in Goroutines : k # g => hand'[k] = hand[k],
         \A k \in Libs : lib'[k] = "open" => lib[k] = "open" /\ k # hand[g],
         UNCHANGED <<driver, inited, ctxVars>>
  PROVE  SInv'
<1> USE DEF SInv, NothingLeaks, Leave, Goto, ctxVars
<1>1. driver = 0 /\ driver' = 0 BY Alone
<1>2. \A k \in Goroutines : pc'[k] = "idle" /\ hand'[k] = 0 /\ ctx'[k] = 0
  BY Alone DEF TypeOK
<1>3. LibrariesOwned'
  <2> SUFFICES ASSUME NEW k \in Libs, lib[k] = "open", k # hand[g] PROVE FALSE
    BY DEF LibrariesOwned, Libs
  <2>1. k # 0 BY DEF Libs
  <2>2. PICK j \in Goroutines : pc[j] \in InitSteps /\ hand[j] = k
    BY <1>1, <2>1 DEF LibrariesOwned
  <2> QED BY <2>2, Alone DEF InitSteps
<1>4. RetainsOwned'
  <2>1. Owners' = Owners BY DEF Owners, TypeOK, InitSteps
  <2> QED BY <2>1, OwnersStay
<1>5. ThreadsOwned' BY DEF ThreadsOwned, TypeOK, InitSteps, PrimarySteps
<1>6. InitAlone' BY <1>2 DEF InitAlone, InitSteps
<1>7. HandsExact' BY <1>2 DEF HandsExact, PrimarySteps
<1>8. DriverComplete' BY <1>1 DEF DriverComplete
<1> QED BY <1>3, <1>4, <1>5, <1>6, <1>7, <1>8

\* A path does not open: the next one, or the end.
LEMMA OpenFailsStep == ASSUME SInv, NEW g \in Goroutines, OpenFails(g) PROVE SInv'
<1> USE DEF SInv, NothingLeaks, ctxVars
<1>1. CASE path < Paths
  <2>1. path' = path + 1
        /\ UNCHANGED <<mu, pc, driver, lib, exports, bound, inited, hand, ctxVars>>
    BY <1>1 DEF OpenFails
  <2>2. TypeOK' BY <1>1, <2>1, StartupAssumption DEF TypeOK, Libs
  <2>3. RetainsOwned'
    <3>1. Owners' = Owners BY <2>1 DEF Owners
    <3> QED BY <2>1, <3>1, OwnersStay
  <2>4. InitAlone' BY <2>1 DEF InitAlone, TypeOK
  <2> QED BY <2>1, <2>2, <2>3, <2>4
          DEF LibrariesOwned, ThreadsOwned, HandsExact, DriverComplete, Libs
<1>2. CASE ~(path < Paths)
  <2>1. Leave(g) /\ pc[g] = "open"
        /\ UNCHANGED <<driver, lib, exports, bound, inited, hand, ctxVars>>
    BY <1>2 DEF OpenFails
  <2>2. TypeOK' BY <2>1, StartupAssumption DEF TypeOK, Libs, Leave, Goto
  <2>3. hand[g] = 0 BY <2>1 DEF HandsExact
  <2>4. \A k \in Libs : k # 0 BY DEF Libs
  <2> QED BY <2>1, <2>2, <2>3, <2>4, GivesUp DEF InitSteps
<1> QED BY <1>1, <1>2

\* The library in hand is closed and forgotten.
LEMMA ClosesLibrary ==
  ASSUME SInv, NEW g \in Goroutines, pc[g] \in {"required", "optional", "cuInit"},
         Leave(g), CloseLibrary(g), UNCHANGED <<driver, inited, ctxVars>>
  PROVE  SInv'
<1>1. PICK r \in {"closed", "stuck"} :
        /\ lib' = [lib EXCEPT ![hand[g]] = r]
        /\ exports' = [exports EXCEPT ![hand[g]] = {}]
        /\ bound' = [bound EXCEPT ![hand[g]] = {}]
        /\ hand' = [hand EXCEPT ![g] = 0]
  BY DEF CloseLibrary
<1>2. TypeOK
  BY DEF SInv, NothingLeaks
<1>3. TypeOK'
  <2>1. lib' \in [Libs -> {"unopened", "open", "closed", "stuck"}]
    BY <1>1, <1>2 DEF TypeOK
  <2>2. exports' \in [Libs -> SUBSET Symbols] /\ bound' \in [Libs -> SUBSET Symbols]
    BY <1>1, <1>2 DEF TypeOK
  <2>3. hand' \in [Goroutines -> 0 .. MaxOpens]
    BY <1>1, <1>2, StartupAssumption DEF TypeOK
  <2>4. mu' = Nobody /\ path' \in 0 .. Paths /\ pc' = [pc EXCEPT ![g] = "idle"]
    BY StartupAssumption DEF Leave, Goto
  <2> QED BY <1>2, <2>1, <2>2, <2>3, <2>4 DEF TypeOK, ctxVars, Libs
<1>4. \A k \in Libs : lib'[k] = "open" => lib[k] = "open" /\ k # hand[g]
  BY <1>1, <1>2 DEF TypeOK
<1>5. hand'[g] = 0 /\ \A k \in Goroutines : k # g => hand'[k] = hand[k]
  BY <1>1, <1>2 DEF TypeOK
<1> QED BY <1>3, <1>4, <1>5, GivesUp DEF InitSteps

\* Init goes on to its next step with the library it has.
LEMMA InitGoesOn ==
  ASSUME SInv, NEW g \in Goroutines, pc[g] \in {"required", "optional"},
         NEW p \in {"optional", "cuInit"}, Goto(g, p),
         NEW b \in SUBSET Symbols, bound' = [bound EXCEPT ![hand[g]] = b],
         requiredSymbols \subseteq b,
         p = "cuInit" => optionalSymbols \cap exports[hand[g]] \subseteq b,
         UNCHANGED <<mu, driver, lib, exports, inited, path, hand, ctxVars>>
  PROVE  SInv'
<1> USE DEF SInv, NothingLeaks, Goto, ctxVars
<1>1. driver = 0 BY Alone DEF InitSteps
<1>2. hand[g] \in Libs /\ lib[hand[g]] = "open" BY DEF HandsExact
<1>3. TypeOK' BY StartupAssumption DEF TypeOK, Libs, InitSteps
<1>4. LibrariesOwned' BY DEF LibrariesOwned, TypeOK, Libs, InitSteps
<1>5. RetainsOwned'
  <2>1. Owners' = Owners BY DEF Owners, TypeOK
  <2> QED BY <2>1, OwnersStay
<1>6. ThreadsOwned' BY DEF ThreadsOwned, TypeOK, PrimarySteps
<1>7. InitAlone' BY DEF InitAlone, InitSteps, TypeOK
<1>8. HandsExact'
  <2> SUFFICES ASSUME NEW k \in Goroutines
               PROVE  /\ pc'[k] \in {"idle", "open"} => hand[k] = 0
                      /\ pc'[k] \in {"required", "optional", "cuInit"} =>
                           /\ hand[k] \in Libs /\ lib[hand[k]] = "open"
                           /\ requiredSymbols \subseteq bound'[hand[k]]
                           /\ pc'[k] = "cuInit" =>
                                optionalSymbols \cap exports[hand[k]]
                                  \subseteq bound'[hand[k]]
                      /\ pc'[k] \notin PrimarySteps /\ ctx[k] = 0
    BY DEF HandsExact, Libs
  <2>1. CASE k = g BY <1>2, <2>1, Alone DEF TypeOK, InitSteps, PrimarySteps
  <2>2. CASE k # g BY <2>2, Alone DEF TypeOK, InitSteps, PrimarySteps
  <2> QED BY <2>1, <2>2
<1>9. DriverComplete' BY <1>1 DEF DriverComplete
<1> QED BY <1>3, <1>4, <1>5, <1>6, <1>7, <1>8, <1>9

\* Load binds the required entry points, all of them or none.
LEMMA LookupRequiredStep ==
  ASSUME SInv, NEW g \in Goroutines, LookupRequired(g) PROVE SInv'
<1>1. CASE requiredSymbols \subseteq exports[hand[g]]
  <2>1. /\ pc[g] = "required" /\ Goto(g, "optional")
        /\ bound' = [bound EXCEPT ![hand[g]] = requiredSymbols]
        /\ UNCHANGED <<mu, driver, lib, exports, inited, path, hand, ctxVars>>
    BY <1>1 DEF LookupRequired
  <2>2. requiredSymbols \in SUBSET Symbols BY DEF Symbols
  <2> QED BY <2>1, <2>2, InitGoesOn
<1>2. CASE ~(requiredSymbols \subseteq exports[hand[g]])
  <2>1. /\ pc[g] = "required" /\ Leave(g) /\ CloseLibrary(g)
        /\ UNCHANGED <<driver, inited, ctxVars>>
    BY <1>2 DEF LookupRequired
  <2> QED BY <2>1, ClosesLibrary
<1> QED BY <1>1, <1>2

\* Load then adds the optional ones that exist.
LEMMA LookupOptionalStep ==
  ASSUME SInv, NEW g \in Goroutines, LookupOptional(g) PROVE SInv'
<1>1. PICK reg \in {bindByValueIPC, {}} :
        bound' = [bound EXCEPT ![hand[g]] =
                    @ \cup ((optionalSymbols \cup reg) \cap exports[hand[g]])]
  BY DEF LookupOptional
<1>2. /\ pc[g] = "optional" /\ Goto(g, "cuInit")
      /\ UNCHANGED <<mu, driver, lib, exports, inited, path, hand, ctxVars>>
  BY DEF LookupOptional
<1>3. PICK b : b = bound[hand[g]] \cup ((optionalSymbols \cup reg) \cap exports[hand[g]])
  OBVIOUS
<1>4. hand[g] \in Libs /\ requiredSymbols \subseteq bound[hand[g]]
  BY <1>2 DEF SInv, HandsExact
<1>5. bound[hand[g]] \subseteq Symbols BY <1>4 DEF SInv, NothingLeaks, TypeOK
<1>6. b \in SUBSET Symbols BY <1>1, <1>3, <1>5 DEF Symbols
<1>7. bound' = [bound EXCEPT ![hand[g]] = b] BY <1>1, <1>3
<1> QED BY <1>2, <1>3, <1>4, <1>6, <1>7, InitGoesOn

\* cuInit succeeds and the driver is installed, or the library is closed.
LEMMA CuInitStep == ASSUME SInv, NEW g \in Goroutines, CuInit(g) PROVE SInv'
<1>0. pc[g] = "cuInit" /\ Leave(g) /\ UNCHANGED ctxVars BY DEF CuInit
<1>1. CASE CloseLibrary(g) /\ UNCHANGED <<driver, inited>>
  BY <1>0, <1>1, ClosesLibrary
<1>2. CASE /\ driver' = hand[g] /\ inited' = inited \cup {hand[g]}
           /\ hand' = [hand EXCEPT ![g] = 0]
           /\ UNCHANGED <<lib, exports, bound>>
  <2> USE <1>0, <1>2 DEF SInv, NothingLeaks, Leave, Goto, ctxVars
  <2>1. /\ hand[g] \in Libs /\ lib[hand[g]] = "open"
        /\ requiredSymbols \subseteq bound[hand[g]]
        /\ optionalSymbols \cap exports[hand[g]] \subseteq bound[hand[g]]
    BY DEF HandsExact
  <2>2. driver' # 0 BY <2>1 DEF Libs
  <2>3. \A k \in Goroutines : pc'[k] = "idle" /\ hand'[k] = 0 /\ ctx'[k] = 0
    BY Alone DEF TypeOK, InitSteps
  <2>4. TypeOK'
    <3>1. hand' \in [Goroutines -> 0 .. MaxOpens] BY StartupAssumption DEF TypeOK
    <3>2. inited' \subseteq Libs /\ driver' \in 0 .. MaxOpens
      BY <2>1, StartupAssumption DEF TypeOK
    <3>3. mu' = Nobody /\ path' \in 0 .. Paths BY StartupAssumption
    <3> QED BY <3>1, <3>2, <3>3 DEF TypeOK, Libs
  <2>5. LibrariesOwned'
    <3> SUFFICES ASSUME NEW k \in Libs, lib[k] = "open" PROVE k = hand[g]
      BY DEF LibrariesOwned, Libs
    <3>1. k # driver BY Alone DEF Libs, InitSteps
    <3>2. PICK j \in Goroutines : pc[j] \in InitSteps /\ hand[j] = k
      BY <3>1 DEF LibrariesOwned
    <3> QED BY <3>2, Alone DEF InitSteps
  <2>6. RetainsOwned'
    <3>1. Owners' = Owners BY DEF Owners, TypeOK
    <3> QED BY <3>1, OwnersStay
  <2>7. ThreadsOwned' BY DEF ThreadsOwned, TypeOK, PrimarySteps
  <2>8. InitAlone' BY <2>3 DEF InitAlone, InitSteps
  <2>9. HandsExact' BY <2>3 DEF HandsExact, PrimarySteps
  <2>10. DriverComplete' BY <2>1 DEF DriverComplete
  <2> QED BY <2>4, <2>5, <2>6, <2>7, <2>8, <2>9, <2>10
<1> QED BY <1>1, <1>2 DEF CuInit

----------------------------------------------------------------------------
(* GetDevice, Primary and Close: nothing here touches a library.           *)

\* A device in hand changes nothing else.
LEMMA GetDeviceStep == ASSUME SInv, NEW g \in Goroutines, GetDevice(g) PROVE SInv'
<1> USE DEF SInv, NothingLeaks, GetDevice, libVars
<1>1. TypeOK' BY DEF TypeOK, Libs
<1>2. RetainsOwned'
  <2>1. Owners' = Owners BY DEF Owners
  <2> QED BY <2>1, OwnersStay
<1> QED BY <1>1, <1>2 DEF LibrariesOwned, ThreadsOwned, InitAlone, HandsExact,
                          DriverComplete, Libs

\* A step of g outside Init moves between Primary and rest.
LEMMA OutsideInit ==
  ASSUME SInv, NEW g \in Goroutines, pc[g] \notin InitSteps,
         NEW p \in {"idle"} \cup PrimarySteps, Goto(g, p),
         \A k \in Goroutines : k # g => hand'[k] = hand[k] /\ ctx'[k] = ctx[k],
         \/ p = "idle" /\ hand'[g] = 0
         \/ p # "idle" /\ hand'[g] = driver /\ driver # 0 /\ ctx'[g] = 0,
         ctx'[g] \in {0, driver},
         UNCHANGED libVars
  PROVE  LibrariesOwned' /\ InitAlone' /\ HandsExact' /\ DriverComplete'
<1> USE DEF SInv, NothingLeaks, Goto, libVars
<1>1. LibrariesOwned'
  <2> SUFFICES ASSUME NEW h \in Libs, lib[h] = "open", h # driver
               PROVE  \E j \in Goroutines : pc'[j] \in InitSteps /\ hand'[j] = h
    BY DEF LibrariesOwned, Libs
  <2>1. PICK j \in Goroutines : pc[j] \in InitSteps /\ hand[j] = h
    BY DEF LibrariesOwned
  <2>2. j # g BY <2>1
  <2> QED BY <2>1, <2>2 DEF TypeOK
<1>2. InitAlone'
  BY StartupAssumption DEF InitAlone, TypeOK, InitSteps, PrimarySteps
<1>3. HandsExact'
  <2> SUFFICES ASSUME NEW k \in Goroutines
               PROVE  /\ pc'[k] \in {"idle", "open"} => hand'[k] = 0
                      /\ pc'[k] \in {"required", "optional", "cuInit"} =>
                           /\ hand'[k] \in Libs /\ lib[hand'[k]] = "open"
                           /\ pc'[k] # "required" => requiredSymbols \subseteq bound[hand'[k]]
                           /\ pc'[k] = "cuInit" =>
                                optionalSymbols \cap exports[hand'[k]] \subseteq bound[hand'[k]]
                      /\ pc'[k] \in PrimarySteps => hand'[k] = driver /\ driver # 0
                      /\ ctx'[k] # 0 => ctx'[k] = driver
                      /\ pc'[k] \in PrimarySteps => ctx'[k] = 0
    BY DEF HandsExact, Libs
  <2>1. CASE k = g BY <2>1 DEF TypeOK, PrimarySteps
  <2>2. CASE k # g BY <2>2 DEF TypeOK, HandsExact
  <2> QED BY <2>1, <2>2
<1>4. DriverComplete' BY DEF DriverComplete
<1> QED BY <1>1, <1>2, <1>3, <1>4

\* Primary starts an executor for the installed driver.
LEMMA PrimaryBeginStep == ASSUME SInv, NEW g \in Goroutines, PrimaryBegin(g) PROVE SInv'
<1> USE DEF SInv, NothingLeaks, PrimaryBegin
<1>1. /\ UNCHANGED <<libVars, dev, ctx, retains, leaked>>
      /\ pc' = [pc EXCEPT ![g] = "retain"] /\ pc[g] = "idle"
      /\ hand' = [hand EXCEPT ![g] = driver]
      /\ thread' = [thread EXCEPT ![g] = "pinned"]
      /\ driver # 0 /\ ctx[g] = 0
  BY DEF Goto
<1>2. LibrariesOwned' /\ InitAlone' /\ HandsExact' /\ DriverComplete'
  BY <1>1, OutsideInit DEF InitSteps, PrimarySteps, TypeOK, Goto
<1>3. TypeOK' BY <1>1 DEF TypeOK, libVars, PrimarySteps, Libs
<1>4. RetainsOwned'
  <2>1. Owners' = Owners BY <1>1 DEF Owners, TypeOK
  <2> QED BY <1>1, <2>1, OwnersStay
<1>5. ThreadsOwned' BY <1>1 DEF ThreadsOwned, TypeOK, PrimarySteps
<1> QED BY <1>2, <1>3, <1>4, <1>5

\* The retain makes its goroutine an owner.
LEMMA RetainStep == ASSUME SInv, NEW g \in Goroutines, Retain(g) PROVE SInv'
<1> USE DEF SInv, NothingLeaks
<1>1. pc[g] = "retain" /\ UNCHANGED <<libVars, hand, dev, thread, ctx, leaked>>
  BY DEF Retain
<1>2. hand[g] = driver /\ driver # 0 /\ ctx[g] = 0
  BY <1>1 DEF HandsExact, PrimarySteps
<1>3. PICK p \in {"setCurrent", "closeExec"} :
        /\ pc' = [pc EXCEPT ![g] = p]
        /\ retains' = IF p = "setCurrent" THEN retains + 1 ELSE retains
  BY DEF Retain, Goto
<1>4. LibrariesOwned' /\ InitAlone' /\ HandsExact' /\ DriverComplete'
  BY <1>1, <1>2, <1>3, OutsideInit DEF InitSteps, PrimarySteps, Goto
<1>5. TypeOK' BY <1>1, <1>3 DEF TypeOK, libVars, PrimarySteps, Libs
<1>6. RetainsOwned'
  <2>1. g \notin Owners BY <1>1, <1>2 DEF Owners
  <2>2. CASE p = "setCurrent"
    <3>1. Owners' = Owners \cup {g} BY <1>1, <1>3, <2>2 DEF Owners, TypeOK
    <3>2. retains' = retains + 1 /\ leaked' = leaked /\ leaked \in Nat
      BY <1>1, <1>3, <2>2 DEF TypeOK
    <3> QED BY <2>1, <3>1, <3>2, OwnerJoins
  <2>3. CASE p = "closeExec"
    <3>1. Owners' = Owners BY <1>1, <1>3, <2>3 DEF Owners, TypeOK
    <3> QED BY <1>1, <1>3, <2>3, <3>1, OwnersStay
  <2> QED BY <1>3, <2>2, <2>3
<1>7. ThreadsOwned' BY <1>1, <1>3 DEF ThreadsOwned, TypeOK, PrimarySteps
<1> QED BY <1>4, <1>5, <1>6, <1>7

\* The Context takes the retain over from Primary.
LEMMA SetCurrentStep == ASSUME SInv, NEW g \in Goroutines, SetCurrent(g) PROVE SInv'
<1> USE DEF SInv, NothingLeaks
<1>1. pc[g] = "setCurrent" /\ UNCHANGED <<libVars, dev, retains, leaked>>
  BY DEF SetCurrent
<1>2. hand[g] = driver /\ driver # 0 /\ ctx[g] = 0
  BY <1>1 DEF HandsExact, PrimarySteps
<1>3. CASE /\ thread' = [thread EXCEPT ![g] = "current"]
           /\ ctx' = [ctx EXCEPT ![g] = hand[g]]
           /\ hand' = [hand EXCEPT ![g] = 0]
           /\ Goto(g, "idle")
  <2>0. pc' = [pc EXCEPT ![g] = "idle"] BY <1>3 DEF Goto
  <2>1. LibrariesOwned' /\ InitAlone' /\ HandsExact' /\ DriverComplete'
    BY <1>1, <1>2, <1>3, OutsideInit DEF InitSteps, PrimarySteps, TypeOK
  <2>2. TypeOK'
    BY <1>1, <1>2, <1>3, <2>0, StartupAssumption DEF TypeOK, libVars, Libs
  <2>3. RetainsOwned'
    <3>1. Owners' = Owners BY <1>1, <1>2, <1>3, <2>0 DEF Owners, TypeOK
    <3> QED BY <1>1, <3>1, OwnersStay
  <2>4. ThreadsOwned' BY <1>1, <1>2, <1>3, <2>0 DEF ThreadsOwned, TypeOK, PrimarySteps
  <2> QED BY <2>1, <2>2, <2>3, <2>4
<1>4. CASE Goto(g, "release") /\ UNCHANGED <<thread, ctx, hand>>
  <2>0. pc' = [pc EXCEPT ![g] = "release"] BY <1>4 DEF Goto
  <2>1. LibrariesOwned' /\ InitAlone' /\ HandsExact' /\ DriverComplete'
    BY <1>1, <1>2, <1>4, OutsideInit DEF InitSteps, PrimarySteps
  <2>2. TypeOK' BY <1>1, <1>4, <2>0 DEF TypeOK, libVars, PrimarySteps, Libs
  <2>3. RetainsOwned'
    <3>1. Owners' = Owners BY <1>1, <1>4, <2>0 DEF Owners, TypeOK
    <3> QED BY <1>1, <3>1, OwnersStay
  <2>4. ThreadsOwned' BY <1>1, <1>4, <2>0 DEF ThreadsOwned, TypeOK, PrimarySteps
  <2> QED BY <2>1, <2>2, <2>3, <2>4
<1> QED BY <1>3, <1>4 DEF SetCurrent

\* The retain is given back, or leaked and counted.
LEMMA ReleaseStep == ASSUME SInv, NEW g \in Goroutines, Release(g) PROVE SInv'
<1> USE DEF SInv, NothingLeaks
<1>1. /\ pc[g] = "release" /\ UNCHANGED <<libVars, hand, dev, thread, ctx>>
      /\ pc' = [pc EXCEPT ![g] = "closeExec"]
      /\ \/ retains' = retains - 1 /\ leaked' = leaked
         \/ retains' = retains /\ leaked' = leaked + 1
  BY DEF Release, Goto
<1>2. hand[g] = driver /\ driver # 0 /\ ctx[g] = 0
  BY <1>1 DEF HandsExact, PrimarySteps
<1>3. LibrariesOwned' /\ InitAlone' /\ HandsExact' /\ DriverComplete'
  BY <1>1, <1>2, OutsideInit DEF InitSteps, PrimarySteps, Goto
<1>4. RetainsOwned' /\ retains' \in Nat /\ leaked' \in Nat
  <2>1. g \in Owners BY <1>1 DEF Owners
  <2>2. Owners' = Owners \ {g} BY <1>1, <1>2 DEF Owners, TypeOK
  <2>3. leaked \in Nat BY DEF TypeOK
  <2> QED BY <1>1, <2>1, <2>2, <2>3, OwnerLeaves
<1>5. TypeOK' BY <1>1, <1>4 DEF TypeOK, libVars, PrimarySteps, Libs
<1>6. ThreadsOwned' BY <1>1 DEF ThreadsOwned, TypeOK, PrimarySteps
<1> QED BY <1>3, <1>4, <1>5, <1>6

\* The executor of a failed Primary is closed.
LEMMA CloseExecStep == ASSUME SInv, NEW g \in Goroutines, CloseExec(g) PROVE SInv'
<1> USE DEF SInv, NothingLeaks
<1>1. /\ pc[g] = "closeExec" /\ UNCHANGED <<libVars, dev, ctx, retains, leaked>>
      /\ pc' = [pc EXCEPT ![g] = "idle"]
      /\ thread' = [thread EXCEPT ![g] = "none"]
      /\ hand' = [hand EXCEPT ![g] = 0]
  BY DEF CloseExec, Goto
<1>2. ctx[g] = 0 BY <1>1 DEF HandsExact, PrimarySteps
<1>3. LibrariesOwned' /\ InitAlone' /\ HandsExact' /\ DriverComplete'
  BY <1>1, <1>2, OutsideInit DEF InitSteps, PrimarySteps, Goto, TypeOK
<1>4. TypeOK' BY <1>1, StartupAssumption DEF TypeOK, libVars, Libs
<1>5. RetainsOwned'
  <2>1. Owners' = Owners BY <1>1, <1>2 DEF Owners, TypeOK
  <2> QED BY <1>1, <2>1, OwnersStay
<1>6. ThreadsOwned' BY <1>1, <1>2 DEF ThreadsOwned, TypeOK, PrimarySteps
<1> QED BY <1>3, <1>4, <1>5, <1>6

\* A Context gives its retain and its thread back.
LEMMA CloseContextStep == ASSUME SInv, NEW g \in Goroutines, CloseContext(g) PROVE SInv'
<1> USE DEF SInv, NothingLeaks
<1>1. /\ pc[g] = "idle" /\ UNCHANGED <<libVars, pc, hand, dev, leaked>>
      /\ ctx[g] # 0 /\ ctx' = [ctx EXCEPT ![g] = 0]
      /\ thread' = [thread EXCEPT ![g] = "none"]
      /\ retains' = retains - 1
  BY DEF CloseContext
<1>2. hand[g] = 0 /\ Goto(g, "idle") BY <1>1 DEF HandsExact, Goto, TypeOK
<1>3. LibrariesOwned' /\ InitAlone' /\ HandsExact' /\ DriverComplete'
  BY <1>1, <1>2, OutsideInit DEF InitSteps, TypeOK
<1>4. RetainsOwned' /\ retains' \in Nat /\ leaked' \in Nat
  <2>1. g \in Owners BY <1>1 DEF Owners
  <2>2. Owners' = Owners \ {g} BY <1>1 DEF Owners, TypeOK
  <2>3. leaked \in Nat BY DEF TypeOK
  <2> QED BY <1>1, <2>1, <2>2, <2>3, OwnerLeaves
<1>5. TypeOK' BY <1>1, <1>4, StartupAssumption DEF TypeOK, libVars, Libs
<1>6. ThreadsOwned' BY <1>1 DEF ThreadsOwned, TypeOK, PrimarySteps
<1> QED BY <1>3, <1>4, <1>5, <1>6

\* Every step of start-up keeps the invariant, the resources' part too: Init
\* works while there are none, and nothing else changes a library.
LEMMA StartupInv == ASSUME FInv, StartupStep, UNCHANGED rvars PROVE FInv'
<1> USE DEF FInv
<1>1. PICK g \in Goroutines : InitStep(g) \/ GetDevice(g) \/ PrimaryStep(g)
  BY DEF StartupStep
<1>2. SInv'
  BY <1>1, InitBeginStep, OpenSucceedsStep, OpenFailsStep, LookupRequiredStep,
     LookupOptionalStep, CuInitStep, GetDeviceStep, PrimaryBeginStep, RetainStep,
     SetCurrentStep, ReleaseStep, CloseExecStep
     DEF InitStep, PrimaryStep
<1>3. driver # 0 => driver' = driver /\ bound'[driver] = bound[driver]
  <2> SUFFICES ASSUME driver # 0 PROVE driver' = driver /\ bound' = bound
    OBVIOUS
  <2>1. pc[g] \notin InitSteps BY Alone
  <2> QED BY <1>1, <2>1
          DEF InitStep, InitBegin, OpenSucceeds, OpenFails, LookupRequired,
              LookupOptional, CuInit, GetDevice, PrimaryStep, PrimaryBegin, Retain,
              SetCurrent, Release, CloseExec, libVars, InitSteps
<1>4. ResourcesExact' BY <1>3, ResourcesStay
<1> QED BY <1>2, <1>4

----------------------------------------------------------------------------
(* The resources.                                                          *)

\* What start-up promises does not depend on the resources.
LEMMA StartupStays == ASSUME SInv, UNCHANGED svars PROVE SInv'
<1> USE DEF SInv, NothingLeaks, svars, libVars, ctxVars
<1>1. TypeOK' BY DEF TypeOK, Libs
<1>2. RetainsOwned'
  <2>1. Owners' = Owners BY DEF Owners
  <2> QED BY <2>1, OwnersStay
<1> QED BY <1>1, <1>2 DEF LibrariesOwned, ThreadsOwned, InitAlone, HandsExact,
                          DriverComplete, Libs

\* A resource is made in a context: that of the installed driver.
LEMMA Made ==
  ASSUME FInv, NEW g \in Goroutines, NEW r \in Resources, In(g, r),
         NEW p \in {"create", "live"}, Step(r, p), UNCHANGED <<svars, lent>>,
         p = "create" <=> r \notin Virtuals,
         pinned' = IF r \in Virtuals THEN pinned ELSE pinned \cup {r},
         r \in Linkers => LinkGroup \subseteq bound[ctx[g]],
         r \in Virtuals => vmmAvailable(ctx[g])
  PROVE  FInv'
<1> USE DEF FInv
<1>1. SInv' BY StartupStays
<1>2. ctx[g] = driver /\ driver # 0 BY DEF SInv, HandsExact, In
<1>3. /\ rpc' = [rpc EXCEPT ![r] = p] /\ rpc[r] = "none"
      /\ home' = [home EXCEPT ![r] = g] /\ via' = [via EXCEPT ![r] = driver]
      /\ UNCHANGED <<driver, bound, lent>>
  BY <1>2 DEF Step, In, svars, libVars
<1>4. driver \in 0 .. MaxOpens BY DEF SInv, NothingLeaks, TypeOK
<1>5. ResourceTypes' BY <1>3, <1>4 DEF ResourcesExact, ResourceTypes
<1>6. \A x \in Resources : rpc'[x] # "none" => via'[x] = driver' /\ driver' # 0
  BY <1>2, <1>3 DEF ResourcesExact, ResourceTypes
<1>7. \A l \in Linkers : rpc'[l] # "none" => LinkGroup \subseteq bound'[driver']
  BY <1>2, <1>3 DEF ResourcesExact, ResourceTypes, Resources
<1>8. \A v \in Virtuals : rpc'[v] # "none" => rpc'[v] = "live" /\ vmmAvailable(driver)'
  <2>1. vmmAvailable(driver)' <=> vmmAvailable(driver) BY <1>3 DEF vmmAvailable
  <2> QED BY <1>2, <1>3, <2>1 DEF ResourcesExact, ResourceTypes, Resources
<1>9. pinned' = {x \in Linkers \cup Registrations : rpc'[x] # "none"}
  BY <1>3, FeaturesAssumption DEF ResourcesExact, ResourceTypes, Resources
<1>10. lent' = {x \in Linkers \cup Registrations : rpc'[x] = "live"}
  BY <1>3, FeaturesAssumption DEF ResourcesExact, ResourceTypes, Resources
<1> QED BY <1>1, <1>5, <1>6, <1>7, <1>8, <1>9, <1>10 DEF ResourcesExact

\* NewLinker pins its buffers first.
LEMMA NewLinkerStep ==
  ASSUME FInv, NEW g \in Goroutines, NEW l \in Linkers, NewLinker(g, l) PROVE FInv'
  BY Made, FeaturesAssumption DEF NewLinker, LinkGroup, Resources

\* RegisterHost: pinned before the driver is asked, unpinned if it refuses.
LEMMA RegisterHostStep ==
  ASSUME FInv, NEW g \in Goroutines, NEW r \in Registrations, RegisterHost(g, r)
  PROVE  FInv'
  BY Made, FeaturesAssumption DEF RegisterHost, Resources

\* AllocVirtual, which needs all eight entry points before it starts.
LEMMA AllocVirtualStep ==
  ASSUME FInv, NEW g \in Goroutines, NEW v \in Virtuals, AllocVirtual(g, v) PROVE FInv'
  BY Made, FeaturesAssumption DEF AllocVirtual, Resources

\* A linker or a registration goes from one stage to another.
LEMMA Staged ==
  ASSUME FInv, NEW r \in Linkers \cup Registrations, rpc[r] # "none",
         NEW p \in {"unpin", "live", "destroyed"}, Step(r, p),
         lent' = IF p = "live" THEN lent \cup {r} ELSE lent \ {r},
         UNCHANGED <<svars, home, via, pinned>>
  PROVE  FInv'
<1> USE DEF FInv
<1>1. SInv' BY StartupStays
<1>2. r \in Resources /\ r \notin Virtuals BY FeaturesAssumption DEF Resources
<1>3. /\ rpc' = [rpc EXCEPT ![r] = p]
      /\ UNCHANGED <<driver, bound, home, via, pinned>>
  BY DEF Step, svars, libVars
<1>4. ResourceTypes' BY <1>2, <1>3 DEF ResourcesExact, ResourceTypes
<1>5. \A x \in Resources : rpc'[x] # "none" => via'[x] = driver' /\ driver' # 0
  BY <1>2, <1>3 DEF ResourcesExact, ResourceTypes
<1>6. \A l \in Linkers : rpc'[l] # "none" => LinkGroup \subseteq bound'[driver']
  BY <1>2, <1>3 DEF ResourcesExact, ResourceTypes, Resources
<1>7. \A v \in Virtuals : rpc'[v] # "none" => rpc'[v] = "live" /\ vmmAvailable(driver)'
  <2>1. vmmAvailable(driver)' <=> vmmAvailable(driver) BY <1>3 DEF vmmAvailable
  <2> QED BY <1>2, <1>3, <2>1 DEF ResourcesExact, ResourceTypes, Resources
<1>8. pinned' = {x \in Linkers \cup Registrations : rpc'[x] # "none"}
  BY <1>2, <1>3 DEF ResourcesExact, ResourceTypes, Resources
<1>9. lent' = {x \in Linkers \cup Registrations : rpc'[x] = "live"}
  BY <1>2, <1>3 DEF ResourcesExact, ResourceTypes, Resources
<1> QED BY <1>1, <1>4, <1>5, <1>6, <1>7, <1>8, <1>9 DEF ResourcesExact

\* The driver makes, refuses or destroys a linker or a registration.
LEMMA StagesStep ==
  ASSUME FInv, NEW r \in Linkers \cup Registrations,
         Create(r) \/ CreateFails(r) \/ Destroy(r)
  PROVE  FInv'
<1>1. CASE Create(r) BY <1>1, Staged DEF Create
<1>2. CASE CreateFails(r)
  <2>1. r \notin lent BY <1>2 DEF FInv, ResourcesExact, CreateFails
  <2> QED BY <1>2, <2>1, Staged DEF CreateFails
<1>3. CASE Destroy(r) BY <1>3, Staged DEF Destroy
<1> QED BY <1>1, <1>2, <1>3

\* A resource is gone: unpinned, and no longer in a context.
LEMMA Gone ==
  ASSUME FInv, NEW r \in Resources, r \in Linkers \cup Registrations => rpc[r] # "live",
         Step(r, "none"), home' = [home EXCEPT ![r] = Nobody],
         via' = [via EXCEPT ![r] = 0], pinned' = pinned \ {r}, UNCHANGED <<svars, lent>>
  PROVE  FInv'
<1> USE DEF FInv
<1>1. SInv' BY StartupStays
<1>2. rpc' = [rpc EXCEPT ![r] = "none"] /\ UNCHANGED <<driver, bound, lent>>
  BY DEF Step, svars, libVars
<1>3. ResourceTypes' BY <1>2, StartupAssumption DEF ResourcesExact, ResourceTypes
<1>4. \A x \in Resources : rpc'[x] # "none" => via'[x] = driver' /\ driver' # 0
  BY <1>2 DEF ResourcesExact, ResourceTypes
<1>5. \A l \in Linkers : rpc'[l] # "none" => LinkGroup \subseteq bound'[driver']
  BY <1>2 DEF ResourcesExact, ResourceTypes, Resources
<1>6. \A v \in Virtuals : rpc'[v] # "none" => rpc'[v] = "live" /\ vmmAvailable(driver)'
  <2>1. vmmAvailable(driver)' <=> vmmAvailable(driver) BY <1>2 DEF vmmAvailable
  <2> QED BY <1>2, <2>1 DEF ResourcesExact, ResourceTypes, Resources
<1>7. pinned' = {x \in Linkers \cup Registrations : rpc'[x] # "none"}
  BY <1>2 DEF ResourcesExact, ResourceTypes, Resources
<1>8. lent' = {x \in Linkers \cup Registrations : rpc'[x] = "live"}
  BY <1>2 DEF ResourcesExact, ResourceTypes, Resources
<1> QED BY <1>1, <1>3, <1>4, <1>5, <1>6, <1>7, <1>8 DEF ResourcesExact

\* Unpinning what the driver has given back.
LEMMA UnpinStep ==
  ASSUME FInv, NEW r \in Linkers \cup Registrations, Unpin(r) PROVE FInv'
  BY Gone DEF Unpin, Resources

\* Closing a virtual buffer, which pins nothing.
LEMMA CloseVirtualStep == ASSUME FInv, NEW v \in Virtuals, CloseVirtual(v) PROVE FInv'
<1>1. v \in Resources /\ v \notin Linkers \cup Registrations
  BY FeaturesAssumption DEF Resources
<1>2. pinned' = pinned \ {v} BY <1>1 DEF FInv, ResourcesExact, CloseVirtual
<1> QED BY <1>1, <1>2, Gone DEF CloseVirtual

\* Closing a context leaves what was made in it as it is.
LEMMA CloseHomeStep == ASSUME FInv, NEW g \in Goroutines, CloseHome(g) PROVE FInv'
<1> USE DEF FInv
<1>1. SInv' BY CloseContextStep DEF CloseHome
<1>2. UNCHANGED <<rpc, via, pinned, lent, driver, bound>>
  BY DEF CloseHome, CloseContext, libVars
<1>3. ResourceTypes' BY <1>2 DEF ResourcesExact, ResourceTypes, CloseHome
<1>4. \A v \in Virtuals : rpc'[v] # "none" => rpc'[v] = "live" /\ vmmAvailable(driver)'
  <2>1. vmmAvailable(driver)' <=> vmmAvailable(driver) BY <1>2 DEF vmmAvailable
  <2> QED BY <1>2, <2>1 DEF ResourcesExact
<1> QED BY <1>1, <1>2, <1>3, <1>4 DEF ResourcesExact

----------------------------------------------------------------------------
\* Every step keeps the invariant.
LEMMA NextInv == FInv /\ [Next]_vars => FInv'
<1> SUFFICES ASSUME FInv, [Next]_vars PROVE FInv'
  OBVIOUS
<1>1. CASE UNCHANGED vars
  BY <1>1, StartupStays, ResourcesStay DEF FInv, vars, svars, libVars
<1>2. CASE StartupStep /\ UNCHANGED rvars BY <1>2, StartupInv
<1>3. ASSUME NEW g \in Goroutines,
             \/ CloseHome(g)
             \/ \E l \in Linkers : NewLinker(g, l)
             \/ \E r \in Registrations : RegisterHost(g, r)
             \/ \E v \in Virtuals : AllocVirtual(g, v)
      PROVE  FInv'
  BY <1>3, CloseHomeStep, NewLinkerStep, RegisterHostStep, AllocVirtualStep
<1>4. ASSUME NEW r \in Linkers \cup Registrations,
             Create(r) \/ CreateFails(r) \/ Destroy(r) \/ Unpin(r)
      PROVE  FInv'
  BY <1>4, StagesStep, UnpinStep
<1>5. ASSUME NEW v \in Virtuals, CloseVirtual(v) PROVE FInv'
  BY <1>5, CloseVirtualStep
<1> QED BY <1>1, <1>2, <1>3, <1>4, <1>5 DEF Next

\* VirtualBuffer: flags and driver agree at every step of AllocVirtual, Close
\* and the copies.
THEOREM StartupSafe == Spec => []FInv
  BY InitInv, NextInv, PTL DEF Spec

\* Whoever calls the driver calls a complete one: every core wrapper reaches
\* the library, which is open and initialized, and so does every feature the
\* library exports.
THEOREM DriverUsable == Spec => []UsableDriver
<1>1. FInv => UsableDriver
  <2> SUFFICES ASSUME FInv, NEW h \in InUse
               PROVE  /\ lib[h] = "open" /\ h \in inited
                      /\ \A s \in CoreCalls : Answer(bound[h], s) = "call"
                      /\ \A s \in (FeatureCalls \cap exports[h]) \ bindByValueIPC :
                           Answer(bound[h], s) = "call"
    BY DEF UsableDriver
  <2>1. h = driver /\ driver # 0 BY DEF FInv, SInv, HandsExact, InUse
  <2>2. /\ lib[h] = "open" /\ h \in inited /\ requiredSymbols \subseteq bound[h]
        /\ optionalSymbols \cap exports[h] \subseteq bound[h]
    BY <2>1 DEF FInv, SInv, DriverComplete
  <2>3. CoreCalls \subseteq bound[h] BY <2>2, CoreRequired
  <2>4. (FeatureCalls \cap exports[h]) \ bindByValueIPC \subseteq bound[h]
    BY <2>2, FeatureKnown
  <2> QED BY <2>2, <2>3, <2>4, BoundCalls
<1> QED BY <1>1, StartupSafe, PTL

\* No failure on the way through Init and Primary leaves a library, a retain
\* or a thread behind.
THEOREM StartupNeverLeaks == Spec => []NothingLeaks
<1>1. FInv => NothingLeaks BY DEF FInv, SInv
<1> QED BY <1>1, StartupSafe, PTL

\* Memory lent to the driver stays pinned until it is given back.
THEOREM LentStaysPinned == Spec => []LentMemoryPinned
<1>1. FInv => LentMemoryPinned BY DEF FInv, ResourcesExact, LentMemoryPinned
<1> QED BY <1>1, StartupSafe, PTL

\* Whatever link session or virtual buffer could be made can be destroyed.
THEOREM AlwaysDisposable == Spec => []Disposable
<1>1. FInv => Disposable
  <2> SUFFICES ASSUME FInv PROVE Disposable
    OBVIOUS
  <2>1. ASSUME NEW l \in Linkers, rpc[l] = "live" PROVE "LinkDestroy" \in bound[via[l]]
    BY <2>1 DEF FInv, ResourcesExact, Resources, LinkGroup
  <2>2. ASSUME NEW v \in Virtuals, rpc[v] = "live",
               NEW s \in {"MemUnmap", "MemRelease", "MemAddressFree"}
        PROVE  s \in bound[via[v]]
    BY <2>2 DEF FInv, ResourcesExact, Resources, vmmAvailable
  <2> QED BY <2>1, <2>2, BoundCalls DEF Disposable
<1> QED BY <1>1, StartupSafe, PTL

----------------------------------------------------------------------------
(* One virtual buffer, once the driver is there: any number of copies and  *)
(* Closes.  The invariant of VirtualBuffer names what the driver holds at  *)
(* each step of the transaction and says that the flags of an open buffer  *)
(* are exact; the four properties are part of it.                          *)

\* Nothing is held before the transaction starts.
LEMMA VirtualInit == VInit => IInv
  BY DEF VInit, IInv, VTypeOK, Transaction, Locking, Teardown, NeverMisused,
         RollbackComplete, CloseComplete, CopyOnMapped, APCs, Flags

\* Every step of AllocVirtual, forward or back, keeps the invariant.
LEMMA VirtualAllocStep == ASSUME IInv, Alloc PROVE IInv'
<1> USE DEF IInv, VTypeOK, Transaction, Locking, Teardown, NeverMisused,
            RollbackComplete, CloseComplete, CopyOnMapped, APCs, Flags,
            allocVars, closeVars
<1>1. CASE AllocRefused BY <1>1 DEF AllocRefused
<1>2. CASE MemCreate BY <1>2 DEF MemCreate, Acquire
<1>3. CASE MemAddressReserve BY <1>3 DEF MemAddressReserve, Acquire
<1>4. CASE MemMap BY <1>4 DEF MemMap, Acquire
<1>5. CASE MemSetAccess BY <1>5 DEF MemSetAccess, Acquire
<1>6. CASE AllocDone BY <1>6 DEF AllocDone
<1>7. CASE UndoMap BY <1>7 DEF UndoMap, CallUnmap, Ask
<1>8. CASE UndoReserve BY <1>8 DEF UndoReserve, CallAddressFree, Ask
<1>9. CASE UndoCreate BY <1>9 DEF UndoCreate, CallRelease, Ask
<1> QED
  BY <1>1, <1>2, <1>3, <1>4, <1>5, <1>6, <1>7, <1>8, <1>9 DEF Alloc

\* A copy starts only on a mapped range, with no Close under way.
LEMMA VirtualCopyStep ==
  ASSUME IInv, NEW u \in Users, CopyBegin(u) \/ CopyEnd(u)
  PROVE  IInv'
<1> USE DEF IInv, VTypeOK, Transaction, Locking, Teardown, NeverMisused,
            RollbackComplete, CloseComplete, CopyOnMapped, APCs, Flags,
            allocVars, closeVars
<1>1. CASE CopyBegin(u) BY <1>1 DEF CopyBegin, Writing
<1>2. CASE CopyEnd(u) BY <1>2 DEF CopyEnd
<1> QED BY <1>1, <1>2

\* Every step of Close keeps flags and driver in agreement.
LEMMA VirtualCloseStep ==
  ASSUME IInv, NEW x \in Closers, Close(x)
  PROVE  IInv'
<1> USE DEF IInv, VTypeOK, Transaction, Locking, Teardown, NeverMisused,
            RollbackComplete, CloseComplete, CopyOnMapped, APCs, Flags,
            allocVars, closeVars, VGoto
<1>1. CASE CloseQueue(x) BY <1>1 DEF CloseQueue, Writing
<1>2. CASE CloseLock(x) BY <1>2 DEF CloseLock
<1>3. CASE CloseUnmap(x)
  BY <1>3, ZenonT(60) DEF CloseUnmap, TryFree, CallFor, CallUnmap, Ask
<1>4. CASE CloseRelease(x)
  BY <1>4, ZenonT(60) DEF CloseRelease, TryFree, CallFor, CallRelease, Ask
<1>5. CASE CloseFree(x)
  BY <1>5, ZenonT(60) DEF CloseFree, TryFree, CallFor, CallAddressFree, Ask
<1>6. CASE CloseFinish(x) BY <1>6 DEF CloseFinish
<1> QED BY <1>1, <1>2, <1>3, <1>4, <1>5, <1>6 DEF Close

\* VirtualBuffer: flags and driver agree at every step of AllocVirtual, Close
\* and the copies.
THEOREM FlagsStayExact == VSpec => []IInv
<1>1. IInv /\ UNCHANGED vvars => IInv'
  BY DEF IInv, VTypeOK, Transaction, Locking, Teardown, NeverMisused,
         RollbackComplete, CloseComplete, CopyOnMapped, vvars, allocVars,
         closeVars
<1>2. IInv /\ [VNext]_vvars => IInv'
  BY <1>1, VirtualAllocStep, VirtualCopyStep, VirtualCloseStep DEF VNext
<1> QED BY VirtualInit, <1>2, PTL DEF VSpec

\* No rollback and no retried Close asks the driver for what it forbids.
THEOREM DriverNeverMisused == VSpec => []NeverMisused
<1>1. IInv => NeverMisused BY DEF IInv
<1> QED BY <1>1, FlagsStayExact, PTL

\* A failed allocation that reports no rollback error left nothing behind.
THEOREM FailureLeavesNothing == VSpec => []RollbackComplete
<1>1. IInv => RollbackComplete BY DEF IInv
<1> QED BY <1>1, FlagsStayExact, PTL

\* A closed buffer holds nothing.
THEOREM ClosedHoldsNothing == VSpec => []CloseComplete
<1>1. IInv => CloseComplete BY DEF IInv
<1> QED BY <1>1, FlagsStayExact, PTL

\* Copies run on mapped memory only.
THEOREM CopiesOnMappedMemory == VSpec => []CopyOnMapped
<1>1. IInv => CopyOnMapped BY DEF IInv
<1> QED BY <1>1, FlagsStayExact, PTL
=============================================================================
