------------------------- MODULE RagCollectionsProofs -------------------------
(***************************************************************************)
(* Proofs about RagCollections, for any numbers of requests, collections,  *)
(* models and configurations, and about the stores that collections hold   *)
(* (RagStores), for any threads, connections, namespaces, documents and    *)
(* batches.                                                                *)
(***************************************************************************)
EXTENDS RagCollections, RagStores, FiniteSetTheorems, NaturalsInduction,
        WellFoundedInduction, TLAPS

\* TypeOK with the domains of the functions and the arguments of the routes.
Typed ==
  /\ table \in [Models -> Configs \cup {Nobody}]
  /\ collections \in [Ids -> Requests \cup {Nobody}]
  /\ made \in [Requests -> [model : Models \cup {Nobody}, embedder : Models \cup {Nobody},
                            signature : Signatures \cup {Nobody}]]
  /\ pc \in [Requests -> Steps] /\ kind \in [Requests -> Kinds]
  /\ target \in [Requests -> Models \cup {Nobody}]
  /\ want \in [Requests -> Models \cup Configs \cup {Nobody}]
  /\ id \in [Requests -> Ids \cup {Nobody}]
  /\ db \in [Requests -> {"memory", "sqlite"}]
  /\ on \in [Requests -> Requests \cup {Nobody}]
  /\ vector \in [Requests -> Signatures \cup {Nobody}]
  /\ batches \in [Requests -> 0..MaxBatches]
  /\ opened \subseteq Requests /\ raced \subseteq Requests
  /\ rows \in [Requests \cup {"database"} -> SUBSET Signatures]

Creating == {"generator", "embedder", "insert"}
Working == {"ready", "matching", "embed", "store"}

\* What a request's step says of its route and of the arguments.
StepShape ==
  \A r \in Requests :
    /\ pc[r] \in Creating => kind[r] = "create"
    /\ pc[r] = "referenced" => kind[r] = "load"
    /\ pc[r] = "act" => kind[r] \in {"load", "unload"}
    /\ pc[r] \in Working => kind[r] \in {"ingest", "retrieve", "clear"}
    /\ pc[r] \in Working \cup {"close"} => on[r] \in Requests
    /\ pc[r] = "store" /\ kind[r] # "clear" => vector[r] \in Signatures
    /\ pc[r] # "new" /\ kind[r] \notin {"load", "unload"} => id[r] \in Ids
    /\ pc[r] # "new" /\ kind[r] \in {"create", "load", "unload"} => target[r] \in Models
    /\ pc[r] # "new" /\ kind[r] = "create" => want[r] \in Models
    /\ pc[r] # "new" /\ kind[r] \in {"load", "unload"} => want[r] \in Configs \cup {Nobody}

\* A collection is registered under the id it was created with, by a request
\* that is over; nobody works on another.
HomeInv ==
  /\ \A c \in Ids : collections[c] # Nobody =>
       /\ pc[collections[c]] = "over" /\ kind[collections[c]] = "create"
       /\ id[collections[c]] = c
  /\ \A r \in Requests : on[r] # Nobody => pc[on[r]] = "over"

\* A deletion closes a store that no other one closes and no registration names.
ClosingInv ==
  /\ \A r \in Requests : pc[r] = "close" => on[r] \notin Registered
  /\ \A r, q \in Requests : pc[r] = "close" /\ pc[q] = "close" /\ on[r] = on[q] => r = q

\* StoresOwned, store by store.
OwnedInv ==
  \A x \in Requests : x \in opened <=>
    \/ x \in Registered \/ pc[x] = "insert"
    \/ \E q \in Requests : pc[q] = "close" /\ on[q] = x

\* A collection that no load or unload raced: its models are resident as soon
\* as they were looked up, and whoever is about to replace one of a
\* registered collection puts there what is there.
ModelsInv ==
  /\ \A q \in Requests \ raced :
       /\ pc[q] \in {"embedder", "insert"} =>
            made[q].model \in Models /\ table[made[q].model] # Nobody
       /\ pc[q] = "insert" => made[q].embedder \in Models /\ Matches(q)
  /\ \A q \in Registered \ raced :
       /\ made[q].model \in Models /\ made[q].embedder \in Models
       /\ \A r \in Requests : pc[r] = "act" /\ target[r] \in ModelsOf(q) =>
            want[r] = table[target[r]]

\* A memory store is empty until its collection is created.
EmptyInv == \A q \in Requests : rows[q] # {} => pc[q] = "over"

CollectionsInv ==
  /\ Typed /\ StepShape /\ HomeInv /\ ClosingInv /\ OwnedInv
  /\ ModelsInv /\ KeptUnlessRaced /\ EmptyInv /\ OneEmbedding
-----------------------------------------------------------------------------
\* Every step keeps the types,
LEMMA TypedNext ==
  ASSUME Typed, StepShape, [Next]_vars
  PROVE  Typed'
<1> USE DEF Goto, requestVars, Typed, StepShape, Steps, Kinds, Creating, Working
<1>1. ASSUME NEW r \in Requests, RequestStep(r)
      PROVE  Typed'
  <2>1. CASE Start(r)
    BY <2>1, CollectionsAssumption DEF Start
  <2>2. CASE CreateCheck(r)
    BY <2>2 DEF CreateCheck
  <2>3. CASE CreateGenerator(r)
    <3>1. target[r] \in Models
      BY <2>3 DEF CreateGenerator
    <3>2. made' = [made EXCEPT ![r] = [@ EXCEPT !.model = target[r]]]
      BY <2>3 DEF CreateGenerator
    <3> DEFINE Unions == [model : Models \cup {Nobody}, embedder : Models \cup {Nobody},
                          signature : Signatures \cup {Nobody}]
    <3>3. made \in [Requests -> Unions]
      OBVIOUS
    <3>4. made[r] \in Unions
      BY <3>3
    <3>5. [made[r] EXCEPT !.model = target[r]] \in Unions
      BY <3>1, <3>4
    <3>6. made' \in [Requests -> Unions]
      <4> HIDE DEF Unions
      <4>. QED
        BY <3>2, <3>5, <3>3
    <3>7. pc' \in [Requests -> Steps]
      BY <2>3 DEF CreateGenerator
    <3>. QED
      BY <2>3, <3>6, <3>7 DEF CreateGenerator
  <2>4. CASE CreateEmbedder(r)
    <3>1. want[r] \in Models
      BY <2>4 DEF CreateEmbedder
    <3>2. table[want[r]] \in Embedding => Signature[table[want[r]]] \in Signatures
      BY DEF Signatures
    <3> DEFINE Unions == [model : Models \cup {Nobody}, embedder : Models \cup {Nobody},
                          signature : Signatures \cup {Nobody}]
               found == [model |-> made[r].model, embedder |-> want[r],
                         signature |-> Signature[table[want[r]]]]
    <3>3. table[want[r]] \in Embedding => found \in Unions
      BY <3>1, <3>2
    <3>4. \/ made' = made
          \/ made' = [made EXCEPT ![r] = found] /\ table[want[r]] \in Embedding
      BY <2>4 DEF CreateEmbedder
    <3>5. made \in [Requests -> Unions]
      OBVIOUS
    <3>6. made' \in [Requests -> Unions]
      <4> HIDE DEF Unions, found
      <4>. QED
        BY <3>3, <3>4, <3>5
    <3>. QED
      BY <2>4, <3>6 DEF CreateEmbedder
  <2>5. CASE CreateInsert(r)
    BY <2>5 DEF CreateInsert
  <2>6. CASE Delete(r)
    BY <2>6 DEF Delete
  <2>7. CASE DeleteClose(r)
    BY <2>7 DEF DeleteClose
  <2>8. CASE LoadCheck(r)
    BY <2>8 DEF LoadCheck
  <2>9. CASE LoadReferenced(r)
    BY <2>9 DEF LoadReferenced
  <2>10. CASE UnloadCheck(r)
    BY <2>10 DEF UnloadCheck
  <2>11. CASE Replace(r)
    BY <2>11 DEF Replace, Building
  <2>12. CASE LoadFails(r)
    BY <2>12 DEF LoadFails
  <2>13. CASE Find(r)
    BY <2>13 DEF Find
  <2>14. CASE ReadyGenerator(r)
    BY <2>14 DEF ReadyGenerator
  <2>15. CASE ReadyEmbedder(r)
    BY <2>15 DEF ReadyEmbedder
  <2>16. CASE Embed(r)
    <3>1. table[made[on[r]].embedder] \in Embedding =>
            Signature[table[made[on[r]].embedder]] \in Signatures
      BY DEF Signatures
    <3>2. CASE Goto(r, "over") /\ UNCHANGED vector
      BY <2>16, <3>2 DEF Embed
    <3>3. CASE /\ table[made[on[r]].embedder] \in Embedding
               /\ vector' = [vector EXCEPT ![r] = Signature[table[made[on[r]].embedder]]]
               /\ Goto(r, "store")
      BY <2>16, <3>1, <3>3 DEF Embed
    <3>. QED
      BY <2>16, <3>2, <3>3 DEF Embed
  <2>17. CASE StoreAccess(r)
    BY <2>17, CollectionsAssumption DEF StoreAccess, Rows, Usable
  <2>. QED
    BY <1>1, <2>1, <2>2, <2>3, <2>4, <2>5, <2>6, <2>7, <2>8, <2>9, <2>10, <2>11, <2>12,
       <2>13, <2>14, <2>15, <2>16, <2>17 DEF RequestStep
<1>2. CASE UNCHANGED vars
  BY <1>2 DEF vars
<1>. QED
  BY <1>1, <1>2 DEF Next

\* ... what the steps say of their requests,
LEMMA ShapeNext ==
  ASSUME Typed, StepShape, [Next]_vars
  PROVE  StepShape'
<1> USE DEF Goto, requestVars, Typed, StepShape, Steps, Kinds, Creating, Working
<1>1. ASSUME NEW r \in Requests, RequestStep(r)
      PROVE  StepShape'
  <2>1. CASE Start(r)
    BY <2>1 DEF Start
  <2>2. CASE CreateCheck(r)
    BY <2>2 DEF CreateCheck
  <2>3. CASE CreateGenerator(r)
    BY <2>3 DEF CreateGenerator
  <2>4. CASE CreateEmbedder(r)
    BY <2>4 DEF CreateEmbedder
  <2>5. CASE CreateInsert(r)
    BY <2>5 DEF CreateInsert
  <2>6. CASE Delete(r)
    BY <2>6, CollectionsAssumption DEF Delete
  <2>7. CASE DeleteClose(r)
    BY <2>7 DEF DeleteClose
  <2>8. CASE LoadCheck(r)
    BY <2>8 DEF LoadCheck
  <2>9. CASE LoadReferenced(r)
    BY <2>9 DEF LoadReferenced
  <2>10. CASE UnloadCheck(r)
    BY <2>10 DEF UnloadCheck
  <2>11. CASE Replace(r)
    BY <2>11 DEF Replace
  <2>12. CASE LoadFails(r)
    BY <2>12 DEF LoadFails
  <2>13. CASE Find(r)
    BY <2>13, CollectionsAssumption DEF Find
  <2>14. CASE ReadyGenerator(r)
    BY <2>14 DEF ReadyGenerator
  <2>15. CASE ReadyEmbedder(r)
    BY <2>15 DEF ReadyEmbedder
  <2>16. CASE Embed(r)
    <3>1. table[made[on[r]].embedder] \in Embedding =>
            Signature[table[made[on[r]].embedder]] \in Signatures
      BY DEF Signatures
    <3>2. CASE Goto(r, "over") /\ UNCHANGED vector
      BY <2>16, <3>2 DEF Embed
    <3>3. CASE /\ table[made[on[r]].embedder] \in Embedding
               /\ vector' = [vector EXCEPT ![r] = Signature[table[made[on[r]].embedder]]]
               /\ Goto(r, "store")
      BY <2>16, <3>1, <3>3 DEF Embed
    <3>. QED
      BY <2>16, <3>2, <3>3 DEF Embed
  <2>17. CASE StoreAccess(r)
    BY <2>17 DEF StoreAccess
  <2>. QED
    BY <1>1, <2>1, <2>2, <2>3, <2>4, <2>5, <2>6, <2>7, <2>8, <2>9, <2>10, <2>11, <2>12,
       <2>13, <2>14, <2>15, <2>16, <2>17 DEF RequestStep
<1>2. CASE UNCHANGED vars
  BY <1>2 DEF vars
<1>. QED
  BY <1>1, <1>2 DEF Next

\* ... where a collection is registered,
LEMMA HomeNext ==
  ASSUME Typed, StepShape, HomeInv, [Next]_vars
  PROVE  HomeInv'
<1> USE DEF Goto, requestVars, Typed, StepShape, HomeInv, Creating, Working
<1>1. ASSUME NEW r \in Requests, RequestStep(r)
      PROVE  HomeInv'
  <2>1. CASE Start(r)
    BY <2>1, CollectionsAssumption DEF Start
  <2>2. CASE CreateCheck(r)
    BY <2>2 DEF CreateCheck
  <2>3. CASE CreateGenerator(r)
    BY <2>3 DEF CreateGenerator
  <2>4. CASE CreateEmbedder(r)
    BY <2>4 DEF CreateEmbedder
  <2>5. CASE CreateInsert(r)
    BY <2>5 DEF CreateInsert
  <2>6. CASE Delete(r)
    BY <2>6, CollectionsAssumption DEF Delete
  <2>7. CASE DeleteClose(r)
    BY <2>7 DEF DeleteClose
  <2>8. CASE LoadCheck(r)
    BY <2>8 DEF LoadCheck
  <2>9. CASE LoadReferenced(r)
    BY <2>9 DEF LoadReferenced
  <2>10. CASE UnloadCheck(r)
    BY <2>10 DEF UnloadCheck
  <2>11. CASE Replace(r)
    BY <2>11 DEF Replace
  <2>12. CASE LoadFails(r)
    BY <2>12 DEF LoadFails
  <2>13. CASE Find(r)
    BY <2>13 DEF Find
  <2>14. CASE ReadyGenerator(r)
    BY <2>14 DEF ReadyGenerator
  <2>15. CASE ReadyEmbedder(r)
    BY <2>15 DEF ReadyEmbedder
  <2>16. CASE Embed(r)
    BY <2>16 DEF Embed
  <2>17. CASE StoreAccess(r)
    BY <2>17 DEF StoreAccess
  <2>. QED
    BY <1>1, <2>1, <2>2, <2>3, <2>4, <2>5, <2>6, <2>7, <2>8, <2>9, <2>10, <2>11, <2>12,
       <2>13, <2>14, <2>15, <2>16, <2>17 DEF RequestStep
<1>2. CASE UNCHANGED vars
  BY <1>2 DEF vars
<1>. QED
  BY <1>1, <1>2 DEF Next

\* While the registrations are the same, so are the registered collections.
LEMMA RegisteredSame ==
  ASSUME UNCHANGED collections
  PROVE  Registered' = Registered
BY DEF Registered

\* A registered collection is one whose creation is over.
LEMMA RegisteredOver ==
  ASSUME Typed, HomeInv, NEW q \in Registered
  PROVE  q \in Requests /\ pc[q] = "over" /\ kind[q] = "create"
BY DEF Typed, HomeInv, Registered

\* ... who closes which store,
LEMMA ClosingNext ==
  ASSUME Typed, StepShape, HomeInv, ClosingInv, [Next]_vars
  PROVE  ClosingInv'
<1> USE DEF Goto, requestVars, Typed, StepShape, HomeInv, ClosingInv, Creating, Working
<1>1. ASSUME NEW r \in Requests, RequestStep(r)
      PROVE  ClosingInv'
  <2>1. CASE Start(r)
    BY <2>1, RegisteredSame DEF Start
  <2>2. CASE CreateCheck(r)
    BY <2>2, RegisteredSame DEF CreateCheck
  <2>3. CASE CreateGenerator(r)
    BY <2>3, RegisteredSame DEF CreateGenerator
  <2>4. CASE CreateEmbedder(r)
    <3>1. /\ UNCHANGED <<collections, on>>
          /\ \A q \in Requests : pc'[q] = "close" => pc[q] = "close"
      BY <2>4 DEF CreateEmbedder
    <3>. QED
      BY <3>1, RegisteredSame
  <2>5. CASE CreateInsert(r)
    BY <2>5, RegisteredSame DEF CreateInsert, Registered
  <2>6. CASE Delete(r)
    BY <2>6, RegisteredSame DEF Delete, Registered
  <2>7. CASE DeleteClose(r)
    BY <2>7, RegisteredSame DEF DeleteClose
  <2>8. CASE LoadCheck(r)
    BY <2>8, RegisteredSame DEF LoadCheck
  <2>9. CASE LoadReferenced(r)
    BY <2>9, RegisteredSame DEF LoadReferenced
  <2>10. CASE UnloadCheck(r)
    BY <2>10, RegisteredSame DEF UnloadCheck
  <2>11. CASE Replace(r)
    BY <2>11, RegisteredSame DEF Replace
  <2>12. CASE LoadFails(r)
    BY <2>12, RegisteredSame DEF LoadFails
  <2>13. CASE Find(r)
    BY <2>13, RegisteredSame DEF Find
  <2>14. CASE ReadyGenerator(r)
    BY <2>14, RegisteredSame DEF ReadyGenerator
  <2>15. CASE ReadyEmbedder(r)
    BY <2>15, RegisteredSame DEF ReadyEmbedder
  <2>16. CASE Embed(r)
    <3>1. /\ UNCHANGED <<collections, on>>
          /\ \A q \in Requests : pc'[q] = "close" => pc[q] = "close"
      BY <2>16 DEF Embed
    <3>. QED
      BY <3>1, RegisteredSame
  <2>17. CASE StoreAccess(r)
    <3>1. /\ UNCHANGED <<collections, on>>
          /\ \A q \in Requests : pc'[q] = "close" => pc[q] = "close"
      BY <2>17 DEF StoreAccess
    <3>. QED
      BY <3>1, RegisteredSame
  <2>. QED
    BY <1>1, <2>1, <2>2, <2>3, <2>4, <2>5, <2>6, <2>7, <2>8, <2>9, <2>10, <2>11, <2>12,
       <2>13, <2>14, <2>15, <2>16, <2>17 DEF RequestStep
<1>2. CASE UNCHANGED vars
  BY <1>2, RegisteredSame DEF vars
<1>. QED
  BY <1>1, <1>2 DEF Next

\* ... which stores are open,
LEMMA OwnedNext ==
  ASSUME Typed, StepShape, HomeInv, ClosingInv, OwnedInv, [Next]_vars
  PROVE  OwnedInv'
<1> USE DEF Goto, requestVars, Typed, StepShape, HomeInv, ClosingInv, OwnedInv,
      Creating, Working
<1>1. ASSUME NEW r \in Requests, RequestStep(r)
      PROVE  OwnedInv'
  <2>1. CASE Start(r)
    BY <2>1, RegisteredSame, RegisteredOver DEF Start
  <2>2. CASE CreateCheck(r)
    BY <2>2, RegisteredSame, RegisteredOver DEF CreateCheck
  <2>3. CASE CreateGenerator(r)
    BY <2>3, RegisteredSame, RegisteredOver DEF CreateGenerator
  <2>4. CASE CreateEmbedder(r)
    BY <2>4, RegisteredSame, RegisteredOver DEF CreateEmbedder
  <2>5. CASE CreateInsert(r)
    <3>1. \A q \in Requests : pc'[q] = "close" <=> pc[q] = "close"
      BY <2>5 DEF CreateInsert
    <3>2. \A q \in Requests : pc'[q] = "insert" <=> pc[q] = "insert" /\ q # r
      BY <2>5 DEF CreateInsert
    <3>3. on' = on /\ pc[r] = "insert" /\ r \notin Registered
      BY <2>5, RegisteredOver DEF CreateInsert
    <3>4. \A q \in Requests : pc[q] = "close" => on[q] # r
      BY <2>5, CollectionsAssumption DEF CreateInsert
    <3>5. CASE collections[id[r]] = Nobody
      <4>1. Registered' = Registered \cup {r} /\ opened' = opened
        BY <2>5, <3>5, CollectionsAssumption DEF CreateInsert, Registered
      <4>. QED
        BY <3>1, <3>2, <3>3, <4>1
    <3>6. CASE collections[id[r]] # Nobody
      <4>1. Registered' = Registered /\ opened' = opened \ {r}
        BY <2>5, <3>6, RegisteredSame DEF CreateInsert
      <4>. QED
        BY <3>1, <3>2, <3>3, <3>4, <4>1
    <3>. QED
      BY <3>5, <3>6
  <2>6. CASE Delete(r)
    BY <2>6, RegisteredSame, RegisteredOver DEF Delete, Registered
  <2>7. CASE DeleteClose(r)
    <3>1. on[r] \in Requests /\ on[r] \notin Registered /\ pc[on[r]] = "over"
      BY <2>7, CollectionsAssumption DEF DeleteClose
    <3>2. \A q \in Requests : pc'[q] = "close" <=> pc[q] = "close" /\ q # r
      BY <2>7 DEF DeleteClose
    <3>3. \A q \in Requests : pc'[q] = "insert" <=> pc[q] = "insert"
      BY <2>7 DEF DeleteClose
    <3>4. opened' = opened \ {on[r]} /\ on' = on /\ Registered' = Registered
      BY <2>7, RegisteredSame DEF DeleteClose
    <3>5. \A q \in Requests : pc[q] = "close" /\ on[q] = on[r] => q = r
      BY <2>7 DEF DeleteClose
    <3>. QED
      BY <3>1, <3>2, <3>3, <3>4, <3>5
  <2>8. CASE LoadCheck(r)
    BY <2>8, RegisteredSame, RegisteredOver DEF LoadCheck
  <2>9. CASE LoadReferenced(r)
    BY <2>9, RegisteredSame, RegisteredOver DEF LoadReferenced
  <2>10. CASE UnloadCheck(r)
    BY <2>10, RegisteredSame, RegisteredOver DEF UnloadCheck
  <2>11. CASE Replace(r)
    BY <2>11, RegisteredSame, RegisteredOver DEF Replace
  <2>12. CASE LoadFails(r)
    BY <2>12, RegisteredSame, RegisteredOver DEF LoadFails
  <2>13. CASE Find(r)
    BY <2>13, RegisteredSame, RegisteredOver DEF Find
  <2>14. CASE ReadyGenerator(r)
    BY <2>14, RegisteredSame, RegisteredOver DEF ReadyGenerator
  <2>15. CASE ReadyEmbedder(r)
    BY <2>15, RegisteredSame, RegisteredOver DEF ReadyEmbedder
  <2>16. CASE Embed(r)
    BY <2>16, RegisteredSame, RegisteredOver DEF Embed
  <2>17. CASE StoreAccess(r)
    BY <2>17, RegisteredSame, RegisteredOver DEF StoreAccess
  <2>. QED
    BY <1>1, <2>1, <2>2, <2>3, <2>4, <2>5, <2>6, <2>7, <2>8, <2>9, <2>10, <2>11, <2>12,
       <2>13, <2>14, <2>15, <2>16, <2>17 DEF RequestStep
<1>2. CASE UNCHANGED vars
  BY <1>2, RegisteredSame DEF vars
<1>. QED
  BY <1>1, <1>2 DEF Next

\* ... that a store is empty until its collection is there,
LEMMA EmptyNext ==
  ASSUME Typed, StepShape, HomeInv, EmptyInv, [Next]_vars
  PROVE  EmptyInv'
<1> USE DEF Goto, requestVars, Typed, StepShape, HomeInv, EmptyInv, Creating, Working
<1>1. ASSUME NEW r \in Requests, RequestStep(r)
      PROVE  EmptyInv'
  <2>1. CASE Start(r)
    BY <2>1 DEF Start
  <2>2. CASE CreateCheck(r)
    BY <2>2 DEF CreateCheck
  <2>3. CASE CreateGenerator(r)
    BY <2>3 DEF CreateGenerator
  <2>4. CASE CreateEmbedder(r)
    BY <2>4 DEF CreateEmbedder
  <2>5. CASE CreateInsert(r)
    BY <2>5 DEF CreateInsert
  <2>6. CASE Delete(r)
    BY <2>6 DEF Delete
  <2>7. CASE DeleteClose(r)
    BY <2>7 DEF DeleteClose
  <2>8. CASE LoadCheck(r)
    BY <2>8 DEF LoadCheck
  <2>9. CASE LoadReferenced(r)
    BY <2>9 DEF LoadReferenced
  <2>10. CASE UnloadCheck(r)
    BY <2>10 DEF UnloadCheck
  <2>11. CASE Replace(r)
    BY <2>11 DEF Replace
  <2>12. CASE LoadFails(r)
    BY <2>12 DEF LoadFails
  <2>13. CASE Find(r)
    BY <2>13 DEF Find
  <2>14. CASE ReadyGenerator(r)
    BY <2>14 DEF ReadyGenerator
  <2>15. CASE ReadyEmbedder(r)
    BY <2>15 DEF ReadyEmbedder
  <2>16. CASE Embed(r)
    BY <2>16 DEF Embed
  <2>17. CASE StoreAccess(r)
    <3>1. on[r] \in Requests /\ pc[on[r]] = "over" /\ pc[r] = "store"
      BY <2>17, CollectionsAssumption DEF StoreAccess
    <3>2. \A q \in Requests : q # on[r] => rows'[q] = rows[q]
      BY <2>17, CollectionsAssumption DEF StoreAccess, Rows
    <3>3. \A q \in Requests : pc[q] = "over" => pc'[q] = "over"
      BY <2>17, <3>1 DEF StoreAccess
    <3>. QED
      BY <3>1, <3>2, <3>3
  <2>. QED
    BY <1>1, <2>1, <2>2, <2>3, <2>4, <2>5, <2>6, <2>7, <2>8, <2>9, <2>10, <2>11, <2>12,
       <2>13, <2>14, <2>15, <2>16, <2>17 DEF RequestStep
<1>2. CASE UNCHANGED vars
  BY <1>2 DEF vars
<1>. QED
  BY <1>1, <1>2 DEF Next

\* ... the models of the collections,
LEMMA ModelsNext ==
  ASSUME Typed, StepShape, HomeInv, ModelsInv, KeptUnlessRaced, [Next]_vars
  PROVE  ModelsInv'
<1> USE DEF Goto, requestVars, Typed, StepShape, HomeInv, ModelsInv, KeptUnlessRaced,
      ModelsOf, Matches, Creating, Working
<1>1. ASSUME NEW r \in Requests, RequestStep(r)
      PROVE  ModelsInv'
  <2>1. CASE Start(r)
    BY <2>1, RegisteredSame, RegisteredOver DEF Start
  <2>2. CASE CreateCheck(r)
    BY <2>2, RegisteredSame, RegisteredOver DEF CreateCheck
  <2>3. CASE CreateGenerator(r)
    BY <2>3, RegisteredSame, RegisteredOver DEF CreateGenerator
  <2>4. CASE CreateEmbedder(r)
    <3>1. /\ \A q \in Requests : q # r => made'[q] = made[q]
          /\ r \notin Registered /\ Registered' = Registered
          /\ made'[r].model = made[r].model
      BY <2>4, RegisteredSame, RegisteredOver DEF CreateEmbedder
    <3>2. pc'[r] = "insert" => /\ want[r] \in Models /\ table[want[r]] \in Configs
                               /\ table[want[r]] # Nobody
                               /\ made'[r].embedder = want[r]
                               /\ made'[r].signature = Signature[table[want[r]]]
      BY <2>4, CollectionsAssumption DEF CreateEmbedder
    <3>3. /\ pc[r] = "embedder" /\ UNCHANGED <<table, raced, target, want>>
          /\ \A q \in Requests : q # r => pc'[q] = pc[q]
          /\ pc'[r] # "act"
      BY <2>4 DEF CreateEmbedder
    <3>4. \A q \in Requests : q # r => (Matches(q)' <=> Matches(q)) /\ ModelsOf(q)' = ModelsOf(q)
      BY <3>1, <3>3
    <3>5. ASSUME NEW q \in Requests \ raced'
          PROVE  /\ pc'[q] \in {"embedder", "insert"} =>
                      made'[q].model \in Models /\ table'[made'[q].model] # Nobody
                 /\ pc'[q] = "insert" => made'[q].embedder \in Models /\ Matches(q)'
      <4>1. CASE q = r
        BY <3>1, <3>2, <3>3, <4>1
      <4>2. CASE q # r
        BY <3>1, <3>3, <3>4, <4>2
      <4>. QED
        BY <4>1, <4>2
    <3>6. ASSUME NEW q \in Registered' \ raced'
          PROVE  /\ made'[q].model \in Models /\ made'[q].embedder \in Models
                 /\ \A p \in Requests : pc'[p] = "act" /\ target'[p] \in ModelsOf(q)' =>
                      want'[p] = table'[target'[p]]
      <4>1. q \in Registered \ raced /\ q \in Requests /\ q # r
        BY <3>1, <3>3, <3>6, RegisteredOver
      <4>. QED
        BY <3>1, <3>3, <3>4, <4>1
    <3>. QED
      BY <3>5, <3>6
  <2>5. CASE CreateInsert(r)
    <3>1. /\ made' = made /\ table' = table /\ target' = target /\ want' = want
          /\ raced \subseteq raced' /\ r \notin Registered /\ pc[r] = "insert"
      BY <2>5, RegisteredOver DEF CreateInsert
    <3>2. \A q \in Requests : /\ pc'[q] \in {"embedder", "insert"} => pc'[q] = pc[q]
                              /\ pc'[q] = "act" => pc[q] = "act"
      BY <2>5 DEF CreateInsert
    <3>3. Registered' \subseteq Registered \cup {r}
      BY <2>5, RegisteredSame DEF CreateInsert, Registered
    <3>4. r \in Registered' \ raced' => \A q \in Requests : pc[q] = "act" => target[q] \notin ModelsOf(r)
      <4>1. CASE collections[id[r]] = Nobody
        BY <2>5, <4>1 DEF CreateInsert, Changing
      <4>2. CASE collections[id[r]] # Nobody
        BY <2>5, <3>1, <4>2, RegisteredSame DEF CreateInsert
      <4>. QED
        BY <4>1, <4>2
    <3>5. ASSUME NEW q \in Requests \ raced'
          PROVE  /\ pc'[q] \in {"embedder", "insert"} =>
                      made'[q].model \in Models /\ table'[made'[q].model] # Nobody
                 /\ pc'[q] = "insert" => made'[q].embedder \in Models /\ Matches(q)'
      <4>1. q \in Requests \ raced /\ (Matches(q)' <=> Matches(q))
        BY <3>1, <3>5
      <4>2. pc'[q] \in {"embedder", "insert"} => pc'[q] = pc[q]
        BY <3>2, <3>5
      <4>3. /\ pc[q] \in {"embedder", "insert"} =>
                 made[q].model \in Models /\ table[made[q].model] # Nobody
            /\ pc[q] = "insert" => made[q].embedder \in Models /\ Matches(q)
        BY <4>1
      <4>. QED
        BY <3>1, <4>1, <4>2, <4>3
    <3>6. ASSUME NEW q \in Registered' \ raced'
          PROVE  /\ made[q].model \in Models /\ made[q].embedder \in Models
                 /\ \A p \in Requests : pc[p] = "act" /\ target[p] \in ModelsOf(q) =>
                      want[p] = table[target[p]]
      <4>1. CASE q = r
        BY <3>1, <3>4, <3>6, <4>1
      <4>2. CASE q # r
        BY <3>1, <3>3, <3>6, <4>2
      <4>. QED
        BY <4>1, <4>2
    <3>7. ASSUME NEW q \in Registered' \ raced', NEW p \in Requests,
                 pc'[p] = "act", target'[p] \in ModelsOf(q)'
          PROVE  want'[p] = table'[target'[p]]
      BY <3>1, <3>2, <3>6, <3>7
    <3>. QED
      BY <3>1, <3>5, <3>6, <3>7
  <2>6. CASE Delete(r)
    BY <2>6, RegisteredSame, RegisteredOver DEF Delete, Registered
  <2>7. CASE DeleteClose(r)
    BY <2>7, RegisteredSame, RegisteredOver DEF DeleteClose
  <2>8. CASE LoadCheck(r)
    BY <2>8, RegisteredSame, RegisteredOver DEF LoadCheck
  <2>9. CASE LoadReferenced(r)
    BY <2>9, RegisteredSame, RegisteredOver DEF LoadReferenced, ReferencedBy
  <2>10. CASE UnloadCheck(r)
    BY <2>10, RegisteredSame, RegisteredOver DEF UnloadCheck, ReferencedBy
  <2>11. CASE Replace(r)
    BY <2>11, RegisteredSame, RegisteredOver DEF Replace, Building
  <2>12. CASE LoadFails(r)
    BY <2>12, RegisteredSame, RegisteredOver DEF LoadFails
  <2>13. CASE Find(r)
    BY <2>13, RegisteredSame, RegisteredOver DEF Find
  <2>14. CASE ReadyGenerator(r)
    BY <2>14, RegisteredSame, RegisteredOver DEF ReadyGenerator
  <2>15. CASE ReadyEmbedder(r)
    BY <2>15, RegisteredSame, RegisteredOver DEF ReadyEmbedder
  <2>16. CASE Embed(r)
    BY <2>16, RegisteredSame, RegisteredOver DEF Embed
  <2>17. CASE StoreAccess(r)
    BY <2>17, RegisteredSame, RegisteredOver DEF StoreAccess
  <2>. QED
    BY <1>1, <2>1, <2>2, <2>3, <2>4, <2>5, <2>6, <2>7, <2>8, <2>9, <2>10, <2>11, <2>12,
       <2>13, <2>14, <2>15, <2>16, <2>17 DEF RequestStep
<1>2. CASE UNCHANGED vars
  BY <1>2, RegisteredSame DEF vars
<1>. QED
  BY <1>1, <1>2 DEF Next

\* ... that they are kept,
LEMMA KeptNext ==
  ASSUME Typed, StepShape, HomeInv, ModelsInv, KeptUnlessRaced, [Next]_vars
  PROVE  KeptUnlessRaced'
<1> USE DEF Goto, requestVars, Typed, StepShape, HomeInv, ModelsInv, KeptUnlessRaced,
      ModelsOf, Matches, Creating, Working
<1>1. ASSUME NEW r \in Requests, RequestStep(r)
      PROVE  KeptUnlessRaced'
  <2>1. CASE Start(r)
    BY <2>1, RegisteredSame, RegisteredOver DEF Start
  <2>2. CASE CreateCheck(r)
    BY <2>2, RegisteredSame, RegisteredOver DEF CreateCheck
  <2>3. CASE CreateGenerator(r)
    BY <2>3, RegisteredSame, RegisteredOver DEF CreateGenerator
  <2>4. CASE CreateEmbedder(r)
    <3>1. /\ \A q \in Requests : q # r => made'[q] = made[q]
          /\ r \notin Registered /\ Registered' = Registered
          /\ UNCHANGED <<table, raced>>
      BY <2>4, RegisteredSame, RegisteredOver DEF CreateEmbedder
    <3>2. ASSUME NEW q \in (Registered \ raced)'
          PROVE  (table[made[q].model] # Nobody /\ Matches(q))'
      <4>1. q \in Registered \ raced /\ q # r /\ q \in Requests
        BY <3>1, RegisteredOver
      <4>2. made'[q] = made[q] /\ table' = table
        BY <3>1, <4>1
      <4>3. table[made[q].model] # Nobody /\ Matches(q)
        BY <4>1
      <4>. QED
        BY <4>2, <4>3
    <3>. QED
      BY <3>2
  <2>5. CASE CreateInsert(r)
    BY <2>5, RegisteredSame, RegisteredOver DEF CreateInsert, Registered
  <2>6. CASE Delete(r)
    BY <2>6, RegisteredSame, RegisteredOver DEF Delete, Registered
  <2>7. CASE DeleteClose(r)
    BY <2>7, RegisteredSame, RegisteredOver DEF DeleteClose
  <2>8. CASE LoadCheck(r)
    BY <2>8, RegisteredSame, RegisteredOver DEF LoadCheck
  <2>9. CASE LoadReferenced(r)
    BY <2>9, RegisteredSame, RegisteredOver DEF LoadReferenced
  <2>10. CASE UnloadCheck(r)
    BY <2>10, RegisteredSame, RegisteredOver DEF UnloadCheck
  <2>11. CASE Replace(r)
    BY <2>11, RegisteredSame, RegisteredOver DEF Replace
  <2>12. CASE LoadFails(r)
    BY <2>12, RegisteredSame, RegisteredOver DEF LoadFails
  <2>13. CASE Find(r)
    BY <2>13, RegisteredSame, RegisteredOver DEF Find
  <2>14. CASE ReadyGenerator(r)
    BY <2>14, RegisteredSame, RegisteredOver DEF ReadyGenerator
  <2>15. CASE ReadyEmbedder(r)
    BY <2>15, RegisteredSame, RegisteredOver DEF ReadyEmbedder
  <2>16. CASE Embed(r)
    BY <2>16, RegisteredSame, RegisteredOver DEF Embed
  <2>17. CASE StoreAccess(r)
    BY <2>17, RegisteredSame, RegisteredOver DEF StoreAccess
  <2>. QED
    BY <1>1, <2>1, <2>2, <2>3, <2>4, <2>5, <2>6, <2>7, <2>8, <2>9, <2>10, <2>11, <2>12,
       <2>13, <2>14, <2>15, <2>16, <2>17 DEF RequestStep
<1>2. CASE UNCHANGED vars
  BY <1>2, RegisteredSame DEF vars
<1>. QED
  BY <1>1, <1>2 DEF Next

\* ... and what the vectors say.
LEMMA EmbeddingNext ==
  ASSUME Typed, StepShape, HomeInv, ModelsInv, KeptUnlessRaced, EmptyInv, OneEmbedding, [Next]_vars
  PROVE  OneEmbedding'
<1> USE DEF Goto, requestVars, Typed, StepShape, HomeInv, OneEmbedding, Creating,
      Working
<1>1. ASSUME NEW r \in Requests, RequestStep(r)
      PROVE  OneEmbedding'
  <2>1. CASE Start(r)
    BY <2>1, RegisteredSame, RegisteredOver DEF Start
  <2>2. CASE CreateCheck(r)
    BY <2>2, RegisteredSame, RegisteredOver DEF CreateCheck
  <2>3. CASE CreateGenerator(r)
    BY <2>3, RegisteredSame, RegisteredOver DEF CreateGenerator
  <2>4. CASE CreateEmbedder(r)
    BY <2>4, RegisteredSame, RegisteredOver DEF CreateEmbedder
  <2>5. CASE CreateInsert(r)
    BY <2>5, RegisteredSame, RegisteredOver DEF CreateInsert, Registered, EmptyInv
  <2>6. CASE Delete(r)
    BY <2>6, RegisteredSame, RegisteredOver DEF Delete, Registered
  <2>7. CASE DeleteClose(r)
    BY <2>7, RegisteredSame, RegisteredOver DEF DeleteClose
  <2>8. CASE LoadCheck(r)
    BY <2>8, RegisteredSame, RegisteredOver DEF LoadCheck
  <2>9. CASE LoadReferenced(r)
    BY <2>9, RegisteredSame, RegisteredOver DEF LoadReferenced
  <2>10. CASE UnloadCheck(r)
    BY <2>10, RegisteredSame, RegisteredOver DEF UnloadCheck
  <2>11. CASE Replace(r)
    BY <2>11, RegisteredSame, RegisteredOver DEF Replace
  <2>12. CASE LoadFails(r)
    BY <2>12, RegisteredSame, RegisteredOver DEF LoadFails
  <2>13. CASE Find(r)
    BY <2>13, RegisteredSame, RegisteredOver DEF Find
  <2>14. CASE ReadyGenerator(r)
    BY <2>14, RegisteredSame, RegisteredOver DEF ReadyGenerator
  <2>15. CASE ReadyEmbedder(r)
    BY <2>15, RegisteredSame, RegisteredOver DEF ReadyEmbedder
  <2>16. CASE Embed(r)
    BY <2>16, RegisteredSame, RegisteredOver DEF Embed, KeptUnlessRaced, Matches
  <2>17. CASE StoreAccess(r)
    BY <2>17, RegisteredSame, RegisteredOver, CollectionsAssumption DEF StoreAccess,
       Rows
  <2>. QED
    BY <1>1, <2>1, <2>2, <2>3, <2>4, <2>5, <2>6, <2>7, <2>8, <2>9, <2>10, <2>11, <2>12,
       <2>13, <2>14, <2>15, <2>16, <2>17 DEF RequestStep
<1>2. CASE UNCHANGED vars
  BY <1>2, RegisteredSame DEF vars
<1>. QED
  BY <1>1, <1>2 DEF Next

\* The initial states satisfy all of it.
LEMMA CollectionsInit ==
  ASSUME Init
  PROVE  CollectionsInv
<1>1. Registered = {}
  BY DEF Init, Registered
<1>2. Typed
  BY CollectionsAssumption DEF Init, Typed, Steps, Kinds, Unmade
<1>3. StepShape /\ HomeInv /\ ClosingInv /\ OwnedInv
  BY <1>1 DEF Init, StepShape, HomeInv, ClosingInv, OwnedInv, Creating, Working
<1>4. ModelsInv /\ KeptUnlessRaced /\ EmptyInv /\ OneEmbedding
  BY <1>1 DEF Init, ModelsInv, KeptUnlessRaced, EmptyInv, OneEmbedding
<1>. QED
  BY <1>2, <1>3, <1>4 DEF CollectionsInv

\* Every step keeps it.
LEMMA CollectionsNext ==
  ASSUME CollectionsInv, [Next]_vars
  PROVE  CollectionsInv'
BY TypedNext, ShapeNext, HomeNext, ClosingNext, OwnedNext, EmptyNext, ModelsNext,
   KeptNext,
   EmbeddingNext DEF CollectionsInv

\* CollectionsInv holds in every reachable state.
LEMMA CollectionsInvariant == Spec => []CollectionsInv
BY CollectionsInit, CollectionsNext, PTL DEF Spec

-----------------------------------------------------------------------------
\* No store is leaked and none is closed under a registered collection, for any
\* number of creations and deletions under way at once (RAGRegistry.create,
\* delete).
THEOREM StoresAlwaysOwned == Spec => []StoresOwned
<1>1. ASSUME CollectionsInv
      PROVE  TypeOK
  BY <1>1 DEF CollectionsInv, Typed, TypeOK
<1>2. ASSUME CollectionsInv
      PROVE  opened = Registered \cup {r \in Requests : pc[r] = "insert"}
                                 \cup {on[r] : r \in {q \in Requests : pc[q] = "close"}}
  <2>1. opened \subseteq Requests /\ Registered \subseteq Requests
    BY <1>2, RegisteredOver DEF CollectionsInv, Typed
  <2>2. \A q \in Requests : pc[q] = "close" => on[q] \in Requests
    BY <1>2 DEF CollectionsInv, StepShape
  <2>. QED
    BY <1>2, <2>1, <2>2 DEF CollectionsInv, OwnedInv
<1>3. CollectionsInv => StoresOwned
  BY <1>1, <1>2 DEF StoresOwned
<1>. QED
  BY <1>3, CollectionsInvariant, PTL

\* The two checks of the routes suffice: a collection created while no load or
\* unload of its models was under way keeps both, and the embedder's signature
\* (RAGRegistry.referenced_by, the routes that load and unload).
THEOREM CollectionsKept == Spec => []KeptUnlessRaced
<1>1. CollectionsInv => KeptUnlessRaced
  BY DEF CollectionsInv
<1>. QED
  BY <1>1, CollectionsInvariant, PTL

\* The vectors of such a collection, stored or about to be used, come from one
\* embedding model (RAGRegistry.get, _assert_ready).
THEOREM VectorsOfOneModel == Spec => []OneEmbedding
<1>1. CollectionsInv => OneEmbedding
  BY DEF CollectionsInv
<1>. QED
  BY <1>1, CollectionsInvariant, PTL

-----------------------------------------------------------------------------
(***************************************************************************)
(* FaissStore: what a batch names.                                         *)
(***************************************************************************)
\* Of the numbers that are in a set, one is the least, if any.
LEMMA LeastOf ==
  ASSUME NEW X \in SUBSET Nat, X # {}
  PROVE  \E k \in X : \A j \in X : k <= j
<1> DEFINE R == {p \in Nat \X Nat : p[1] < p[2]}
<1>1. IsWellFoundedOn(R, Nat)
  BY NatLessThanWellFounded DEF OpToRel
<1> HIDE DEF R
<1>2. PICK k \in X : \A j \in X : ~(<<j, k>> \in R)
  BY <1>1, WFMin
<1>3. \A j \in X : <<j, k>> \notin R => k <= j
  BY DEF R
<1> QED
  BY <1>2, <1>3

\* A set of positions has a first and a last one.
LEMMA Extremes ==
  ASSUME NEW n \in Nat, NEW X \in SUBSET (1..n), X # {}
  PROVE  /\ Min(X) \in X /\ \A j \in X : Min(X) <= j
         /\ Max(X) \in X
<1>1. \E k \in X : \A j \in X : k <= j
  <2>1. X \in SUBSET Nat
    OBVIOUS
  <2> QED
    BY <2>1, LeastOf
<1>2. \E k \in X : \A j \in X : k >= j
  <2> DEFINE Y == {m \in 0..n : n - m \in X}
  <2>1. Y \in SUBSET Nat /\ Y # {}
    <3>1. PICK x \in X : TRUE
      OBVIOUS
    <3>2. PICK m \in 0..n : m = n - x
      OBVIOUS
    <3>3. n - m = x
      BY <3>2
    <3>4. m \in Y
      BY <3>2, <3>3
    <3> QED
      BY <3>4
  <2>2. PICK m \in Y : \A j \in Y : m <= j
    <3> HIDE DEF Y
    <3> QED
      BY <2>1, LeastOf
  <2>3. \A j \in X : n - j \in Y
    <3>1. \A j \in X : n - j \in 0..n /\ n - (n - j) = j
      OBVIOUS
    <3> QED
      BY <3>1
  <2>4. m \in 0..n /\ n - m \in X /\ \A j \in X : m <= n - j
    BY <2>2, <2>3
  <2>5. \A j \in X : n - m >= j
    BY <2>4
  <2> QED
    BY <2>4, <2>5
<1>3. Min(X) \in X /\ \A j \in X : Min(X) <= j
  BY <1>1 DEF Min
<1>4. Max(X) \in X
  BY <1>2 DEF Max
<1> QED
  BY <1>3, <1>4

\* The documents that a batch names have places of their own, from the first on,
\* and a version of the batch's width each (upsert).
LEMMA BatchFacts ==
  ASSUME NEW batch \in Batches
  PROVE  /\ Named(batch) \subseteq Documents /\ Named(batch) # {}
         /\ Cardinality(Named(batch)) \in Nat /\ Width(batch) \in Widths
         /\ \A i \in Named(batch) :
              /\ Place(batch, i) \in 1..Cardinality(Named(batch))
              /\ Latest(batch, i) \in Versions /\ Latest(batch, i).width = Width(batch)
         /\ \A i, j \in Named(batch) : Place(batch, i) = Place(batch, j) => i = j
<1>1. PICK n \in Nat : /\ n # 0 /\ DOMAIN batch = 1..n
                       /\ \A k \in 1..n : batch[k] \in Documents \X Versions
  <2>1. PICK n \in 0..MaxBatch : batch \in [1..n -> Documents \X Versions] /\ batch # <<>>
    BY DEF Batches, SeqOf
  <2>2. n \in Nat
    BY <2>1, VectorAssumption
  <2>3. n # 0
    <3>1. ASSUME n = 0 PROVE FALSE
      <4>1. batch \in [1..0 -> Documents \X Versions] /\ 1..0 = {}
        BY <2>1, <3>1
      <4>2. batch = <<>>
        BY <4>1
      <4> QED
        BY <2>1, <4>2
    <3> QED
      BY <3>1
  <2> QED
    BY <2>1, <2>2, <2>3
<1>2. \A k, l \in 1..n : batch[k][2].width = batch[l][2].width
  BY <1>1 DEF Batches
<1>3. /\ Named(batch) = {batch[k][1] : k \in 1..n} /\ Named(batch) \subseteq Documents
      /\ batch[1][1] \in Named(batch)
  BY <1>1 DEF Named
<1>4. IsFiniteSet(Named(batch))
  <2>1. IsFiniteSet(1..n)
    BY FS_Interval
  <2> DEFINE named == [k \in 1..n |-> batch[k][1]]
  <2>2. named \in Surjection(1..n, Named(batch))
    BY <1>3 DEF Surjection
  <2> QED
    BY <2>1, <2>2, FS_Surjection
<1>5. Cardinality(Named(batch)) \in Nat
  BY <1>4, FS_CardinalityType
<1>6. ASSUME NEW i \in Named(batch)
      PROVE  /\ Occurrences(batch, i) \in SUBSET (1..n) /\ Occurrences(batch, i) # {}
             /\ \A k \in Occurrences(batch, i) : batch[k][1] = i
  BY <1>1, <1>3 DEF Occurrences
<1> DEFINE First(i) == Min(Occurrences(batch, i))
           Until(i) == {j \in Named(batch) : First(j) <= First(i)}
<1>7. ASSUME NEW i \in Named(batch)
      PROVE  First(i) \in 1..n /\ batch[First(i)][1] = i
  BY <1>6, Extremes
<1>8. ASSUME NEW i \in Named(batch)
      PROVE  Latest(batch, i) \in Versions /\ Latest(batch, i).width = Width(batch)
  <2>1. PICK k \in 1..n : k = Max(Occurrences(batch, i))
    BY <1>6, Extremes
  <2>2. Latest(batch, i) = batch[k][2] /\ batch[k] \in Documents \X Versions /\ 1 \in 1..n
    BY <1>1, <2>1 DEF Latest
  <2> QED
    BY <1>2, <2>2 DEF Width
<1>9. \A i \in Named(batch) : Place(batch, i) = Cardinality(Until(i))
  BY DEF Place
<1> HIDE DEF First
<1>10. ASSUME NEW i \in Named(batch)
       PROVE  IsFiniteSet(Until(i)) /\ Cardinality(Until(i)) \in 1..Cardinality(Named(batch))
  <2>1. Until(i) \subseteq Named(batch) /\ i \in Until(i)
    BY <1>7
  <2> HIDE DEF Until
  <2>2. IsFiniteSet(Until(i)) /\ Cardinality(Until(i)) <= Cardinality(Named(batch))
    BY <1>4, <2>1, FS_Subset
  <2>3. Cardinality(Until(i)) \in Nat /\ Cardinality(Until(i)) # 0
    BY <2>1, <2>2, FS_CardinalityType, FS_EmptySet
  <2> QED
    BY <1>5, <2>2, <2>3
<1>11. ASSUME NEW i \in Named(batch), NEW j \in Named(batch), First(i) < First(j)
       PROVE  Cardinality(Until(i)) # Cardinality(Until(j))
  <2>1. Until(i) \subseteq Until(j) /\ j \in Until(j) /\ j \notin Until(i)
    BY <1>7, <1>11
  <2>2. IsFiniteSet(Until(j))
    BY <1>10
  <2> HIDE DEF Until
  <2>3. Cardinality(Until(i)) = Cardinality(Until(j)) => Until(i) = Until(j)
    BY <2>1, <2>2, FS_Subset
  <2> QED
    BY <2>1, <2>3
<1>12. ASSUME NEW i \in Named(batch), NEW j \in Named(batch), Place(batch, i) = Place(batch, j)
       PROVE  i = j
  <2>1. First(i) \in Int /\ First(j) \in Int
    BY <1>7
  <2>2. ~(First(i) < First(j)) /\ ~(First(j) < First(i))
    BY <1>9, <1>11, <1>12
  <2>3. First(i) = First(j)
    BY <2>1, <2>2
  <2> QED
    BY <1>7, <2>3
<1>13. Width(batch) \in Widths
  BY <1>1 DEF Width, Widths
<1> HIDE DEF Until
<1> QED
  BY <1>3, <1>5, <1>8, <1>9, <1>10, <1>12, <1>13
-----------------------------------------------------------------------------
(***************************************************************************)
(* The index and its tables.                                               *)
(***************************************************************************)
\* IndexExact of a namespace that may be empty.
Exact(space) ==
  /\ space.index = {<<row[1], row[3]>> : row \in space.byNumber}
  /\ \A row, other \in space.byNumber : row[1] = other[1] => row = other
  /\ \A row \in space.byNumber :
       /\ row[1] \in 1..(space.next - 1)
       /\ row[3].width = space.width
       /\ space.byDocument[row[2]] = row[1]
  /\ \A i \in Documents : space.byDocument[i] # 0 =>
       \E row \in space.byNumber : row[1] = space.byDocument[i] /\ row[2] = i

SpacesInv ==
  /\ DOMAIN spaces = Namespaces
  /\ \A ns \in Namespaces : spaces[ns] # None =>
       spaces[ns] \in Spaces /\ Exact(spaces[ns]) /\ spaces[ns].byNumber # {}

\* A namespace's record with some of its fields replaced.
LEMMA ThreeReplaced ==
  ASSUME NEW space \in Spaces, NEW index, NEW byNumber, NEW byDocument, NEW new,
         new = [space EXCEPT !.index = index, !.byNumber = byNumber, !.byDocument = byDocument]
  PROVE  new = [width |-> space.width, index |-> index, byDocument |-> byDocument,
                byNumber |-> byNumber, next |-> space.next]
<1>1. new = [f \in DOMAIN new |-> new[f]]
  BY Zenon
<1>2. DOMAIN new = {"width", "index", "byDocument", "byNumber", "next"}
  BY DEF Spaces
<1>3. /\ new.width = space.width /\ new.index = index /\ new.byDocument = byDocument
      /\ new.byNumber = byNumber /\ new.next = space.next
  BY DEF Spaces
<1> QED
  BY <1>1, <1>2, <1>3

\* remove_ids and the removal of the rows in both tables agree.
LEMMA WithoutExact ==
  ASSUME NEW space \in Spaces, Exact(space),
         NEW ids \in SUBSET Documents
  PROVE  LET rest == Without(space, ids)
         IN  /\ rest \in Spaces /\ Exact(rest)
             /\ rest.width = space.width /\ rest.next = space.next
             /\ \A i \in ids : rest.byDocument[i] = 0
<1> DEFINE rest == Without(space, ids)
           numbers == {space.byDocument[i] : i \in ids}
           index == {entry \in space.index : entry[1] \notin numbers}
           byNumber == {row \in space.byNumber : row[1] \notin numbers}
           byDocument == [i \in Documents |-> IF i \in ids THEN 0 ELSE space.byDocument[i]]
<1>1. rest = [space EXCEPT !.index = index, !.byNumber = byNumber, !.byDocument = byDocument]
  BY DEF Without
<1> HIDE DEF rest
<1>2. rest \in Spaces /\ rest.width = space.width /\ rest.next = space.next
      /\ rest.index = index /\ rest.byNumber = byNumber /\ rest.byDocument = byDocument
  <2>1. index \subseteq space.index /\ byNumber \subseteq space.byNumber
        /\ (space.byDocument \in [Documents -> Nat] => byDocument \in [Documents -> Nat])
    OBVIOUS
  <2> HIDE DEF index, byNumber, byDocument
  <2>2. rest = [width |-> space.width, index |-> index, byDocument |-> byDocument,
                byNumber |-> byNumber, next |-> space.next]
    BY <1>1, ThreeReplaced
  <2> QED
    BY <2>1, <2>2 DEF Spaces
<1>3. rest.index = {<<row[1], row[3]>> : row \in rest.byNumber}
  <2>1. \A row : <<row[1], row[3]>>[1] = row[1]
    OBVIOUS
  <2> QED
    BY <1>2, <2>1 DEF Exact
<1>4. ASSUME NEW row \in rest.byNumber
      PROVE  /\ row[1] \in 1..(rest.next - 1) /\ row[3].width = rest.width
             /\ rest.byDocument[row[2]] = row[1]
  <2>1. row \in space.byNumber /\ row[1] \notin numbers /\ row[2] \in Documents
    BY <1>2 DEF Spaces
  <2>2. row[1] = space.byDocument[row[2]]
    BY <2>1 DEF Exact
  <2>3. row[2] \notin ids
    BY <2>1, <2>2
  <2> QED
    BY <1>2, <2>1, <2>2, <2>3 DEF Exact
<1>5. ASSUME NEW i \in Documents, rest.byDocument[i] # 0
      PROVE  \E row \in rest.byNumber : row[1] = rest.byDocument[i] /\ row[2] = i
  <2>1. i \notin ids /\ rest.byDocument[i] = space.byDocument[i]
    BY <1>2, <1>5
  <2>2. PICK row \in space.byNumber : row[1] = space.byDocument[i] /\ row[2] = i
    BY <1>5, <2>1 DEF Exact
  <2>3. row[1] \notin numbers
    <3>1. ASSUME NEW j \in ids, row[1] = space.byDocument[j] PROVE FALSE
      <4>1. PICK other \in space.byNumber : other[1] = space.byDocument[j] /\ other[2] = j
        BY <1>5, <2>1, <2>2, <3>1 DEF Exact
      <4>2. row = other
        BY <3>1, <4>1 DEF Exact
      <4> QED
        BY <2>1, <2>2, <4>1, <4>2
    <3> QED
      BY <3>1
  <2> QED
    BY <1>2, <2>1, <2>2, <2>3
<1>6. Exact(rest)
  <2>1. \A row, other \in rest.byNumber : row[1] = other[1] => row = other
    BY <1>2 DEF Exact
  <2> QED
    BY <1>3, <1>4, <1>5, <2>1 DEF Exact
<1> QED
  BY <1>2, <1>6 DEF rest

\* new is space with a row, number[i] and version[i], for each i of some documents
\* that had none.
Adds(space, new, ids, size, number, version) ==
  /\ ids \in SUBSET Documents /\ size \in Nat
  /\ number \in [ids -> Nat] /\ version \in [ids -> Versions]
  /\ \A i \in ids : /\ space.byDocument[i] = 0
                    /\ number[i] \in space.next..(space.next + size - 1)
                    /\ version[i].width = space.width
  /\ \A i, j \in ids : number[i] = number[j] => i = j
  /\ new = [width |-> space.width,
            index |-> space.index \cup {<<number[i], version[i]>> : i \in ids},
            byDocument |-> [i \in Documents |-> IF i \in ids THEN number[i]
                                                ELSE space.byDocument[i]],
            byNumber |-> space.byNumber \cup {<<number[i], i, version[i]>> : i \in ids},
            next |-> space.next + size]

\* Rows with new numbers keep the index and both tables in agreement.
LEMMA AddExact ==
  ASSUME NEW space \in Spaces, NEW new, NEW ids, NEW size, NEW number, NEW version,
         Exact(space), Adds(space, new, ids, size, number, version)
  PROVE  new \in Spaces /\ Exact(new)
<1> USE DEF Adds
<1>1. /\ space.next \in Nat \ {0} /\ space.byDocument \in [Documents -> Nat]
      /\ space.byNumber \subseteq Nat \X Documents \X Versions
  BY DEF Spaces
<1>2. new.next \in Nat \ {0}
  BY <1>1
<1>3. \A i \in ids : /\ number[i] \in Nat \ {0} /\ number[i] \in 1..(new.next - 1)
                     /\ \A n \in 1..(space.next - 1) : n # number[i] /\ n \in 1..(new.next - 1)
  BY <1>1
<1>4. new \in Spaces
  <2>1. new.byNumber \subseteq Nat \X Documents \X Versions
    BY <1>1, <1>3
  <2>2. new.byDocument \in [Documents -> Nat]
    BY <1>1, <1>3
  <2>3. new.index \subseteq Nat \X Versions
    BY <1>3 DEF Spaces
  <2> QED
    BY <1>2, <2>1, <2>2, <2>3 DEF Spaces
<1>5. ASSUME NEW row \in new.byNumber
      PROVE  \/ row \in space.byNumber /\ row[2] \notin ids /\ row[1] \in 1..(space.next - 1)
             \/ row[2] \in ids /\ row = <<number[row[2]], row[2], version[row[2]]>>
  <2>1. CASE row \in space.byNumber
    <3>1. row[1] \in 1..(space.next - 1) /\ space.byDocument[row[2]] = row[1]
      BY <2>1 DEF Exact
    <3> QED
      BY <1>1, <2>1, <3>1
  <2>2. CASE row \in {<<number[i], i, version[i]>> : i \in ids}
    BY <2>2
  <2> QED
    BY <2>1, <2>2
<1>6. ASSUME NEW row \in new.byNumber
      PROVE  /\ row[1] \in 1..(new.next - 1) /\ row[3].width = new.width
             /\ new.byDocument[row[2]] = row[1]
  <2>1. CASE row \in space.byNumber /\ row[2] \notin ids /\ row[1] \in 1..(space.next - 1)
    <3>1. row[3].width = space.width /\ space.byDocument[row[2]] = row[1] /\ row[2] \in Documents
      BY <1>1, <2>1 DEF Exact
    <3>2. row[1] \in 1..(new.next - 1)
      BY <1>1, <2>1
    <3> QED
      BY <2>1, <3>1, <3>2
  <2>2. CASE row[2] \in ids /\ row = <<number[row[2]], row[2], version[row[2]]>>
    <3>1. row[1] = number[row[2]] /\ row[3] = version[row[2]]
      BY <2>2
    <3> QED
      BY <1>3, <2>2, <3>1
  <2> QED
    BY <1>5, <2>1, <2>2
<1>7. ASSUME NEW row \in new.byNumber, NEW other \in new.byNumber, row[1] = other[1]
      PROVE  row = other
  <2>1. CASE row[2] \in ids /\ other[2] \in ids
    <3>1. row = <<number[row[2]], row[2], version[row[2]]>>
          /\ other = <<number[other[2]], other[2], version[other[2]]>>
      BY <1>5, <2>1
    <3>2. row[1] = number[row[2]] /\ other[1] = number[other[2]]
      BY <3>1
    <3>3. number[row[2]] = number[other[2]]
      BY <1>7, <3>2
    <3>4. row[2] = other[2]
      BY <2>1, <3>3
    <3> QED
      BY <3>1, <3>4
  <2>2. CASE row[2] \notin ids /\ other[2] \notin ids
    BY <1>5, <1>7, <2>2 DEF Exact
  <2>3. CASE row[2] \in ids /\ other[2] \notin ids
    <3>1. row[1] = number[row[2]] /\ other[1] \in 1..(space.next - 1)
      BY <1>5, <2>3
    <3> QED
      BY <1>3, <1>7, <2>3, <3>1
  <2>4. CASE row[2] \notin ids /\ other[2] \in ids
    <3>1. other[1] = number[other[2]] /\ row[1] \in 1..(space.next - 1)
      BY <1>5, <2>4
    <3> QED
      BY <1>3, <1>7, <2>4, <3>1
  <2> QED
    BY <2>1, <2>2, <2>3, <2>4
<1>8. new.index = {<<row[1], row[3]>> : row \in new.byNumber}
  <2>1. {<<row[1], row[3]>> : row \in {<<number[i], i, version[i]>> : i \in ids}}
          = {<<number[i], version[i]>> : i \in ids}
    <3> DEFINE added == {<<number[i], i, version[i]>> : i \in ids}
    <3>1. ASSUME NEW row \in added
          PROVE  \E i \in ids : <<row[1], row[3]>> = <<number[i], version[i]>>
      OBVIOUS
    <3>2. ASSUME NEW i \in ids
          PROVE  \E row \in added : <<row[1], row[3]>> = <<number[i], version[i]>>
      <4>1. <<number[i], i, version[i]>> \in added
        OBVIOUS
      <4>2. <<number[i], i, version[i]>>[1] = number[i]
            /\ <<number[i], i, version[i]>>[3] = version[i]
        OBVIOUS
      <4> HIDE DEF added
      <4> QED
        BY <4>1, <4>2
    <3> HIDE DEF added
    <3>3. {<<row[1], row[3]>> : row \in added} = {<<number[i], version[i]>> : i \in ids}
      BY <3>1, <3>2
    <3> QED
      BY <3>3 DEF added
  <2> QED
    BY <2>1 DEF Exact
<1>9. ASSUME NEW i \in Documents, new.byDocument[i] # 0
      PROVE  \E row \in new.byNumber : row[1] = new.byDocument[i] /\ row[2] = i
  <2>1. CASE i \in ids
    <3>1. <<number[i], i, version[i]>> \in new.byNumber /\ new.byDocument[i] = number[i]
      BY <2>1
    <3>2. <<number[i], i, version[i]>>[1] = number[i] /\ <<number[i], i, version[i]>>[2] = i
      OBVIOUS
    <3> QED
      BY <3>1, <3>2
  <2>2. CASE i \notin ids
    <3>1. new.byDocument[i] = space.byDocument[i]
      BY <2>2
    <3> QED
      BY <1>9, <3>1 DEF Exact
  <2> QED
    BY <2>1, <2>2
<1>10. Exact(new)
  BY <1>6, <1>7, <1>8, <1>9 DEF Exact
<1> QED
  BY <1>4, <1>10

\* A namespace that is made.
LEMMA FreshExact ==
  ASSUME NEW width \in Widths
  PROVE  Fresh(width) \in Spaces /\ Exact(Fresh(width)) /\ Fresh(width).width = width
BY DEF Fresh, Spaces, Exact

\* The invariant holds at first,
LEMMA SpacesInit ==
  ASSUME FaissInit
  PROVE  SpacesInv
BY DEF FaissInit, SpacesInv

\* A namespace that is replaced by one that is exact, or goes.
LEMMA SpaceReplaced ==
  ASSUME SpacesInv, NEW ns \in Namespaces, NEW new, spaces' = [spaces EXCEPT ![ns] = new],
         new # None => /\ new \in Spaces /\ Exact(new) /\ new.byNumber # {}
  PROVE  SpacesInv'
<1>1. DOMAIN spaces' = Namespaces /\ spaces'[ns] = new
      /\ \A m \in Namespaces \ {ns} : spaces'[m] = spaces[m]
  BY DEF SpacesInv
<1>2. ASSUME NEW m \in Namespaces, spaces'[m] # None
      PROVE  spaces'[m] \in Spaces /\ Exact(spaces'[m]) /\ spaces'[m].byNumber # {}
  <2>1. CASE m = ns
    BY <1>1, <1>2, <2>1
  <2>2. CASE m # ns
    <3>1. spaces'[m] = spaces[m]
      BY <1>1, <2>2
    <3> QED
      BY <1>2, <3>1 DEF SpacesInv
  <2> QED
    BY <2>1, <2>2
<1> QED
  BY <1>1, <1>2 DEF SpacesInv, Spaces, Exact

\* The namespace that an upsert finds or makes.
Opened(ns, batch) == IF spaces[ns] = None THEN Fresh(Width(batch)) ELSE spaces[ns]

\* new is what an upsert of a batch makes of space.
Upserted(space, new, batch) ==
  \E number : Adds(Without(space, Named(batch)), new, Named(batch), Cardinality(Named(batch)),
                   number, [i \in Named(batch) |-> Latest(batch, i)])

\* An upsert raises, or adds a row for each document that it names.
LEMMA UpsertAdds ==
  ASSUME SpacesInv, NEW t, NEW ns \in Namespaces, NEW batch \in Batches, Upsert(t, ns, batch)
  PROVE  \/ UNCHANGED spaces /\ reply' = <<"raised">>
         \/ /\ Opened(ns, batch) \in Spaces /\ Exact(Opened(ns, batch))
            /\ reply' = <<"count", Len(batch)>>
            /\ \E new : /\ spaces' = [spaces EXCEPT ![ns] = new]
                        /\ Upserted(Opened(ns, batch), new, batch)
<1> DEFINE space == Opened(ns, batch)
           ids == Named(batch)
           rest == Without(space, ids)
           size == Cardinality(ids)
           number == [i \in ids |-> space.next + Place(batch, i) - 1]
           version == [i \in ids |-> Latest(batch, i)]
           index == rest.index \cup {<<number[i], version[i]>> : i \in ids}
           byNumber == rest.byNumber \cup {<<number[i], i, version[i]>> : i \in ids}
           byDocument == [i \in Documents |-> IF i \in ids THEN number[i]
                                              ELSE rest.byDocument[i]]
           next == rest.next + size
           new == [rest EXCEPT !.index = index, !.byNumber = byNumber,
                               !.byDocument = byDocument, !.next = next]
<1>1. \/ UNCHANGED spaces /\ reply' = <<"raised">>
      \/ /\ space.width = Width(batch) /\ spaces' = [spaces EXCEPT ![ns] = new]
         /\ reply' = <<"count", Len(batch)>>
  BY DEF Upsert, Opened
<1>2. /\ ids \in SUBSET Documents /\ size \in Nat /\ Width(batch) \in Widths
      /\ \A i \in ids : /\ Place(batch, i) \in 1..size
                        /\ Latest(batch, i) \in Versions /\ Latest(batch, i).width = Width(batch)
      /\ \A i, j \in ids : Place(batch, i) = Place(batch, j) => i = j
  BY BatchFacts
<1>3. space \in Spaces /\ Exact(space)
  BY <1>2, FreshExact DEF SpacesInv, Opened
<1> HIDE DEF space, ids
<1>4. /\ rest \in Spaces
      /\ rest.width = space.width /\ rest.next = space.next
      /\ \A i \in ids : rest.byDocument[i] = 0
  BY <1>2, <1>3, WithoutExact
<1> HIDE DEF rest, size
<1>5. CASE /\ space.width = Width(batch) /\ spaces' = [spaces EXCEPT ![ns] = new]
           /\ reply' = <<"count", Len(batch)>>
  <2>1. rest.next \in Nat \ {0}
    BY <1>4 DEF Spaces
  <2>2. /\ number \in [ids -> Nat] /\ version \in [ids -> Versions]
        /\ \A i \in ids : /\ number[i] \in rest.next..(rest.next + size - 1)
                          /\ version[i].width = rest.width
        /\ \A i, j \in ids : number[i] = number[j] => i = j
    <3>1. \A i \in ids : number[i] = rest.next + Place(batch, i) - 1
      BY <1>4
    <3>2. \A i \in ids : number[i] \in rest.next..(rest.next + size - 1) /\ number[i] \in Nat
      BY <1>2, <2>1, <3>1
    <3>3. \A i, j \in ids : number[i] = number[j] => i = j
      BY <1>2, <2>1, <3>1
    <3> QED
      BY <1>2, <1>4, <1>5, <3>2, <3>3
  <2> HIDE DEF number, version, index, byNumber, byDocument, next
  <2>3. new = [rest EXCEPT !.index = index, !.byNumber = byNumber, !.byDocument = byDocument,
                           !.next = next]
    OBVIOUS
  <2> HIDE DEF new
  <2>4. new = [width |-> rest.width, index |-> index, byDocument |-> byDocument,
               byNumber |-> byNumber, next |-> next]
    <3>1. new = [f \in DOMAIN new |-> new[f]]
      BY <2>3, Zenon
    <3>2. DOMAIN new = {"width", "index", "byDocument", "byNumber", "next"}
      BY <1>4, <2>3 DEF Spaces
    <3>3. /\ new.width = rest.width /\ new.index = index /\ new.byDocument = byDocument
          /\ new.byNumber = byNumber /\ new.next = next
      BY <1>4, <2>3 DEF Spaces
    <3> QED
      BY <3>1, <3>2, <3>3
  <2>5. Adds(rest, new, ids, size, number, version)
    BY <1>2, <1>4, <2>2, <2>4 DEF Adds, index, byNumber, byDocument, next
  <2>6. Upserted(space, new, batch)
    BY <2>5 DEF Upserted, version, rest, size, ids
  <2> QED
    BY <1>3, <1>5, <2>6 DEF space
<1> QED
  BY <1>1, <1>5 DEF space

\* What an upsert makes of a namespace is exact, and holds documents.
LEMMA UpsertedExact ==
  ASSUME NEW space \in Spaces, Exact(space), NEW batch \in Batches, NEW new,
         Upserted(space, new, batch)
  PROVE  new \in Spaces /\ Exact(new) /\ new.byNumber # {}
<1> DEFINE ids == Named(batch)
           rest == Without(space, ids)
           version == [i \in ids |-> Latest(batch, i)]
<1>1. PICK number : Adds(rest, new, ids, Cardinality(ids), number, version)
  BY DEF Upserted
<1>2. ids \in SUBSET Documents /\ ids # {}
  BY BatchFacts
<1> HIDE DEF ids
<1>3. rest \in Spaces /\ Exact(rest)
  BY <1>2, WithoutExact
<1> HIDE DEF rest, version
<1>4. new \in Spaces /\ Exact(new)
  BY <1>1, <1>3, AddExact
<1>5. PICK i \in ids : TRUE
  BY <1>2
<1>6. <<number[i], i, version[i]>> \in new.byNumber
  BY <1>1 DEF Adds
<1> QED
  BY <1>4, <1>6

\* An upsert keeps the invariant,
LEMMA UpsertExact ==
  ASSUME SpacesInv, NEW t, NEW ns \in Namespaces, NEW batch \in Batches, Upsert(t, ns, batch)
  PROVE  SpacesInv'
<1>1. CASE UNCHANGED spaces
  BY <1>1 DEF SpacesInv
<1>2. ASSUME Opened(ns, batch) \in Spaces, Exact(Opened(ns, batch)), NEW new,
             spaces' = [spaces EXCEPT ![ns] = new], Upserted(Opened(ns, batch), new, batch)
      PROVE  SpacesInv'
  BY <1>2, UpsertedExact, SpaceReplaced
<1> QED
  BY <1>1, <1>2, UpsertAdds

\* ... and so does a deletion,
LEMMA DeleteExact ==
  ASSUME SpacesInv, NEW t, NEW ns \in Namespaces, NEW ids \in SUBSET Documents,
         DeleteIds(t, ns, ids)
  PROVE  SpacesInv'
<1> DEFINE selected == {i \in ids : spaces[ns].byDocument[i] # 0}
           rest == Without(spaces[ns], selected)
<1>1. \/ UNCHANGED spaces
      \/ /\ spaces[ns] # None
         /\ spaces' = [spaces EXCEPT ![ns] = IF rest.byNumber = {} THEN None ELSE rest]
  BY DEF DeleteIds
<1>2. CASE UNCHANGED spaces
  BY <1>2 DEF SpacesInv
<1>3. CASE /\ spaces[ns] # None
           /\ spaces' = [spaces EXCEPT ![ns] = IF rest.byNumber = {} THEN None ELSE rest]
  <2>1. spaces[ns] \in Spaces /\ Exact(spaces[ns])
    BY <1>3 DEF SpacesInv
  <2>2. selected \in SUBSET Documents
    OBVIOUS
  <2> HIDE DEF selected
  <2>3. rest \in Spaces /\ Exact(rest)
    BY <2>1, <2>2, WithoutExact
  <2> HIDE DEF rest
  <2> QED
    BY <1>3, <2>3, SpaceReplaced
<1> QED
  BY <1>1, <1>2, <1>3

\* ... and every step keeps it.
LEMMA SpacesNext == SpacesInv /\ [FaissNext]_faissVars => SpacesInv'
<1> SUFFICES ASSUME SpacesInv, [FaissNext]_faissVars PROVE SpacesInv'
  OBVIOUS
<1>1. CASE UNCHANGED spaces
  BY <1>1 DEF SpacesInv
<1>2. ASSUME NEW t \in Threads, NEW ns \in Namespaces, NEW batch \in Batches,
             Upsert(t, ns, batch)
      PROVE  SpacesInv'
  BY <1>2, UpsertExact
<1>3. ASSUME NEW t \in Threads, NEW ns \in Namespaces, NEW ids \in SUBSET Documents,
             DeleteIds(t, ns, ids)
      PROVE  SpacesInv'
  BY <1>3, DeleteExact
<1>4. CASE Close
  BY <1>4 DEF Close, SpacesInv
<1>5. \A t, ns, filters, limit, width :
        Enter(t) \/ Search(t, ns, filters, limit, width) \/ Count(t, ns) => UNCHANGED spaces
  BY DEF Enter, Search, Count
<1>6. UNCHANGED faissVars => UNCHANGED spaces
  BY DEF faissVars
<1> QED
  BY <1>1, <1>2, <1>3, <1>4, <1>5, <1>6 DEF FaissNext

\* The index of a namespace and its two tables tell the same story after any
\* upserts, replacements and deletions, of any documents in any batches
\* (faiss_store.py, upsert and delete).
THEOREM IndexAlwaysExact == FaissSpec => []IndexExact
<1>1. SpacesInv => IndexExact
  BY DEF SpacesInv, Exact, IndexExact
<1> QED
  BY <1>1, SpacesInit, SpacesNext, PTL DEF FaissSpec

-----------------------------------------------------------------------------
(***************************************************************************)
(* FaissStore keeps the promises of VectorStore.                           *)
(***************************************************************************)
\* The contract counts as the store does,
LEMMA SameCardinality == \A S : Contract!Cardinality(S) = Cardinality(S)
BY DEF Contract!Cardinality, Cardinality

\* ... ranks as the store does,
LEMMA SameBest == \A S, k : Contract!Best(S, k) = Best(S, k)
<1>1. \A member : Contract!Score(member) = Score(member)
  BY DEF Contract!Score, Score
<1>2. \A S, k : Contract!kSubset(k, S) = kSubset(k, S)
  BY SameCardinality DEF Contract!kSubset, kSubset
<1> SUFFICES ASSUME NEW S, NEW k PROVE Contract!Best(S, k) = Best(S, k)
  OBVIOUS
<1> DEFINE size == IF k < Cardinality(S) THEN k ELSE Cardinality(S)
<1>3. Contract!Best(S, k)
        = {top \in Contract!kSubset(size, S) :
             \A member \in top, other \in S \ top :
                Contract!Score(member) >= Contract!Score(other)}
  BY SameCardinality DEF Contract!Best
<1>4. Best(S, k) = {top \in kSubset(size, S) :
                      \A member \in top, other \in S \ top : Score(member) >= Score(other)}
  BY DEF Best
<1> HIDE DEF size
<1> QED
  BY <1>1, <1>2, <1>3, <1>4

\* ... and means the same by a batch and its rows.
LEMMA SameBatches ==
  /\ Contract!Batches = Batches
  /\ \A batch, i : Contract!Latest(batch, i) = Latest(batch, i)
  /\ \A batch : Contract!Named(batch) = Named(batch)
  /\ \A held : Contract!Stored(held) = Stored(held)
  /\ \A held, ids : Contract!Pairs(held, ids) = Pairs(held, ids)
  /\ \A version, filters : Contract!Passes(version, filters) = Passes(version, filters)
  /\ Contract!Empty = Empty /\ Contract!Filters = Filters /\ Contract!Widths = Widths
<1>1. Contract!Batches = Batches
  BY DEF Contract!Batches, Batches, Contract!SeqOf, SeqOf
<1>2. ASSUME NEW batch, NEW i PROVE Contract!Latest(batch, i) = Latest(batch, i)
  BY DEF Contract!Latest, Latest, Contract!Occurrences, Occurrences, Contract!Max, Max
<1>3. \A batch : Contract!Named(batch) = Named(batch)
  BY DEF Contract!Named, Named
<1>4. \A held : Contract!Stored(held) = Stored(held)
  BY DEF Contract!Stored, Stored
<1>5. ASSUME NEW held, NEW ids PROVE Contract!Pairs(held, ids) = Pairs(held, ids)
  BY DEF Contract!Pairs, Pairs
<1>6. ASSUME NEW version, NEW filters
      PROVE  Contract!Passes(version, filters) = Passes(version, filters)
  BY DEF Contract!Passes, Passes
<1>7. Contract!Empty = Empty /\ Contract!Filters = Filters /\ Contract!Widths = Widths
  BY DEF Contract!Empty, Empty, Contract!Filters, Filters, Contract!Tags, Tags,
         Contract!Widths, Widths
<1> QED
  BY <1>1, <1>2, <1>3, <1>4, <1>5, <1>6, <1>7

\* What a namespace holds is what the rows of its table say.
LEMMA ContentsRows ==
  ASSUME NEW space \in Spaces, Exact(space)
  PROVE  /\ \A row \in space.byNumber :
              /\ row \in Nat \X Documents \X Versions
              /\ row[1] = space.byDocument[row[2]] /\ space.byDocument[row[2]] # 0
              /\ Contents(space)[row[2]] = row[3]
         /\ \A i \in Documents : space.byDocument[i] # 0 =>
              \E row \in space.byNumber : row[2] = i
         /\ \A i \in Documents : Contents(space)[i] # None <=> space.byDocument[i] # 0
<1>1. space # None
  BY FaissAssumption
<1>2. space.byNumber \subseteq Nat \X Documents \X Versions
  BY DEF Spaces
<1>3. ASSUME NEW row \in space.byNumber
      PROVE  /\ row[1] = space.byDocument[row[2]] /\ space.byDocument[row[2]] # 0
             /\ Contents(space)[row[2]] = row[3]
  <2>1. row[1] = space.byDocument[row[2]] /\ row[1] \in 1..(space.next - 1)
    BY DEF Exact
  <2>2. space.byDocument[row[2]] # 0 /\ row[2] \in Documents
    BY <1>2, <2>1
  <2>3. \A other \in space.byNumber : other[1] = space.byDocument[row[2]] => other = row
    BY <2>1 DEF Exact
  <2>4. (CHOOSE other \in space.byNumber : other[1] = space.byDocument[row[2]]) = row
    BY <2>1, <2>3
  <2>5. Contents(space)[row[2]]
          = (CHOOSE other \in space.byNumber : other[1] = space.byDocument[row[2]])[3]
    BY <1>1, <2>2 DEF Contents
  <2> QED
    BY <2>1, <2>2, <2>4, <2>5
<1>4. ASSUME NEW i \in Documents, space.byDocument[i] # 0
      PROVE  \E row \in space.byNumber : row[2] = i
  BY <1>4 DEF Exact
<1>5. ASSUME NEW i \in Documents
      PROVE  Contents(space)[i] # None <=> space.byDocument[i] # 0
  <2>1. CASE space.byDocument[i] = 0
    BY <2>1 DEF Contents
  <2>2. CASE space.byDocument[i] # 0
    <3>1. PICK row \in space.byNumber : row[2] = i
      BY <1>4, <2>2
    <3>2. Contents(space)[i] = row[3] /\ row[3] \in Versions
      BY <1>2, <1>3, <3>1
    <3> QED
      BY <2>2, <3>2, VectorAssumption
  <2> QED
    BY <2>1, <2>2
<1> QED
  BY <1>2, <1>3, <1>4, <1>5

\* A document whose number and row do not change keeps its version.
LEMMA ContentsKept ==
  ASSUME NEW space \in Spaces, Exact(space), NEW new \in Spaces, Exact(new),
         NEW i \in Documents, new.byDocument[i] = space.byDocument[i],
         \A row \in space.byNumber : row[2] = i => row \in new.byNumber
  PROVE  Contents(new)[i] = Contents(space)[i]
<1>1. CASE space.byDocument[i] = 0
  BY <1>1 DEF Contents
<1>2. CASE space.byDocument[i] # 0
  <2>1. PICK row \in space.byNumber : row[2] = i
    BY <1>2, ContentsRows
  <2>2. row \in new.byNumber
    BY <2>1
  <2> QED
    BY <2>1, <2>2, ContentsRows
<1> QED
  BY <1>1, <1>2

\* Documents that are taken out are gone, and no other.
LEMMA WithoutContents ==
  ASSUME NEW space \in Spaces, Exact(space), NEW ids \in SUBSET Documents
  PROVE  Contents(Without(space, ids))
           = [i \in Documents |-> IF i \in ids THEN None ELSE Contents(space)[i]]
<1> DEFINE rest == Without(space, ids)
           numbers == {space.byDocument[i] : i \in ids}
<1>1. /\ rest \in Spaces /\ Exact(rest) /\ \A i \in ids : rest.byDocument[i] = 0
  BY WithoutExact
<1>2. /\ rest.byNumber = {row \in space.byNumber : row[1] \notin numbers}
      /\ rest.byDocument = [i \in Documents |-> IF i \in ids THEN 0 ELSE space.byDocument[i]]
  BY DEF Without, Spaces
<1> HIDE DEF rest
<1>3. ASSUME NEW i \in ids PROVE Contents(rest)[i] = None
  BY <1>1 DEF Contents
<1>4. ASSUME NEW i \in Documents \ ids PROVE Contents(rest)[i] = Contents(space)[i]
  <2>1. rest.byDocument[i] = space.byDocument[i]
    BY <1>2
  <2>2. ASSUME NEW row \in space.byNumber, row[2] = i PROVE row \in rest.byNumber
    <3>1. ASSUME NEW j \in ids, row[1] = space.byDocument[j] PROVE FALSE
      <4>1. space.byDocument[j] # 0
        BY <3>1, ContentsRows
      <4>2. PICK other \in space.byNumber : other[2] = j
        BY <4>1, ContentsRows
      <4>3. other[1] = row[1]
        BY <3>1, <4>2, ContentsRows
      <4>4. other = row
        BY <4>3 DEF Exact
      <4> QED
        BY <2>2, <4>2, <4>4
    <3> QED
      BY <1>2, <3>1
  <2> QED
    BY <1>1, <2>1, <2>2, ContentsKept
<1>5. Contents(rest) = [i \in Documents |-> Contents(rest)[i]]
  BY DEF Contents
<1>6. Contents(rest) = [i \in Documents |-> IF i \in ids THEN None ELSE Contents(space)[i]]
  BY <1>3, <1>4, <1>5
<1> QED
  BY <1>6 DEF rest

\* Rows that are added bring their versions.
LEMMA AddContents ==
  ASSUME NEW space \in Spaces, NEW new, NEW ids, NEW size, NEW number, NEW version,
         Exact(space), Adds(space, new, ids, size, number, version)
  PROVE  Contents(new)
           = [i \in Documents |-> IF i \in ids THEN version[i] ELSE Contents(space)[i]]
<1>1. new \in Spaces /\ Exact(new)
  BY AddExact
<1>2. /\ ids \in SUBSET Documents
      /\ new.byNumber = space.byNumber \cup {<<number[i], i, version[i]>> : i \in ids}
      /\ new.byDocument = [i \in Documents |-> IF i \in ids THEN number[i]
                                               ELSE space.byDocument[i]]
  BY DEF Adds
<1>3. ASSUME NEW i \in ids PROVE Contents(new)[i] = version[i]
  <2>1. <<number[i], i, version[i]>> \in new.byNumber
    BY <1>2
  <2>2. <<number[i], i, version[i]>>[2] = i /\ <<number[i], i, version[i]>>[3] = version[i]
    OBVIOUS
  <2> QED
    BY <1>1, <2>1, <2>2, ContentsRows
<1>4. ASSUME NEW i \in Documents \ ids PROVE Contents(new)[i] = Contents(space)[i]
  <2>1. new.byDocument[i] = space.byDocument[i] /\ space.byNumber \subseteq new.byNumber
    BY <1>2
  <2> QED
    BY <1>1, <2>1, ContentsKept
<1>5. Contents(new) = [i \in Documents |-> Contents(new)[i]]
  BY DEF Contents
<1> QED
  BY <1>3, <1>4, <1>5

\* A set has as many members as another of which each stands for one of its own.
LEMMA Matched ==
  ASSUME NEW S, IsFiniteSet(S), NEW T, NEW f \in [S -> T],
         \A x, y \in S : f[x] = f[y] => x = y, \A t \in T : \E x \in S : f[x] = t
  PROVE  IsFiniteSet(T) /\ Cardinality(T) = Cardinality(S)
<1>1. f \in Bijection(S, T)
  BY DEF Bijection, Injection, IsInjective, Surjection
<1>2. ExistsBijection(S, T)
  BY <1>1 DEF ExistsBijection
<1> QED
  BY <1>2, FS_Bijection

\* The rows of a table are as many as their entries in the index, as their
\* documents, and as the pairs of a document and its version.
LEMMA RowsCounted ==
  ASSUME NEW space \in Spaces, Exact(space), NEW some \in SUBSET space.byNumber
  PROVE  /\ IsFiniteSet(some) /\ Cardinality(some) \in Nat
         /\ IsFiniteSet({<<row[1], row[3]>> : row \in some})
         /\ Cardinality({<<row[1], row[3]>> : row \in some}) = Cardinality(some)
         /\ IsFiniteSet({<<row[2], row[3]>> : row \in some})
         /\ Cardinality({<<row[2], row[3]>> : row \in some}) = Cardinality(some)
         /\ Cardinality({row[2] : row \in some}) = Cardinality(some)
<1>1. \A row, other \in some :
        /\ row[1] = other[1] => row = other
        /\ row[2] = other[2] => row = other
  BY ContentsRows DEF Exact
<1>2. IsFiniteSet(some) /\ Cardinality(some) \in Nat
  <2> DEFINE numbered == [row \in some |-> row[1]]
             numbers == 1..(space.next - 1)
  <2>1. \A row \in some : numbered[row] = row[1] /\ row[1] \in numbers
    BY DEF Exact
  <2>2. numbered \in [some -> numbers]
    BY <2>1
  <2>3. \A row, other \in some : numbered[row] = numbered[other] => row = other
    BY <1>1, <2>1
  <2>4. IsFiniteSet(numbers)
    <3>1. space.next - 1 \in Int
      BY DEF Spaces
    <3> QED
      BY <3>1, FS_Interval
  <2> HIDE DEF numbered, numbers
  <2>5. numbered \in Injection(some, numbers)
    BY <2>2, <2>3 DEF Injection, IsInjective
  <2> QED
    BY <2>4, <2>5, FS_Injection, FS_CardinalityType
<1>3. /\ IsFiniteSet({<<row[1], row[3]>> : row \in some})
      /\ Cardinality({<<row[1], row[3]>> : row \in some}) = Cardinality(some)
  <2> DEFINE T == {<<row[1], row[3]>> : row \in some}
             f == [row \in some |-> <<row[1], row[3]>>]
  <2>1. \A row \in some : f[row] = <<row[1], row[3]>> /\ f[row][1] = row[1]
    OBVIOUS
  <2>2. f \in [some -> T] /\ \A t \in T : \E row \in some : f[row] = t
    OBVIOUS
  <2> HIDE DEF T, f
  <2>3. \A row, other \in some : f[row] = f[other] => row = other
    BY <1>1, <2>1
  <2>4. IsFiniteSet(T) /\ Cardinality(T) = Cardinality(some)
    BY <1>2, <2>2, <2>3, Matched
  <2> QED
    BY <2>4 DEF T
<1>4. /\ IsFiniteSet({<<row[2], row[3]>> : row \in some})
      /\ Cardinality({<<row[2], row[3]>> : row \in some}) = Cardinality(some)
  <2> DEFINE T == {<<row[2], row[3]>> : row \in some}
             f == [row \in some |-> <<row[2], row[3]>>]
  <2>1. \A row \in some : f[row] = <<row[2], row[3]>> /\ f[row][1] = row[2]
    OBVIOUS
  <2>2. f \in [some -> T] /\ \A t \in T : \E row \in some : f[row] = t
    OBVIOUS
  <2> HIDE DEF T, f
  <2>3. \A row, other \in some : f[row] = f[other] => row = other
    BY <1>1, <2>1
  <2>4. IsFiniteSet(T) /\ Cardinality(T) = Cardinality(some)
    BY <1>2, <2>2, <2>3, Matched
  <2> QED
    BY <2>4 DEF T
<1>5. Cardinality({row[2] : row \in some}) = Cardinality(some)
  <2> DEFINE T == {row[2] : row \in some}
             f == [row \in some |-> row[2]]
  <2>1. \A row \in some : f[row] = row[2]
    OBVIOUS
  <2>2. f \in [some -> T] /\ \A t \in T : \E row \in some : f[row] = t
    OBVIOUS
  <2> HIDE DEF T, f
  <2>3. \A row, other \in some : f[row] = f[other] => row = other
    BY <1>1, <2>1
  <2>4. Cardinality(T) = Cardinality(some)
    BY <1>2, <2>2, <2>3, Matched
  <2> QED
    BY <2>4 DEF T
<1> QED
  BY <1>2, <1>3, <1>4, <1>5

\* The best of no more than are asked for are all.
LEMMA BestOfFew ==
  ASSUME NEW S, IsFiniteSet(S), NEW k \in Nat, Cardinality(S) <= k
  PROVE  \A top : top \in Best(S, k) <=> top = S
<1>1. Cardinality(S) \in Nat
  BY FS_CardinalityType
<1>2. Best(S, k) = {top \in kSubset(Cardinality(S), S) :
                      \A member \in top, other \in S \ top : Score(member) >= Score(other)}
  BY <1>1 DEF Best
<1>3. \A top : top \in kSubset(Cardinality(S), S) <=> top = S
  BY FS_Subset DEF kSubset
<1> QED
  BY <1>2, <1>3

\* What outscores what is a matter of the versions.
LEMMA PairScore == \A a, version : Score(<<a, version>>) = version.score
BY DEF Score

\* The best entries of the index are those of the best documents.
LEMMA HitsBest ==
  ASSUME NEW space \in Spaces, Exact(space),
         NEW limit \in Nat, limit <= Cardinality(space.byNumber),
         NEW hits \in Best(space.index, limit), NEW found,
         found = {row \in space.byNumber : \E entry \in hits : entry[1] = row[1]}
  PROVE  /\ Cardinality({<<row[2], row[3]>> : row \in found}) = limit
         /\ {<<row[2], row[3]>> : row \in found}
              \in Best({<<row[2], row[3]>> : row \in space.byNumber}, limit)
<1> DEFINE Entry(row) == <<row[1], row[3]>>
           Pair(row) == <<row[2], row[3]>>
           pairs == {Pair(row) : row \in found}
           all == {Pair(row) : row \in space.byNumber}
<1>1. space.index = {Entry(row) : row \in space.byNumber}
      /\ \A row, other \in space.byNumber : row[1] = other[1] => row = other
  BY DEF Exact
<1>2. /\ Cardinality(space.index) = Cardinality(space.byNumber)
      /\ Cardinality(all) = Cardinality(space.byNumber)
      /\ Cardinality(space.byNumber) \in Nat
  BY <1>1, RowsCounted
<1>3. /\ hits \subseteq space.index /\ Cardinality(hits) = limit
      /\ \A member \in hits, other \in space.index \ hits : Score(member) >= Score(other)
  BY <1>2 DEF Best, kSubset
<1>4. \A row : Entry(row)[1] = row[1]
  OBVIOUS
<1>5. \A row \in space.byNumber : row \in found <=> Entry(row) \in hits
  <2>1. ASSUME NEW row \in space.byNumber, NEW entry \in hits, entry[1] = row[1]
        PROVE  entry = Entry(row)
    <3>1. PICK other \in space.byNumber : entry = Entry(other)
      BY <1>1, <1>3
    <3>2. other[1] = row[1]
      BY <1>4, <2>1, <3>1
    <3> QED
      BY <1>1, <3>1, <3>2
  <2> QED
    BY <1>4, <2>1
<1>6. hits = {Entry(row) : row \in found}
  <2>1. found \subseteq space.byNumber
    OBVIOUS
  <2> HIDE DEF Entry
  <2> QED
    BY <1>1, <1>3, <1>5, <2>1
<1>7. found \in SUBSET space.byNumber
  OBVIOUS
<1>8. Cardinality(pairs) = limit
  BY <1>3, <1>6, <1>7, RowsCounted
<1>9. pairs \in kSubset(limit, all)
  BY <1>7, <1>8 DEF kSubset
<1>10. ASSUME NEW member \in pairs, NEW other \in all \ pairs
       PROVE  Score(member) >= Score(other)
  <2>1. PICK r \in found : member = Pair(r)
    OBVIOUS
  <2>2. PICK o \in space.byNumber : other = Pair(o) /\ o \notin found
    OBVIOUS
  <2>3. Entry(r) \in hits /\ Entry(o) \in space.index \ hits
    BY <1>1, <1>5, <1>7, <2>1, <2>2
  <2>4. Score(Entry(r)) >= Score(Entry(o))
    BY <1>3, <2>3
  <2>5. Score(Entry(r)) = Score(member) /\ Score(Entry(o)) = Score(other)
    BY <2>1, <2>2, PairScore
  <2> QED
    BY <2>4, <2>5
<1>11. (IF limit < Cardinality(all) THEN limit ELSE Cardinality(all)) = limit
  BY <1>2
<1> HIDE DEF all, pairs
<1>12. pairs \in Best(all, limit)
  BY <1>9, <1>10, <1>11 DEF Best
<1> QED
  BY <1>8, <1>12 DEF all, pairs

\* A search finds the best of the documents that pass its filters, though it
\* asks the index for entries that it filters afterwards.
LEMMA SearchBest ==
  ASSUME NEW space \in Spaces, Exact(space), NEW filters, NEW limit \in 1..2,
         NEW hits \in Best(space.index, Candidates(space, filters, limit)), NEW found,
         found = {row \in space.byNumber : /\ \E entry \in hits : entry[1] = row[1]
                                           /\ Passes(row[3], filters)},
         NEW top \in Best({<<row[2], row[3]>> : row \in found}, limit)
  PROVE  top \in Best(Pairs(Contents(space),
                            {i \in Stored(Contents(space)) : Passes(Contents(space)[i], filters)}),
                      limit)
<1> DEFINE Pair(row) == <<row[2], row[3]>>
           contents == Contents(space)
           passing == {row \in space.byNumber : Passes(row[3], filters)}
<1>1. /\ Cardinality(space.byNumber) \in Nat /\ IsFiniteSet(space.index)
      /\ Cardinality(space.index) = Cardinality(space.byNumber)
  <2>1. space.index = {<<row[1], row[3]>> : row \in space.byNumber}
    BY DEF Exact
  <2> QED
    BY <2>1, RowsCounted
<1>2. Pairs(contents, {i \in Stored(contents) : Passes(contents[i], filters)})
        = {Pair(row) : row \in passing}
  <2> DEFINE kept == {i \in Stored(contents) : Passes(contents[i], filters)}
  <2>1. ASSUME NEW i \in kept PROVE \E row \in passing : <<i, contents[i]>> = Pair(row)
    <3>1. i \in Documents /\ contents[i] # None
      BY DEF Stored
    <3>2. PICK row \in space.byNumber : row[2] = i
      BY <3>1, ContentsRows
    <3>3. contents[i] = row[3]
      BY <3>2, ContentsRows
    <3> QED
      BY <3>2, <3>3
  <2>2. ASSUME NEW row \in passing PROVE row[2] \in kept /\ <<row[2], contents[row[2]]>> = Pair(row)
    <3>1. row[2] \in Documents /\ contents[row[2]] = row[3] /\ contents[row[2]] # None
      BY ContentsRows
    <3> QED
      BY <3>1 DEF Stored
  <2> HIDE DEF kept, passing, contents, Pair
  <2>3. {<<i, contents[i]>> : i \in kept} = {Pair(row) : row \in passing}
    BY <2>1, <2>2
  <2> QED
    BY <2>3 DEF Pairs, kept
<1>3. CASE Candidates(space, filters, limit) = Cardinality(space.byNumber)
  <2>1. hits = space.index
    BY <1>1, <1>3, BestOfFew
  <2>2. \A row \in space.byNumber : \E entry \in hits : entry[1] = row[1]
    <3>1. \A row \in space.byNumber : <<row[1], row[3]>> \in hits
      BY <2>1 DEF Exact
    <3>2. \A row \in space.byNumber : <<row[1], row[3]>>[1] = row[1]
      OBVIOUS
    <3> QED
      BY <3>1, <3>2
  <2>3. found = passing
    BY <2>2
  <2> QED
    BY <1>2, <2>3
<1>4. CASE Candidates(space, filters, limit) # Cardinality(space.byNumber)
  <2>1. /\ filters = None /\ limit <= Cardinality(space.byNumber)
        /\ Candidates(space, filters, limit) = limit
    BY <1>1, <1>4 DEF Candidates
  <2>2. \A row \in space.byNumber : Passes(row[3], filters)
    BY <2>1 DEF Passes
  <2>3. passing = space.byNumber
        /\ found = {row \in space.byNumber : \E entry \in hits : entry[1] = row[1]}
    BY <2>2
  <2>4. limit \in Nat /\ hits \in Best(space.index, limit)
    BY <2>1
  <2>5. /\ Cardinality({Pair(row) : row \in found}) = limit
        /\ {Pair(row) : row \in found} \in Best({Pair(row) : row \in passing}, limit)
    <3>1. /\ Cardinality({<<row[2], row[3]>> : row \in found}) = limit
          /\ {<<row[2], row[3]>> : row \in found}
               \in Best({<<row[2], row[3]>> : row \in space.byNumber}, limit)
      BY <2>1, <2>3, <2>4, HitsBest
    <3> HIDE DEF passing
    <3> QED
      BY <2>3, <3>1
  <2>6. IsFiniteSet({Pair(row) : row \in found})
    BY <2>3, RowsCounted
  <2>7. top = {Pair(row) : row \in found}
    BY <2>4, <2>5, <2>6, BestOfFew
  <2> QED
    BY <1>2, <2>5, <2>7
<1> QED
  BY <1>3, <1>4

\* A namespace that is absent holds nothing.
LEMMA AbsentContents == Contents(None) = Empty
BY DEF Contents, Empty

\* When one namespace changes, what the store holds changes there.
LEMMA HeldReplaced ==
  ASSUME SpacesInv, NEW ns \in Namespaces, NEW new, spaces' = [spaces EXCEPT ![ns] = new]
  PROVE  Held' = [Held EXCEPT ![ns] = Contents(new)]
<1>1. DOMAIN spaces' = Namespaces /\ spaces'[ns] = new
      /\ \A m \in Namespaces \ {ns} : spaces'[m] = spaces[m]
  BY DEF SpacesInv
<1>2. Held' = [m \in Namespaces |-> Contents(spaces'[m])]
  BY DEF Held
<1>3. \A m \in Namespaces : Contents(spaces'[m]) = IF m = ns THEN Contents(new) ELSE Held[m]
  BY <1>1 DEF Held
<1>4. DOMAIN Held = Namespaces
  BY DEF Held
<1> QED
  BY <1>2, <1>3, <1>4

\* An upsert is one of the contract, or is refused.
LEMMA UpsertMaps ==
  ASSUME SpacesInv, NEW t, NEW ns \in Namespaces, NEW batch \in Batches, Upsert(t, ns, batch)
  PROVE  Contract!Upsert(ns, batch) \/ Contract!WriteRaises
<1>1. UNCHANGED closed
  BY DEF Upsert, Leave
<1>2. CASE UNCHANGED spaces /\ reply' = <<"raised">>
  <2>1. UNCHANGED Held
    BY <1>2 DEF Held
  <2> QED
    BY <1>1, <1>2, <2>1 DEF Contract!WriteRaises
<1>3. ASSUME Opened(ns, batch) \in Spaces, Exact(Opened(ns, batch)),
             reply' = <<"count", Len(batch)>>, NEW new, spaces' = [spaces EXCEPT ![ns] = new],
             Upserted(Opened(ns, batch), new, batch)
      PROVE  Contract!Upsert(ns, batch)
  <2> DEFINE space == Opened(ns, batch)
             ids == Named(batch)
             version == [i \in ids |-> Latest(batch, i)]
  <2>1. PICK number : Adds(Without(space, ids), new, ids, Cardinality(ids), number, version)
    BY <1>3 DEF Upserted
  <2>2. ids \in SUBSET Documents
    BY BatchFacts
  <2>3. Contents(space) = Held[ns]
    <3>1. Contents(Fresh(Width(batch))) = Empty
      BY DEF Contents, Fresh, Empty
    <3> QED
      BY <3>1, AbsentContents DEF Opened, Held
  <2> HIDE DEF space, ids
  <2>4. Contents(new) = [i \in Documents |-> IF i \in ids THEN version[i]
                                             ELSE Contents(Without(space, ids))[i]]
    <3>1. Without(space, ids) \in Spaces /\ Exact(Without(space, ids))
      BY <1>3, <2>2, WithoutExact DEF space
    <3> HIDE DEF version
    <3> QED
      BY <2>1, <3>1, AddContents
  <2>5. Contents(Without(space, ids))
          = [i \in Documents |-> IF i \in ids THEN None ELSE Held[ns][i]]
    BY <1>3, <2>2, <2>3, WithoutContents DEF space
  <2>6. Contents(new) = [i \in Documents |-> IF i \in ids THEN Latest(batch, i) ELSE Held[ns][i]]
    BY <2>4, <2>5
  <2>7. Contents(new) = Contract!Written(Held[ns], batch)
    BY <2>6, SameBatches DEF Contract!Written, ids
  <2>8. Held' = [Held EXCEPT ![ns] = Contract!Written(Held[ns], batch)]
    BY <1>3, <2>7, HeldReplaced
  <2> QED
    BY <1>1, <1>3, <2>8 DEF Contract!Upsert
<1> QED
  BY <1>2, <1>3, UpsertAdds

\* A deletion is one of the contract.
LEMMA DeleteMaps ==
  ASSUME SpacesInv, NEW t, NEW ns \in Namespaces, NEW ids \in SUBSET Documents,
         DeleteIds(t, ns, ids)
  PROVE  Contract!Delete(ns, ids)
<1> DEFINE selected == {i \in ids : spaces[ns].byDocument[i] # 0}
           rest == Without(spaces[ns], selected)
           left == [i \in Documents |-> IF i \in ids THEN None ELSE Held[ns][i]]
           gone == Stored(Held[ns]) \cap ids
<1>1. UNCHANGED closed
  BY DEF DeleteIds, Leave
<1>2. ASSUME reply' = <<"count", Cardinality(gone)>>, Held' = [Held EXCEPT ![ns] = left]
      PROVE  Contract!Delete(ns, ids)
  BY <1>1, <1>2, SameBatches, SameCardinality DEF Contract!Delete
<1>3. CASE spaces[ns] = None
  <2>1. UNCHANGED spaces /\ reply' = <<"count", 0>>
    BY <1>3 DEF DeleteIds
  <2>2. Held[ns] = Empty
    BY <1>3, AbsentContents DEF Held
  <2>3. Cardinality(gone) = 0
    <3>1. gone = {}
      BY <2>2 DEF Stored, Empty
    <3> QED
      BY <3>1, FS_EmptySet
  <2>4. Held' = [Held EXCEPT ![ns] = left]
    <3>1. left = Held[ns]
      BY <2>2 DEF Empty
    <3>2. Held' = Held
      BY <2>1 DEF Held
    <3>3. Held = [Held EXCEPT ![ns] = Held[ns]]
      BY DEF Held
    <3> HIDE DEF left
    <3> QED
      BY <3>1, <3>2, <3>3
  <2> HIDE DEF gone, left
  <2> QED
    BY <1>2, <2>1, <2>3, <2>4
<1>4. CASE spaces[ns] # None
  <2>1. /\ spaces' = [spaces EXCEPT ![ns] = IF rest.byNumber = {} THEN None ELSE rest]
        /\ reply' = <<"count", Cardinality(selected)>>
    BY <1>4 DEF DeleteIds
  <2>2. spaces[ns] \in Spaces /\ Exact(spaces[ns]) /\ Held[ns] = Contents(spaces[ns])
    BY <1>4 DEF SpacesInv, Held
  <2>3. selected = gone
    BY <2>2, ContentsRows DEF Stored
  <2>4. selected \in SUBSET Documents
    OBVIOUS
  <2>5. Contents(rest) = left
    <3>1. Contents(rest) = [i \in Documents |-> IF i \in selected THEN None ELSE Held[ns][i]]
      <4> HIDE DEF selected
      <4> QED
        BY <2>2, <2>4, WithoutContents
    <3>2. \A i \in Documents \ selected : i \in ids => Held[ns][i] = None
      BY <2>3 DEF Stored
    <3>3. selected \subseteq ids
      OBVIOUS
    <3> HIDE DEF rest, selected
    <3> QED
      BY <3>1, <3>2, <3>3
  <2>6. rest \in Spaces /\ Exact(rest)
    <3> HIDE DEF selected
    <3> QED
      BY <2>2, <2>4, WithoutExact
  <2> HIDE DEF selected, gone, rest
  <2>7. rest.byNumber = {} => Contents(None) = Contents(rest)
    <3>1. ASSUME rest.byNumber = {}, NEW i \in Documents PROVE Contents(rest)[i] = None
      BY <2>6, <3>1, ContentsRows
    <3>2. Contents(rest) = [i \in Documents |-> Contents(rest)[i]]
      BY DEF Contents
    <3> QED
      BY <3>1, <3>2, AbsentContents DEF Empty
  <2>8. Held' = [Held EXCEPT ![ns] = Contents(rest)]
    BY <2>1, <2>7, HeldReplaced
  <2> HIDE DEF left
  <2> QED
    BY <1>2, <2>1, <2>3, <2>5, <2>8
<1> QED
  BY <1>3, <1>4

\* A count is that of the contract.
LEMMA CountMaps ==
  ASSUME SpacesInv, NEW t, NEW ns \in Namespaces, Count(t, ns)
  PROVE  Contract!Count(ns)
<1>1. UNCHANGED <<spaces, closed>>
      /\ reply' = <<"count", IF spaces[ns] = None THEN 0 ELSE Cardinality(spaces[ns].byNumber)>>
  BY DEF Count, Leave
<1>2. Cardinality(Stored(Held[ns]))
        = IF spaces[ns] = None THEN 0 ELSE Cardinality(spaces[ns].byNumber)
  <2>1. CASE spaces[ns] = None
    <3>1. Held[ns] = Empty
      BY <2>1, AbsentContents DEF Held
    <3>2. Stored(Held[ns]) = {}
      BY <3>1 DEF Stored, Empty
    <3> QED
      BY <2>1, <3>2, FS_EmptySet
  <2>2. CASE spaces[ns] # None
    <3> DEFINE space == spaces[ns]
    <3>1. space \in Spaces /\ Exact(space) /\ Held[ns] = Contents(space)
      BY <2>2 DEF SpacesInv, Held
    <3> HIDE DEF space
    <3>2. Stored(Contents(space)) = {row[2] : row \in space.byNumber}
      <4>1. \A i \in Stored(Contents(space)) : \E row \in space.byNumber : row[2] = i
        BY <3>1, ContentsRows DEF Stored
      <4>2. \A row \in space.byNumber : row[2] \in Stored(Contents(space))
        BY <3>1, ContentsRows DEF Stored
      <4> QED
        BY <4>1, <4>2
    <3>3. Cardinality({row[2] : row \in space.byNumber}) = Cardinality(space.byNumber)
      BY <3>1, RowsCounted
    <3> QED
      BY <2>2, <3>1, <3>2, <3>3 DEF space
  <2> QED
    BY <2>1, <2>2
<1>3. UNCHANGED Held
  BY <1>1 DEF Held
<1> QED
  BY <1>1, <1>2, <1>3, SameBatches, SameCardinality DEF Contract!Count

\* A search is one of the contract.
LEMMA SearchMaps ==
  ASSUME SpacesInv, NEW t, NEW ns \in Namespaces, NEW filters, NEW limit \in 1..2, NEW width,
         Search(t, ns, filters, limit, width)
  PROVE  Contract!Search(ns, filters, limit, width)
<1> DEFINE passing == {i \in Stored(Held[ns]) : Passes(Held[ns][i], filters)}
<1>1. UNCHANGED <<spaces, closed>>
  BY DEF Search, Leave
<1>2. UNCHANGED <<Held, closed>>
  BY <1>1 DEF Held
<1>3. ASSUME NEW i \in Stored(Held[ns]), Held[ns][i].width # width, reply' = <<"raised">>
      PROVE  Contract!Search(ns, filters, limit, width)
  BY <1>2, <1>3, SameBatches DEF Contract!Search, Contract!Comparable
<1>4. ASSUME \A i \in passing : Held[ns][i].width = width,
             NEW top \in Best(Pairs(Held[ns], passing), limit), reply' = <<"found", top>>
      PROVE  Contract!Search(ns, filters, limit, width)
  <2>1. {i \in Contract!Stored(Held[ns]) : Contract!Passes(Held[ns][i], filters)} = passing
    BY SameBatches
  <2>2. top \in Contract!Best(Contract!Pairs(Held[ns], passing), limit)
    BY <1>4, SameBatches, SameBest
  <2> HIDE DEF passing
  <2> QED
    BY <1>2, <1>4, <2>1, <2>2 DEF Contract!Search
<1>5. CASE spaces[ns] = None
  <2>1. Held[ns] = Empty
    BY <1>5, AbsentContents DEF Held
  <2>2. passing = {}
    BY <2>1 DEF Stored, Empty
  <2>3. Pairs(Held[ns], passing) = {}
    BY <2>2 DEF Pairs
  <2>4. {} \in Best({}, limit)
    BY FS_EmptySet, BestOfFew
  <2>5. reply' = <<"found", {}>>
    BY <1>5 DEF Search
  <2> HIDE DEF passing
  <2> QED
    BY <1>4, <2>2, <2>3, <2>4, <2>5
<1>6. CASE spaces[ns] # None
  <2> DEFINE space == spaces[ns]
  <2>1. /\ space \in Spaces /\ Exact(space) /\ Held[ns] = Contents(space)
        /\ space.byNumber # {}
    BY <1>6 DEF SpacesInv, Held
  <2>2. \A row \in space.byNumber : row[3].width = space.width
    BY <2>1 DEF Exact
  <2>3. CASE space.width # width
    <3>1. PICK row \in space.byNumber : TRUE
      BY <2>1
    <3> HIDE DEF space
    <3>2. row[2] \in Stored(Held[ns]) /\ Held[ns][row[2]] = row[3]
      BY <2>1, ContentsRows DEF Stored
    <3>3. Held[ns][row[2]].width # width
      BY <2>2, <2>3, <3>2
    <3>4. reply' = <<"raised">>
      BY <1>6, <2>3 DEF Search, space
    <3> QED
      BY <1>3, <3>2, <3>3, <3>4
  <2>4. CASE space.width = width
    <3>1. PICK hits \in Best(space.index, Candidates(space, filters, limit)) :
            \E top \in Best({<<row[2], row[3]>> :
                               row \in {r \in space.byNumber :
                                          /\ \E entry \in hits : entry[1] = r[1]
                                          /\ Passes(r[3], filters)}}, limit) :
               reply' = <<"found", top>>
      BY <1>6, <2>4 DEF Search
    <3> DEFINE found == {r \in space.byNumber : /\ \E entry \in hits : entry[1] = r[1]
                                                /\ Passes(r[3], filters)}
    <3>2. PICK top \in Best({<<row[2], row[3]>> : row \in found}, limit) :
            reply' = <<"found", top>>
      BY <3>1
    <3> HIDE DEF space
    <3>3. top \in Best(Pairs(Held[ns], passing), limit)
      BY <2>1, <3>2, SearchBest
    <3>4. ASSUME NEW i \in Stored(Held[ns]) PROVE Held[ns][i].width = width
      <4>1. PICK row \in space.byNumber : row[2] = i
        BY <2>1, ContentsRows DEF Stored
      <4>2. Held[ns][i] = row[3]
        BY <2>1, <4>1, ContentsRows
      <4> QED
        BY <2>2, <2>4, <4>2
    <3> HIDE DEF found
    <3> QED
      BY <1>4, <3>2, <3>3, <3>4
  <2> QED
    BY <2>3, <2>4
<1> QED
  BY <1>5, <1>6

\* At first the store holds nothing.
LEMMA StoreInit == FaissInit => Contract!Init
<1> SUFFICES ASSUME FaissInit PROVE Contract!Init
  OBVIOUS
<1>1. Held = [ns \in Namespaces |-> Empty]
  BY AbsentContents DEF Held, FaissInit
<1> QED
  BY <1>1, SameBatches DEF Contract!Init, FaissInit

\* A step of the store is one of the contract, or changes nothing that it speaks of.
LEMMA StoreNext == SpacesInv /\ [FaissNext]_faissVars => [Contract!Next]_(Contract!vars)
<1> SUFFICES ASSUME SpacesInv, [FaissNext]_faissVars
             PROVE  Contract!Next \/ UNCHANGED <<Held, closed, reply>>
  BY DEF Contract!vars
<1>1. CASE UNCHANGED faissVars
  BY <1>1 DEF faissVars, Held
<1>2. ASSUME NEW t, Enter(t) PROVE Contract!Next \/ UNCHANGED <<Held, closed, reply>>
  <2>1. UNCHANGED Held
    BY <1>2 DEF Enter, Held
  <2>2. UNCHANGED closed /\ (UNCHANGED reply \/ reply' = <<"raised">>)
    BY <1>2 DEF Enter
  <2> QED
    BY <2>1, <2>2 DEF Contract!Next, Contract!WriteRaises
<1>3. ASSUME NEW t, NEW ns \in Namespaces, NEW batch \in Batches, Upsert(t, ns, batch)
      PROVE  Contract!Next
  BY <1>3, UpsertMaps, SameBatches DEF Contract!Next
<1>4. ASSUME NEW t, NEW ns \in Namespaces, NEW ids \in SUBSET Documents, DeleteIds(t, ns, ids)
      PROVE  Contract!Next
  BY <1>4, DeleteMaps DEF Contract!Next
<1>5. ASSUME NEW t, NEW ns \in Namespaces, NEW filters \in Filters, NEW limit \in 1..2,
             NEW width \in Widths, Search(t, ns, filters, limit, width)
      PROVE  Contract!Next
  BY <1>5, SearchMaps, SameBatches DEF Contract!Next
<1>6. ASSUME NEW t, NEW ns \in Namespaces, Count(t, ns) PROVE Contract!Next
  BY <1>6, CountMaps DEF Contract!Next
<1>7. CASE Close
  <2>1. Held' = [ns \in Namespaces |-> Empty]
    <3>1. Held' = [ns \in Namespaces |-> Contents(spaces'[ns])]
      BY DEF Held
    <3>2. spaces' = [ns \in Namespaces |-> None]
      BY <1>7 DEF Close
    <3> QED
      BY <3>1, <3>2, AbsentContents
  <2>2. closed' = TRUE /\ reply' = None
    BY <1>7 DEF Close
  <2> QED
    BY <2>1, <2>2, SameBatches DEF Contract!Close, Contract!Next
<1> QED
  BY <1>1, <1>2, <1>3, <1>4, <1>5, <1>6, <1>7 DEF FaissNext

\* Every behaviour of FaissStore, with any callers, batches, filters and closings
\* at any time, is one of VectorStore: what a search returns from the index is
\* the best of what is stored, and a refused operation changes nothing
\* (faiss_store.py, upsert, search, delete, count, close).
THEOREM FaissKeepsContract == FaissSpec => FaissImplements
<1>1. FaissSpec => []SpacesInv
  BY SpacesInit, SpacesNext, PTL DEF FaissSpec
<1> QED
  BY <1>1, StoreInit, StoreNext, PTL DEF FaissSpec, FaissImplements, Contract!Spec
-----------------------------------------------------------------------------
(***************************************************************************)
(* SqliteStore keeps the promises of VectorStore.                          *)
(***************************************************************************)
\* The SQLite store and its contract count and rank alike,
LEMMA SqliteBest ==
  /\ \A S : Sqlite!Cardinality(S) = Cardinality(S)
            /\ Sqlite!Contract!Cardinality(S) = Cardinality(S)
  /\ \A S, k : Sqlite!Best(S, k) = Best(S, k) /\ Sqlite!Contract!Best(S, k) = Best(S, k)
<1>1. \A S : Sqlite!Cardinality(S) = Cardinality(S)
  BY DEF Sqlite!Cardinality, Cardinality
<1>2. \A S : Sqlite!Contract!Cardinality(S) = Cardinality(S)
  BY DEF Sqlite!Contract!Cardinality, Cardinality
<1>3. \A member : Sqlite!Score(member) = Score(member)
  BY DEF Sqlite!Score, Score
<1>4. \A member : Sqlite!Contract!Score(member) = Score(member)
  BY DEF Sqlite!Contract!Score, Score
<1>5. \A S, k : Sqlite!kSubset(k, S) = kSubset(k, S)
  BY <1>1 DEF Sqlite!kSubset, kSubset
<1>6. \A S, k : Sqlite!Contract!kSubset(k, S) = kSubset(k, S)
  BY <1>2 DEF Sqlite!Contract!kSubset, kSubset
<1>7. ASSUME NEW S, NEW k
      PROVE  Sqlite!Best(S, k) = Best(S, k) /\ Sqlite!Contract!Best(S, k) = Best(S, k)
  <2> DEFINE size == IF k < Cardinality(S) THEN k ELSE Cardinality(S)
  <2>1. Sqlite!Best(S, k)
          = {top \in Sqlite!kSubset(size, S) :
               \A member \in top, other \in S \ top :
                  Sqlite!Score(member) >= Sqlite!Score(other)}
    BY <1>1 DEF Sqlite!Best
  <2>2. Sqlite!Contract!Best(S, k)
          = {top \in Sqlite!Contract!kSubset(size, S) :
               \A member \in top, other \in S \ top :
                  Sqlite!Contract!Score(member) >= Sqlite!Contract!Score(other)}
    BY <1>2 DEF Sqlite!Contract!Best
  <2>3. Best(S, k)
          = {top \in kSubset(size, S) :
               \A member \in top, other \in S \ top : Score(member) >= Score(other)}
    BY DEF Best
  <2> HIDE DEF size
  <2>4. Sqlite!Best(S, k) = Best(S, k)
    BY <1>3, <1>5, <2>1, <2>3
  <2>5. Sqlite!Contract!Best(S, k) = Best(S, k)
    BY <1>4, <1>6, <2>2, <2>3
  <2> QED
    BY <2>4, <2>5
<1> QED
  BY <1>1, <1>2, <1>7

\* ... and mean the same by batches and rows.
LEMMA SqliteBatches ==
  /\ Sqlite!Batches = Batches /\ Sqlite!Contract!Batches = Batches
  /\ \A batch, i : Sqlite!Contract!Latest(batch, i) = Latest(batch, i)
  /\ \A batch : Sqlite!Contract!Named(batch) = Named(batch)
  /\ \A held : Sqlite!Stored(held) = Stored(held) /\ Sqlite!Contract!Stored(held) = Stored(held)
  /\ \A held, ids : /\ Sqlite!Pairs(held, ids) = Pairs(held, ids)
                    /\ Sqlite!Contract!Pairs(held, ids) = Pairs(held, ids)
  /\ \A version, filters : /\ Sqlite!Passes(version, filters) = Passes(version, filters)
                           /\ Sqlite!Contract!Passes(version, filters) = Passes(version, filters)
  /\ Sqlite!Empty = Empty /\ Sqlite!Contract!Empty = Empty
  /\ Sqlite!Filters = Filters /\ Sqlite!Contract!Filters = Filters
  /\ Sqlite!Widths = Widths /\ Sqlite!Contract!Widths = Widths
<1>1. Sqlite!Batches = Batches /\ Sqlite!Contract!Batches = Batches
  BY DEF Sqlite!Batches, Sqlite!Contract!Batches, Batches,
         Sqlite!SeqOf, Sqlite!Contract!SeqOf, SeqOf
<1>2. ASSUME NEW batch, NEW i PROVE Sqlite!Contract!Latest(batch, i) = Latest(batch, i)
  BY DEF Sqlite!Contract!Latest, Latest, Sqlite!Contract!Occurrences, Occurrences,
         Sqlite!Contract!Max, Max
<1>3. \A batch : Sqlite!Contract!Named(batch) = Named(batch)
  BY DEF Sqlite!Contract!Named, Named
<1>4. \A held : Sqlite!Stored(held) = Stored(held) /\ Sqlite!Contract!Stored(held) = Stored(held)
  BY DEF Sqlite!Stored, Sqlite!Contract!Stored, Stored
<1>5. ASSUME NEW held, NEW ids
      PROVE  /\ Sqlite!Pairs(held, ids) = Pairs(held, ids)
             /\ Sqlite!Contract!Pairs(held, ids) = Pairs(held, ids)
  BY DEF Sqlite!Pairs, Sqlite!Contract!Pairs, Pairs
<1>6. ASSUME NEW version, NEW filters
      PROVE  /\ Sqlite!Passes(version, filters) = Passes(version, filters)
             /\ Sqlite!Contract!Passes(version, filters) = Passes(version, filters)
  BY DEF Sqlite!Passes, Sqlite!Contract!Passes, Passes
<1>7. Sqlite!Empty = Empty /\ Sqlite!Contract!Empty = Empty
  BY DEF Sqlite!Empty, Sqlite!Contract!Empty, Empty
<1>8. /\ Sqlite!Filters = Filters /\ Sqlite!Contract!Filters = Filters
      /\ Sqlite!Widths = Widths /\ Sqlite!Contract!Widths = Widths
  BY DEF Sqlite!Filters, Sqlite!Contract!Filters, Filters, Sqlite!Tags, Sqlite!Contract!Tags,
         Tags, Sqlite!Widths, Sqlite!Contract!Widths, Widths
<1> QED
  BY <1>1, <1>2, <1>3, <1>4, <1>5, <1>6, <1>7, <1>8

\* What a transaction has made of the rows held when it has written the first n
\* of a batch.
After(held, batch, n) ==
  [i \in Documents |->
     LET past == {k \in Occurrences(batch, i) : k <= n}
     IN  IF past = {} THEN held[i] ELSE batch[Max(past)][2]]

\* A transaction under way has written a part of its batch to what is committed.
Underway(t) ==
  /\ DOMAIN t = {"store", "ns", "todo", "rows", "size"} /\ t.ns \in Namespaces
  /\ \E batch \in Batches, n \in Nat :
       /\ n <= Len(batch) /\ t.size = Len(batch)
       /\ t.todo = SubSeq(batch, n + 1, Len(batch))
       /\ t.rows = After(documents[t.ns], batch, n)

SqliteInv ==
  /\ DOMAIN documents = Namespaces
  /\ \A ns \in Namespaces : documents[ns] = [i \in Documents |-> documents[ns][i]]
  /\ txn # None => Underway(txn)

\* A batch is a sequence.
LEMMA BatchSequence ==
  ASSUME NEW batch \in Batches
  PROVE  batch \in Seq(Documents \X Versions) /\ DOMAIN batch = 1..Len(batch)
BY DEF Batches, SeqOf

\* The greatest of some numbers.
LEMMA GreatestIs ==
  ASSUME NEW X \in SUBSET Int, NEW m \in X, \A k \in X : k <= m
  PROVE  Max(X) = m
<1>1. \A k \in X : (\A y \in X : k >= y) => k = m
  OBVIOUS
<1>2. \A y \in X : m >= y
  OBVIOUS
<1> QED
  BY <1>1, <1>2 DEF Max

\* Before its first row a transaction has written nothing,
LEMMA AfterNone ==
  ASSUME NEW batch \in Batches, NEW held, held = [i \in Documents |-> held[i]]
  PROVE  After(held, batch, 0) = held
<1>1. \A i : {k \in Occurrences(batch, i) : k <= 0} = {}
  BY BatchSequence DEF Occurrences
<1> QED
  BY <1>1 DEF After

\* ... each row replaces that of its document,
LEMMA AfterNext ==
  ASSUME NEW batch \in Batches, NEW held, NEW n \in Nat, n < Len(batch)
  PROVE  After(held, batch, n + 1)
           = [After(held, batch, n) EXCEPT ![batch[n + 1][1]] = batch[n + 1][2]]
<1> DEFINE Past(i, m) == {k \in Occurrences(batch, i) : k <= m}
           d == batch[n + 1][1]
<1>1. batch \in Seq(Documents \X Versions) /\ DOMAIN batch = 1..Len(batch)
      /\ n + 1 \in 1..Len(batch)
  BY BatchSequence
<1>2. d \in Documents /\ n + 1 \in Past(d, n + 1) /\ Past(d, n + 1) \in SUBSET Int
  BY <1>1 DEF Occurrences
<1>3. Max(Past(d, n + 1)) = n + 1
  <2>1. \A k \in Past(d, n + 1) : k <= n + 1
    OBVIOUS
  <2> HIDE DEF Past
  <2> QED
    BY <1>2, <2>1, GreatestIs
<1>4. ASSUME NEW i \in Documents, i # d PROVE Past(i, n + 1) = Past(i, n)
  BY <1>1, <1>4 DEF Occurrences
<1>5. \A m : After(held, batch, m)
               = [i \in Documents |-> IF Past(i, m) = {} THEN held[i]
                                      ELSE batch[Max(Past(i, m))][2]]
  BY DEF After
<1> HIDE DEF Past, d
<1>6. After(held, batch, n + 1) = [After(held, batch, n) EXCEPT ![d] = batch[n + 1][2]]
  <2>1. After(held, batch, n + 1)[d] = batch[n + 1][2]
    BY <1>2, <1>3, <1>5
  <2>2. \A i \in Documents : i # d => After(held, batch, n + 1)[i] = After(held, batch, n)[i]
    BY <1>4, <1>5
  <2>3. After(held, batch, n + 1) = [i \in Documents |-> After(held, batch, n + 1)[i]]
        /\ After(held, batch, n) = [i \in Documents |-> After(held, batch, n)[i]]
    BY DEF After
  <2> QED
    BY <1>2, <2>1, <2>2, <2>3
<1> QED
  BY <1>6 DEF d

\* ... and after the last one it has written the batch.
LEMMA AfterAll ==
  ASSUME NEW batch \in Batches, NEW held
  PROVE  After(held, batch, Len(batch)) = Sqlite!Contract!Written(held, batch)
<1>1. \A i : {k \in Occurrences(batch, i) : k <= Len(batch)} = Occurrences(batch, i)
  BY BatchSequence DEF Occurrences
<1>2. \A i : Occurrences(batch, i) = {} <=> i \notin Named(batch)
  BY DEF Occurrences, Named
<1>3. After(held, batch, Len(batch))
        = [i \in Documents |-> IF i \in Named(batch) THEN Latest(batch, i) ELSE held[i]]
  BY <1>1, <1>2 DEF After, Latest
<1> QED
  BY <1>3, SqliteBatches DEF Sqlite!Contract!Written

\* At first nothing is stored or under way.
LEMMA SqliteAtFirst == Sqlite!Init => SqliteInv /\ Sqlite!Contract!Init
<1> SUFFICES ASSUME Sqlite!Init PROVE SqliteInv /\ Sqlite!Contract!Init
  OBVIOUS
<1>1. documents = [ns \in Namespaces |-> Empty] /\ txn = None /\ shut = {} /\ answer = None
  BY SqliteBatches DEF Sqlite!Init
<1>2. SqliteInv
  BY <1>1 DEF SqliteInv, Empty
<1>3. Sqlite!Contract!Init
  BY <1>1, SqliteBatches DEF Sqlite!Contract!Init
<1> QED
  BY <1>2, <1>3

\* A transaction begins with what is committed,
LEMMA BeginKeeps ==
  ASSUME SqliteInv, NEW s, NEW ns \in Namespaces, NEW batch \in Batches,
         Sqlite!UpsertBegin(s, ns, batch)
  PROVE  SqliteInv'
<1>1. UNCHANGED documents
      /\ txn' = [store |-> s, ns |-> ns, todo |-> batch, rows |-> documents[ns],
                 size |-> Len(batch)]
  BY DEF Sqlite!UpsertBegin
<1>2. SubSeq(batch, 0 + 1, Len(batch)) = batch /\ Len(batch) \in Nat
  BY BatchSequence
<1>3. documents[ns] = After(documents[ns], batch, 0)
  BY AfterNone DEF SqliteInv
<1>4. DOMAIN txn' = {"store", "ns", "todo", "rows", "size"}
      /\ txn'.ns = ns /\ txn'.todo = batch /\ txn'.rows = documents[ns] /\ txn'.size = Len(batch)
  BY <1>1
<1>5. Underway(txn)'
  <2>1. 0 \in Nat /\ 0 <= Len(batch)
    BY <1>2
  <2> QED
    BY <1>1, <1>2, <1>3, <1>4, <2>1 DEF Underway
<1> QED
  BY <1>1, <1>5 DEF SqliteInv

\* ... writes its rows in order,
LEMMA RowKeeps ==
  ASSUME SqliteInv, Sqlite!UpsertRow
  PROVE  SqliteInv'
<1> DEFINE row == Head(txn.todo)
<1>1. /\ txn # None /\ txn.todo # <<>> /\ UNCHANGED documents
      /\ txn' = [txn EXCEPT !.todo = Tail(@), !.rows = [@ EXCEPT ![row[1]] = row[2]]]
  BY DEF Sqlite!UpsertRow
<1>2. PICK batch \in Batches, n \in Nat :
        /\ n <= Len(batch) /\ txn.size = Len(batch)
        /\ txn.todo = SubSeq(batch, n + 1, Len(batch))
        /\ txn.rows = After(documents[txn.ns], batch, n)
  BY <1>1 DEF SqliteInv, Underway
<1>3. batch \in Seq(Documents \X Versions) /\ Len(batch) \in Nat
  BY BatchSequence
<1>4. n < Len(batch)
  BY <1>1, <1>2, <1>3
<1>5. row = batch[n + 1] /\ Tail(txn.todo) = SubSeq(batch, (n + 1) + 1, Len(batch))
  BY <1>2, <1>3, <1>4
<1>6. DOMAIN txn = {"store", "ns", "todo", "rows", "size"} /\ txn.ns \in Namespaces
  BY <1>1 DEF SqliteInv, Underway
<1> HIDE DEF row
<1>7. DOMAIN txn' = {"store", "ns", "todo", "rows", "size"}
      /\ txn'.ns = txn.ns /\ txn'.todo = Tail(txn.todo) /\ txn'.size = txn.size
      /\ txn'.rows = [txn.rows EXCEPT ![row[1]] = row[2]]
  BY <1>1, <1>6
<1>8. txn'.rows = After(documents[txn.ns], batch, n + 1)
  BY <1>2, <1>4, <1>5, <1>7, AfterNext
<1>9. Underway(txn)'
  <2>1. n + 1 \in Nat /\ n + 1 <= Len(batch)
    BY <1>3, <1>4
  <2> QED
    BY <1>1, <1>2, <1>5, <1>6, <1>7, <1>8, <2>1 DEF Underway
<1> QED
  BY <1>1, <1>9 DEF SqliteInv

\* ... and commits the whole batch at once.
LEMMA CommitMaps ==
  ASSUME SqliteInv, Sqlite!UpsertCommit
  PROVE  SqliteInv' /\ \E ns \in Namespaces, batch \in Batches : Sqlite!Contract!Upsert(ns, batch)
<1>1. /\ txn # None /\ txn.todo = <<>> /\ txn' = None /\ UNCHANGED shut
      /\ documents' = [documents EXCEPT ![txn.ns] = txn.rows]
      /\ answer' = <<"count", txn.size>>
  BY DEF Sqlite!UpsertCommit
<1>2. PICK batch \in Batches, n \in Nat :
        /\ n <= Len(batch) /\ txn.size = Len(batch)
        /\ txn.todo = SubSeq(batch, n + 1, Len(batch))
        /\ txn.rows = After(documents[txn.ns], batch, n)
  BY <1>1 DEF SqliteInv, Underway
<1>3. txn.ns \in Namespaces
  BY <1>1 DEF SqliteInv, Underway
<1>4. n = Len(batch)
  <2>1. batch \in Seq(Documents \X Versions) /\ Len(batch) \in Nat
    BY BatchSequence
  <2> QED
    BY <1>1, <1>2, <2>1
<1>5. txn.rows = Sqlite!Contract!Written(documents[txn.ns], batch)
  BY <1>2, <1>4, AfterAll
<1>6. Sqlite!Contract!Upsert(txn.ns, batch)
  BY <1>1, <1>2, <1>5 DEF Sqlite!Contract!Upsert
<1>7. SqliteInv'
  <2>1. txn.rows = [i \in Documents |-> txn.rows[i]]
    BY <1>2 DEF After
  <2>2. DOMAIN documents' = Namespaces /\ documents'[txn.ns] = txn.rows
        /\ \A m \in Namespaces \ {txn.ns} : documents'[m] = documents[m]
    BY <1>1, <1>3 DEF SqliteInv
  <2>3. ASSUME NEW m \in Namespaces
        PROVE  documents'[m] = [i \in Documents |-> documents'[m][i]]
    <3>1. CASE m = txn.ns
      BY <2>1, <2>2, <3>1
    <3>2. CASE m # txn.ns
      <4>1. documents'[m] = documents[m]
        BY <2>2, <3>2
      <4> QED
        BY <4>1 DEF SqliteInv
    <3> QED
      BY <3>1, <3>2
  <2> QED
    BY <1>1, <2>2, <2>3 DEF SqliteInv
<1> QED
  BY <1>3, <1>6, <1>7

\* A deletion is one statement.
LEMMA SqliteDeleteMaps ==
  ASSUME SqliteInv, NEW s, NEW ns \in Namespaces, NEW ids \in SUBSET Documents,
         Sqlite!Delete(s, ns, ids)
  PROVE  SqliteInv' /\ Sqlite!Contract!Delete(ns, ids)
<1>1. /\ txn = None /\ UNCHANGED <<txn, shut>>
      /\ documents' = [documents EXCEPT ![ns] =
                         [i \in Documents |-> IF i \in ids THEN None ELSE @[i]]]
      /\ answer' = <<"count", Cardinality(Stored(documents[ns]) \cap ids)>>
  BY SqliteBest, SqliteBatches DEF Sqlite!Delete
<1>2. Sqlite!Contract!Delete(ns, ids)
  BY <1>1, SqliteBest, SqliteBatches DEF Sqlite!Contract!Delete
<1>3. SqliteInv'
  <2> DEFINE left == [i \in Documents |-> IF i \in ids THEN None ELSE documents[ns][i]]
  <2>1. left = [i \in Documents |-> left[i]]
    OBVIOUS
  <2>2. documents' = [documents EXCEPT ![ns] = left]
    BY <1>1
  <2> HIDE DEF left
  <2>3. DOMAIN documents' = Namespaces /\ documents'[ns] = left
        /\ \A m \in Namespaces \ {ns} : documents'[m] = documents[m]
    BY <2>2 DEF SqliteInv
  <2>4. ASSUME NEW m \in Namespaces
        PROVE  documents'[m] = [i \in Documents |-> documents'[m][i]]
    <3>1. CASE m = ns
      BY <2>1, <2>3, <3>1
    <3>2. CASE m # ns
      <4>1. documents'[m] = documents[m]
        BY <2>3, <3>2
      <4> QED
        BY <4>1 DEF SqliteInv
    <3> QED
      BY <3>1, <3>2
  <2> QED
    BY <1>1, <2>3, <2>4 DEF SqliteInv
<1> QED
  BY <1>2, <1>3

\* A search reads what is committed, or raises.
LEMMA SqliteSearchMaps ==
  ASSUME NEW s, NEW ns \in Namespaces, NEW filters, NEW limit, NEW width,
         Sqlite!Search(s, ns, filters, limit, width)
  PROVE  Sqlite!Contract!Search(ns, filters, limit, width) \/ Sqlite!Contract!ReadRaises
<1> DEFINE found == {i \in Stored(documents[ns]) : Passes(documents[ns][i], filters)}
<1>1. /\ UNCHANGED <<documents, shut>>
      /\ IF s \in shut \/ \E i \in found : documents[ns][i].width # width
         THEN answer' = <<"raised">>
         ELSE \E top \in Best(Pairs(documents[ns], found), limit) : answer' = <<"found", top>>
  BY SqliteBest, SqliteBatches DEF Sqlite!Search, Sqlite!Open, Sqlite!Raised
<1>2. {i \in Sqlite!Contract!Stored(documents[ns]) :
         Sqlite!Contract!Passes(documents[ns][i], filters)} = found
  BY SqliteBatches
<1>3. found \subseteq Stored(documents[ns])
  OBVIOUS
<1> HIDE DEF found
<1>4. CASE s \in shut /\ answer' = <<"raised">>
  BY <1>1, <1>4 DEF Sqlite!Contract!ReadRaises
<1>5. ASSUME NEW i \in found, documents[ns][i].width # width, answer' = <<"raised">>
      PROVE  Sqlite!Contract!Search(ns, filters, limit, width)
  <2>1. ~Sqlite!Contract!Comparable(ns, width)
    BY <1>3, <1>5, SqliteBatches DEF Sqlite!Contract!Comparable
  <2> QED
    BY <1>1, <1>5, <2>1 DEF Sqlite!Contract!Search
<1>6. ASSUME \A i \in found : documents[ns][i].width = width,
             NEW top \in Best(Pairs(documents[ns], found), limit), answer' = <<"found", top>>
      PROVE  Sqlite!Contract!Search(ns, filters, limit, width)
  <2>1. top \in Sqlite!Contract!Best(Sqlite!Contract!Pairs(documents[ns], found), limit)
    BY <1>6, SqliteBest, SqliteBatches
  <2> QED
    BY <1>1, <1>2, <1>6, <2>1 DEF Sqlite!Contract!Search
<1> QED
  BY <1>1, <1>4, <1>5, <1>6

\* Every step keeps the invariant, and is one of the contract, or changes nothing
\* that it speaks of.
LEMMA SqliteStep ==
  ASSUME SqliteInv, [Sqlite!Next]_sqliteVars
  PROVE  SqliteInv' /\ [Sqlite!Contract!Next]_(Sqlite!Contract!vars)
<1> DEFINE Good == SqliteInv' /\ [Sqlite!Contract!Next]_(Sqlite!Contract!vars)
           Still == UNCHANGED <<documents, shut # {}, answer>>
<1>1. Still \/ Sqlite!Contract!Next => [Sqlite!Contract!Next]_(Sqlite!Contract!vars)
  BY DEF Sqlite!Contract!vars
<1>2. UNCHANGED <<documents, txn>> => SqliteInv'
  BY DEF SqliteInv, Underway
<1>3. UNCHANGED documents /\ txn' = None => SqliteInv'
  BY DEF SqliteInv
<1> HIDE DEF Still
<1>4. CASE UNCHANGED sqliteVars
  <2>1. UNCHANGED <<documents, txn>> /\ Still
    BY <1>4 DEF sqliteVars, Still
  <2> QED
    BY <1>1, <1>2, <2>1
<1>5. ASSUME NEW s, NEW ns \in Namespaces, NEW batch \in Batches,
             Sqlite!UpsertBegin(s, ns, batch)
      PROVE  Good
  <2>1. Still
    BY <1>5 DEF Sqlite!UpsertBegin, Still
  <2> QED
    BY <1>1, <1>5, <2>1, BeginKeeps
<1>6. ASSUME NEW s, NEW ns \in Namespaces, NEW ids \in SUBSET Documents, Sqlite!Delete(s, ns, ids)
      PROVE  Good
  <2>1. SqliteInv' /\ Sqlite!Contract!Delete(ns, ids)
    BY <1>6, SqliteDeleteMaps
  <2>2. Sqlite!Contract!Next
    BY <2>1 DEF Sqlite!Contract!Next
  <2> QED
    BY <1>1, <2>1, <2>2
<1>7. ASSUME NEW s, NEW ns \in Namespaces, NEW filters \in Filters, NEW limit \in 1..2,
             NEW width \in Widths, Sqlite!Search(s, ns, filters, limit, width)
      PROVE  Good
  <2>1. UNCHANGED <<documents, txn>>
    BY <1>7 DEF Sqlite!Search
  <2>2. Sqlite!Contract!Next
    BY <1>7, SqliteSearchMaps, SqliteBatches DEF Sqlite!Contract!Next
  <2> QED
    BY <1>1, <1>2, <2>1, <2>2
<1>8. ASSUME NEW s, NEW ns \in Namespaces, Sqlite!Count(s, ns) PROVE Good
  <2>1. UNCHANGED <<documents, txn, shut>>
        /\ answer' = <<"count", Cardinality(Stored(documents[ns]))>>
    BY <1>8, SqliteBest, SqliteBatches DEF Sqlite!Count
  <2>2. Sqlite!Contract!Count(ns)
    BY <2>1, SqliteBest, SqliteBatches DEF Sqlite!Contract!Count
  <2>3. Sqlite!Contract!Next
    BY <2>2 DEF Sqlite!Contract!Next
  <2> QED
    BY <1>1, <1>2, <2>1, <2>3
<1>9. ASSUME answer' = <<"raised">>, UNCHANGED <<documents, shut>>, txn' \in {txn, None}
      PROVE  Good
  <2>1. Sqlite!Contract!Next
    BY <1>9 DEF Sqlite!Contract!WriteRaises, Sqlite!Contract!Next
  <2> QED
    BY <1>1, <1>2, <1>3, <1>9, <2>1
<1>10. ASSUME answer' = None, UNCHANGED documents, txn' \in {txn, None} PROVE Good
  <2>1. (shut # {})' \in BOOLEAN
    OBVIOUS
  <2>2. Sqlite!Contract!Next
    BY <1>10, <2>1 DEF Sqlite!Contract!Close, Sqlite!Contract!Next
  <2> QED
    BY <1>1, <1>2, <1>3, <1>10, <2>2
<1>11. ASSUME NEW s, Sqlite!WriteRefused(s) \/ Sqlite!Close(s) PROVE Good
  <2>1. CASE Sqlite!WriteRefused(s)
    BY <1>9, <2>1 DEF Sqlite!WriteRefused, Sqlite!Raised
  <2>2. CASE Sqlite!Close(s)
    BY <1>10, <2>2 DEF Sqlite!Close
  <2> QED
    BY <1>11, <2>1, <2>2
<1>12. CASE Sqlite!UpsertRow
  <2>1. Still
    BY <1>12 DEF Sqlite!UpsertRow, Still
  <2> QED
    BY <1>1, <1>12, <2>1, RowKeeps
<1>13. CASE Sqlite!UpsertFails
  BY <1>9, <1>13 DEF Sqlite!UpsertFails, Sqlite!Raised
<1>14. CASE Sqlite!UpsertCommit
  <2>1. PICK ns \in Namespaces, batch \in Batches : Sqlite!Contract!Upsert(ns, batch)
    BY <1>14, CommitMaps
  <2>2. Sqlite!Contract!Next
    BY <2>1, SqliteBatches DEF Sqlite!Contract!Next
  <2> QED
    BY <1>1, <1>14, <2>2, CommitMaps
<1>15. CASE Sqlite!Restart
  BY <1>10, <1>15 DEF Sqlite!Restart
<1> HIDE DEF Good
<1>16. Good
  BY <1>4, <1>5, <1>6, <1>7, <1>8, <1>11, <1>12, <1>13, <1>14, <1>15, SqliteBatches
     DEF Sqlite!Next, Good
<1> QED
  BY <1>16 DEF Good

\* Every behaviour of SqliteStore is one of VectorStore: a transaction that writes
\* its rows one by one, and may fail or die at any of them, is an upsert in one
\* step or none (rag.py, SQLiteVectorStore).
THEOREM SqliteKeepsContract == Sqlite!Spec => Sqlite!SqliteImplements
<1>1. SqliteInv /\ [Sqlite!Next]_(Sqlite!vars)
        => SqliteInv' /\ [Sqlite!Contract!Next]_(Sqlite!Contract!vars)
  <2>1. [Sqlite!Next]_(Sqlite!vars) => [Sqlite!Next]_sqliteVars
    BY DEF Sqlite!vars, sqliteVars
  <2> QED
    BY <2>1, SqliteStep
<1> QED
  BY <1>1, SqliteAtFirst, PTL DEF Sqlite!Spec, Sqlite!SqliteImplements, Sqlite!Contract!Spec

\* A collection's store keeps the contract, whichever it is: FAISS or SQLite, with
\* any interleaving of any operations.
THEOREM StoresKeepContract == StoresSpec => StoresImplement
<1> DEFINE storesVars == <<part, faissVars, sqliteVars>>
<1>1. [StoresNext]_storesVars => [FaissNext]_faissVars /\ [Sqlite!Next]_(Sqlite!vars)
  BY DEF StoresNext, Sqlite!vars, sqliteVars
<1>2. StoresSpec => FaissImplements /\ Sqlite!SqliteImplements
  <2>1. StoresInit => FaissInit /\ Sqlite!Init
    BY DEF StoresInit
  <2> QED
    BY <1>1, <2>1, FaissKeepsContract, SqliteKeepsContract, PTL
       DEF StoresSpec, FaissSpec, Sqlite!Spec
<1>3. [Contract!Next]_(Contract!vars) => [part = "faiss" => Contract!Next]_(Contract!vars)
  OBVIOUS
<1>4. [Sqlite!Contract!Next]_(Sqlite!Contract!vars)
        => [part = "sqlite" => Sqlite!Contract!Next]_(Sqlite!Contract!vars)
  OBVIOUS
<1> QED
  BY <1>2, <1>3, <1>4, PTL
     DEF StoresImplement, FaissImplements, Contract!Spec, Sqlite!SqliteImplements,
         Sqlite!Contract!Spec
=============================================================================
