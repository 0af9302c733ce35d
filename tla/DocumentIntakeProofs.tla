------------------------ MODULE DocumentIntakeProofs ------------------------
(***************************************************************************)
(* Proofs about DocumentIntake and Prefill, for any files, document types, *)
(* samples and answers of the parser.                                      *)
(***************************************************************************)
EXTENDS DocumentIntake, SequenceTheorems, WellFoundedInduction, TLAPS

(* Every nonempty set of natural numbers has a least element.              *)
LEMMA NatLeast ==
  ASSUME NEW T \in SUBSET Nat, T # {}
  PROVE  \E m \in T : \A k \in T : m <= k
<1> DEFINE Less == OpToRel(<, Nat)
<1>1. IsWellFoundedOn(Less, Nat)
  BY NatLessThanWellFounded
<1>2. \A i, j \in Nat : <<i, j>> \in Less <=> i < j
  BY DEF OpToRel
<1> HIDE DEF Less
<1>3. PICK m \in T : \A k \in T : ~ (<<k, m>> \in Less)
  BY <1>1, WFMin
<1>4. ASSUME NEW k \in T PROVE m <= k
  <2>1. k \in Nat /\ m \in Nat
    OBVIOUS
  <2>2. ~ (k < m)
    BY <1>2, <1>3, <2>1
  <2> QED BY <2>1, <2>2
<1> QED BY <1>4
-----------------------------------------------------------------------------
(* Applications and updates.                                               *)

IsFn(f) == f = [k \in DOMAIN f |-> f[k]]

Fields == {"business_profile", "addresses", "directors", "ubos", "business_contacts",
           "ownership_structure", "business_activity", "transfer_behavior", "documents",
           "upload_mode"}

(* The keys of the fields that hold an object.                             *)
Keys(k) ==
  CASE k = "business_profile"  -> {"legal_name", "license_number", "incorporation_date"}
    [] k = "business_activity" -> {"primary_activity"}
    [] OTHER -> {"expected_monthly_volume_usd", "primary_transfer_purpose"}

ObjectOK(k, v) == IsFn(v) /\ DOMAIN v = Keys(k)

(* The person a row of the directors was made for.                         *)
Owner(id) ==
  CASE id[1] = "MEMORANDUM_OF_ASSOCIATION" -> id[2].directors[id[3]]
    [] id[1] = "PASSPORT" -> id[2].full_name
    [] OTHER -> "ahmed"

DirectorOK(d) ==
  /\ IsFn(d) /\ DOMAIN d = {"id", "full_name", "passport_number"}
  /\ d.full_name = Owner(d.id)
DirectorsOK(ds) == \A i \in DOMAIN ds : DirectorOK(ds[i])

NamesOf(ds) == [i \in DOMAIN ds |-> ds[i].full_name]

(* What every application the wizard holds looks like, but for its         *)
(* documents.                                                              *)
AppOK(a) ==
  /\ IsFn(a) /\ DOMAIN a = Fields
  /\ \A k \in Objects : ObjectOK(k, a[k])
  /\ DirectorsOK(a.directors)

(* People and addresses that are in a stay in c.                           *)
Lists(a, c) ==
  /\ NamesOf(a.directors) \in {<<>>, NamesOf(c.directors)}
  /\ a.ubos \in {<<>>, c.ubos}
  /\ a.addresses \in {<<>>, c.addresses}

(* u is an update a document may make to a.                                *)
UpdateOK(u, a) ==
  /\ IsFn(u) /\ DOMAIN u \subseteq Fields \ {"documents", "upload_mode"}
  /\ \A k \in Objects \cap DOMAIN u : ObjectOK(k, u[k])
  /\ "directors" \in DOMAIN u =>
       DirectorsOK(u.directors) /\ NamesOf(a.directors) \in {<<>>, NamesOf(u.directors)}
  /\ "ubos" \in DOMAIN u => a.ubos \in {<<>>, u.ubos}
  /\ "addresses" \in DOMAIN u => a.addresses \in {<<>>, u.addresses}

(* s has b's values where b has any, a's elsewhere.                        *)
IsSpread(s, a, b) ==
  /\ IsFn(s) /\ DOMAIN s = DOMAIN a \cup DOMAIN b
  /\ \A k \in DOMAIN b : s[k] = b[k]
  /\ \A k \in DOMAIN a \ DOMAIN b : s[k] = a[k]

(* What a spread is.                                                       *)
LEMMA SpreadIs ==
  ASSUME NEW a, NEW b
  PROVE  IsSpread(Spread(a, b), a, b)
BY DEF Spread, IsFn, IsSpread

(* Functions with one domain and one value everywhere are one.             *)
LEMMA SameFn ==
  ASSUME NEW f, NEW g, IsFn(f), IsFn(g), DOMAIN f = DOMAIN g,
         \A k \in DOMAIN f : f[k] = g[k]
  PROVE  f = g
BY DEF IsFn

(* Spreads may be taken in any grouping.                                   *)
LEMMA SpreadAssoc ==
  ASSUME NEW a, NEW b, NEW c
  PROVE  Spread(a, Spread(b, c)) = Spread(Spread(a, b), c)
<1>1. PICK bc : bc = Spread(b, c)
  OBVIOUS
<1>2. PICK ab : ab = Spread(a, b)
  OBVIOUS
<1>3. IsSpread(bc, b, c)
  BY <1>1, SpreadIs
<1>4. IsSpread(ab, a, b)
  BY <1>2, SpreadIs
<1>5. PICK l : l = Spread(a, bc)
  OBVIOUS
<1>6. PICK r : r = Spread(ab, c)
  OBVIOUS
<1>7. IsSpread(l, a, bc)
  BY <1>5, SpreadIs
<1>8. IsSpread(r, ab, c)
  BY <1>6, SpreadIs
<1>9. DOMAIN l = DOMAIN r /\ \A k \in DOMAIN l : l[k] = r[k]
  BY <1>3, <1>4, <1>7, <1>8 DEF IsSpread
<1>10. l = r
  BY <1>7, <1>8, <1>9, SameFn DEF IsSpread
<1> QED BY <1>1, <1>2, <1>5, <1>6, <1>10

(* Nothing changes nothing.                                                *)
LEMMA SpreadNothing ==
  ASSUME NEW a, IsFn(a)
  PROVE  Spread(a, NoUpdate) = a /\ UpdateOK(NoUpdate, a) /\ DOMAIN NoUpdate = {}
<1>1. DOMAIN NoUpdate = {} /\ IsFn(NoUpdate)
  BY DEF NoUpdate, IsFn
<1>2. UpdateOK(NoUpdate, a)
  BY <1>1 DEF UpdateOK
<1>3. PICK x : x = Spread(a, NoUpdate)
  OBVIOUS
<1>4. IsSpread(x, a, NoUpdate)
  BY <1>3, SpreadIs
<1>5. x = a
  BY <1>1, <1>4, SameFn DEF IsSpread
<1> QED BY <1>1, <1>2, <1>3, <1>5

(* An update leads to an application with the people, the addresses, the   *)
(* documents and the mode of the one it was made for.                      *)
LEMMA UpdateApplies ==
  ASSUME NEW a, NEW u, AppOK(a), UpdateOK(u, a)
  PROVE  /\ AppOK(Spread(a, u)) /\ Lists(a, Spread(a, u))
         /\ Spread(a, u).documents = a.documents
<1>1. PICK c : c = Spread(a, u)
  OBVIOUS
<1>2. IsSpread(c, a, u)
  BY <1>1, SpreadIs
<1>3. IsFn(c) /\ DOMAIN c = Fields
  BY <1>2 DEF IsSpread, AppOK, UpdateOK
<1>4. \A k \in Fields : c[k] = IF k \in DOMAIN u THEN u[k] ELSE a[k]
  BY <1>2 DEF IsSpread, AppOK, UpdateOK
<1>5. \A k \in Objects : ObjectOK(k, c[k])
  BY <1>4 DEF AppOK, UpdateOK, Objects, Fields
<1>6. DirectorsOK(c.directors)
  BY <1>4 DEF AppOK, UpdateOK, Fields
<1>7. NamesOf(a.directors) \in {<<>>, NamesOf(c.directors)}
  BY <1>4 DEF UpdateOK, Fields
<1>8. a.ubos \in {<<>>, c.ubos} /\ a.addresses \in {<<>>, c.addresses}
  BY <1>4 DEF UpdateOK, Fields
<1>9. c.documents = a.documents
  BY <1>4 DEF UpdateOK, Fields
<1>10. AppOK(c) /\ Lists(a, c)
  BY <1>3, <1>5, <1>6, <1>7, <1>8 DEF AppOK, Lists
<1> QED BY <1>1, <1>9, <1>10

(* Two updates of one application make an update.                          *)
LEMMA UpdatesJoin ==
  ASSUME NEW a, NEW u, NEW v, UpdateOK(u, a), UpdateOK(v, a)
  PROVE  UpdateOK(Spread(u, v), a)
<1>1. PICK w : w = Spread(u, v)
  OBVIOUS
<1>2. IsSpread(w, u, v)
  BY <1>1, SpreadIs
<1>3. IsFn(w) /\ DOMAIN w = DOMAIN u \cup DOMAIN v
  BY <1>2 DEF IsSpread
<1>4. /\ \A k \in DOMAIN v : w[k] = v[k]
      /\ \A k \in DOMAIN u \ DOMAIN v : w[k] = u[k]
  BY <1>2 DEF IsSpread
<1>5. DOMAIN w \subseteq Fields \ {"documents", "upload_mode"}
  BY <1>3 DEF UpdateOK
<1>6. \A k \in Objects \cap DOMAIN w : ObjectOK(k, w[k])
  BY <1>3, <1>4 DEF UpdateOK
<1>7. "directors" \in DOMAIN w =>
        DirectorsOK(w.directors) /\ NamesOf(a.directors) \in {<<>>, NamesOf(w.directors)}
  BY <1>3, <1>4 DEF UpdateOK
<1>8. /\ "ubos" \in DOMAIN w => a.ubos \in {<<>>, w.ubos}
      /\ "addresses" \in DOMAIN w => a.addresses \in {<<>>, w.addresses}
  BY <1>3, <1>4 DEF UpdateOK
<1>9. UpdateOK(w, a)
  BY <1>3, <1>5, <1>6, <1>7, <1>8 DEF UpdateOK
<1> QED BY <1>1, <1>9

(* An update followed by one made for its result.                          *)
LEMMA UpdatesCompose ==
  ASSUME NEW a, NEW m, NEW u, AppOK(a), UpdateOK(m, a), UpdateOK(u, Spread(a, m))
  PROVE  /\ deepMerge(m, u) = Spread(m, u) /\ UpdateOK(Spread(m, u), a)
         /\ Spread(a, Spread(m, u)) = Spread(Spread(a, m), u)
<1>1. PICK c : c = Spread(a, m)
  OBVIOUS
<1>2. UpdateOK(u, c) /\ Lists(a, c)
  BY <1>1, UpdateApplies
<1>3. UpdateOK(u, a)
  BY <1>2 DEF UpdateOK, Lists
<1>4. UpdateOK(Spread(m, u), a)
  BY <1>3, UpdatesJoin
<1>5. deepMerge(m, u) = Spread(m, u)
  <2>1. PICK d : d = [k \in DOMAIN u |->
                        IF k \in Objects /\ k \in DOMAIN m THEN Spread(m[k], u[k]) ELSE u[k]]
    OBVIOUS
  <2>2. IsFn(d) /\ DOMAIN d = DOMAIN u
    BY <2>1 DEF IsFn
  <2>3. ASSUME NEW k \in DOMAIN u PROVE d[k] = u[k]
    <3>1. CASE k \in Objects /\ k \in DOMAIN m
      <4>1. ObjectOK(k, m[k]) /\ ObjectOK(k, u[k])
        BY <1>2, <3>1 DEF UpdateOK
      <4>2. PICK x : x = Spread(m[k], u[k])
        OBVIOUS
      <4>3. IsSpread(x, m[k], u[k])
        BY <4>2, SpreadIs
      <4>4. x = u[k]
        BY <4>1, <4>3, SameFn DEF IsSpread, ObjectOK
      <4>5. d[k] = Spread(m[k], u[k])
        BY <2>1, <3>1
      <4> QED BY <4>2, <4>4, <4>5
    <3>2. CASE ~ (k \in Objects /\ k \in DOMAIN m)
      BY <2>1, <3>2
    <3> QED BY <3>1, <3>2
  <2>4. d = u
    BY <1>2, <2>2, <2>3, SameFn DEF UpdateOK
  <2> QED BY <2>1, <2>4 DEF deepMerge
<1> QED BY <1>4, <1>5, SpreadAssoc
-----------------------------------------------------------------------------
(* The mappers.                                                            *)

(* New values for keys an object has.                                      *)
LEMMA ObjectSpread ==
  ASSUME NEW k, NEW v, NEW w, ObjectOK(k, v), DOMAIN w \subseteq Keys(k)
  PROVE  ObjectOK(k, Spread(v, w))
<1>1. PICK x : x = Spread(v, w)
  OBVIOUS
<1>2. IsSpread(x, v, w)
  BY <1>1, SpreadIs
<1>3. ObjectOK(k, x)
  BY <1>2 DEF IsSpread, ObjectOK
<1> QED BY <1>1, <1>3

(* Updates of one field.                                                   *)
LEMMA OneObject ==
  ASSUME NEW a, NEW v
  PROVE  /\ ObjectOK("business_profile", v) => UpdateOK([business_profile |-> v], a)
         /\ ObjectOK("business_activity", v) => UpdateOK([business_activity |-> v], a)
         /\ ObjectOK("transfer_behavior", v) => UpdateOK([transfer_behavior |-> v], a)
<1>1. ObjectOK("business_profile", v) => UpdateOK([business_profile |-> v], a)
  BY DEF UpdateOK, IsFn, Objects, Fields
<1>2. ObjectOK("business_activity", v) => UpdateOK([business_activity |-> v], a)
  BY DEF UpdateOK, IsFn, Objects, Fields
<1>3. ObjectOK("transfer_behavior", v) => UpdateOK([transfer_behavior |-> v], a)
  BY DEF UpdateOK, IsFn, Objects, Fields
<1> QED BY <1>1, <1>2, <1>3

(* Updates of one list.                                                    *)
LEMMA OneList ==
  ASSUME NEW a, NEW v
  PROVE  /\ DirectorsOK(v) /\ NamesOf(a.directors) \in {<<>>, NamesOf(v)}
           => UpdateOK([directors |-> v], a)
         /\ a.ubos \in {<<>>, v} => UpdateOK([ubos |-> v], a)
         /\ a.addresses \in {<<>>, v} => UpdateOK([addresses |-> v], a)
<1>1. DirectorsOK(v) /\ NamesOf(a.directors) \in {<<>>, NamesOf(v)}
      => UpdateOK([directors |-> v], a)
  BY DEF UpdateOK, IsFn, Objects, Fields
<1>2. a.ubos \in {<<>>, v} => UpdateOK([ubos |-> v], a)
  BY DEF UpdateOK, IsFn, Objects, Fields
<1>3. a.addresses \in {<<>>, v} => UpdateOK([addresses |-> v], a)
  BY DEF UpdateOK, IsFn, Objects, Fields
<1> QED BY <1>1, <1>2, <1>3

(* No directors have no names.                                             *)
LEMMA NoNames == NamesOf(<<>>) = <<>>
BY DEF NamesOf

(* A row is of the person it was made for.                                 *)
LEMMA DirectorMade ==
  ASSUME NEW from, NEW data, NEW i, NEW name, NEW number, name = Owner(<<from, data, i>>)
  PROVE  DirectorOK(Director(from, data, i, name, number))
<1>1. PICK id : id = <<from, data, i>>
  OBVIOUS
<1>2. PICK d : d = Director(from, data, i, name, number)
  OBVIOUS
<1>3. d = [id |-> id, full_name |-> name, passport_number |-> number]
  BY <1>1, <1>2 DEF Director
<1>4. name = Owner(id)
  BY <1>1
<1>5. /\ IsFn(d) /\ DOMAIN d = {"id", "full_name", "passport_number"}
      /\ d.full_name = name /\ d.id = id
  BY <1>3 DEF IsFn
<1>6. DirectorOK(d)
  BY <1>4, <1>5 DEF DirectorOK
<1> QED BY <1>2, <1>6

(* A memorandum.                                                           *)
LEMMA MemorandumOK ==
  ASSUME NEW data, NEW a, AppOK(a)
  PROVE  UpdateOK(mapMemorandum(data, a), a)
<1> DEFINE old == a.business_profile
           profile == [business_profile |->
                     Spread(old, [legal_name |-> Or(data.company_name, old.legal_name),
                                  incorporation_date |->
                                    Or(data.date_of_formation, old.incorporation_date)])]
           ds == [i \in DOMAIN data.directors |->
                    Director("MEMORANDUM_OF_ASSOCIATION", data, i, data.directors[i], Null)]
           directors == IF data.directors # <<>> /\ a.directors = <<>>
                        THEN [directors |-> ds] ELSE NoUpdate
           holders == SelectSeq(data.shareholders, LAMBDA s : s.share_percentage >= 10)
           us == [i \in DOMAIN holders |-> holders[i].name]
           ubos == IF data.shareholders # <<>> /\ a.ubos = <<>>
                   THEN [ubos |-> us] ELSE NoUpdate
           as == <<data.registered_address>>
           address == IF data.registered_address # Null /\ a.addresses = <<>>
                      THEN [addresses |-> as] ELSE NoUpdate
           ac == Spread(a.business_activity,
                        [primary_activity |-> data.business_activities[1]])
           activity == IF data.business_activities # <<>>
                       THEN [business_activity |-> ac] ELSE NoUpdate
<1>0. IsFn(a) /\ UpdateOK(NoUpdate, a)
  BY SpreadNothing DEF AppOK
<1>1. UpdateOK(profile, a)
  <2> DEFINE w == [legal_name |-> Or(data.company_name, old.legal_name),
                   incorporation_date |->
                     Or(data.date_of_formation, old.incorporation_date)]
  <2>1. DOMAIN w \subseteq Keys("business_profile")
    BY DEF Keys
  <2>2. ObjectOK("business_profile", old)
    BY DEF AppOK, Objects
  <2> HIDE DEF w
  <2>3. ObjectOK("business_profile", Spread(old, w))
    BY <2>1, <2>2, ObjectSpread
  <2>4. UpdateOK([business_profile |-> Spread(old, w)], a)
    BY <2>3, OneObject
  <2> QED BY <2>4 DEF w
<1>2. UpdateOK(directors, a)
  <2>1. DirectorsOK(ds)
    <3>1. ASSUME NEW i \in DOMAIN data.directors PROVE DirectorOK(ds[i])
      <4>1. data.directors[i] = Owner(<<"MEMORANDUM_OF_ASSOCIATION", data, i>>)
        BY DEF Owner
      <4>2. PICK name : name = data.directors[i]
        OBVIOUS
      <4>3. DirectorOK(Director("MEMORANDUM_OF_ASSOCIATION", data, i, name, Null))
        BY <4>1, <4>2, DirectorMade
      <4> QED BY <4>2, <4>3
    <3>2. DOMAIN ds = DOMAIN data.directors
      OBVIOUS
    <3> HIDE DEF ds
    <3> QED BY <3>1, <3>2 DEF DirectorsOK
  <2> HIDE DEF ds
  <2>2. a.directors = <<>> => UpdateOK([directors |-> ds], a)
    BY <2>1, NoNames, OneList
  <2> QED BY <1>0, <2>2
<1>3. UpdateOK(ubos, a)
  <2> HIDE DEF us
  <2>1. a.ubos = <<>> => UpdateOK([ubos |-> us], a)
    BY OneList
  <2> QED BY <1>0, <2>1
<1>4. UpdateOK(address, a)
  <2> HIDE DEF as
  <2>1. a.addresses = <<>> => UpdateOK([addresses |-> as], a)
    BY OneList
  <2> QED BY <1>0, <2>1
<1>5. UpdateOK(activity, a)
  <2> DEFINE w == [primary_activity |-> data.business_activities[1]]
  <2>1. DOMAIN w \subseteq Keys("business_activity")
    BY DEF Keys
  <2>2. ObjectOK("business_activity", a.business_activity)
    BY DEF AppOK, Objects
  <2> HIDE DEF w
  <2>3. ObjectOK("business_activity", Spread(a.business_activity, w))
    BY <2>1, <2>2, ObjectSpread
  <2>4. UpdateOK([business_activity |-> Spread(a.business_activity, w)], a)
    BY <2>3, OneObject
  <2>5. UpdateOK([business_activity |-> ac], a)
    BY <2>4 DEF w
  <2> HIDE DEF ac
  <2> QED BY <1>0, <2>5
<1>6. mapMemorandum(data, a)
      = Spread(Spread(Spread(profile, directors), Spread(ubos, address)), activity)
  BY DEF mapMemorandum
<1> HIDE DEF profile, directors, ubos, address, activity
<1>7. UpdateOK(Spread(profile, directors), a) /\ UpdateOK(Spread(ubos, address), a)
  BY <1>1, <1>2, <1>3, <1>4, UpdatesJoin
<1>8. UpdateOK(Spread(Spread(profile, directors), Spread(ubos, address)), a)
  BY <1>7, UpdatesJoin
<1>9. UpdateOK(Spread(Spread(Spread(profile, directors), Spread(ubos, address)), activity), a)
  BY <1>5, <1>8, UpdatesJoin
<1> QED BY <1>6, <1>9

(* A passport.                                                             *)
LEMMA PassportOK ==
  ASSUME NEW data, NEW a, AppOK(a)
  PROVE  UpdateOK(mapPassport(data, a), a)
<1> DEFINE existing == Named(a, data.full_name)
           first == CHOOSE i \in existing : \A j \in existing : i <= j
           number(i) == Or(data.id_number, a.directors[i].passport_number)
           completed == [i \in DOMAIN a.directors |->
                           IF i = first
                           THEN Spread(a.directors[i], [passport_number |-> number(i)])
                           ELSE a.directors[i]]
           added == <<Director("PASSPORT", data, 1, data.full_name, data.id_number)>>
<1>1. UpdateOK(NoUpdate, a)
  BY SpreadNothing DEF AppOK
<1>2. UpdateOK([directors |-> completed], a)
  <2>1. ASSUME NEW i \in DOMAIN a.directors
        PROVE  /\ DirectorOK(completed[i])
               /\ completed[i].full_name = a.directors[i].full_name
    <3>1. DirectorOK(a.directors[i])
      BY DEF AppOK, DirectorsOK
    <3>2. CASE i = first
      <4>1. PICK w : w = [passport_number |-> number(i)]
        OBVIOUS
      <4>2. DOMAIN w = {"passport_number"}
        BY <4>1
      <4>3. PICK x : x = Spread(a.directors[i], w)
        OBVIOUS
      <4>4. IsSpread(x, a.directors[i], w)
        BY <4>3, SpreadIs
      <4>5. completed[i] = x
        BY <3>2, <4>1, <4>3
      <4>6. /\ IsFn(x) /\ DOMAIN x = {"id", "full_name", "passport_number"}
            /\ x.full_name = a.directors[i].full_name /\ x.id = a.directors[i].id
        BY <3>1, <4>2, <4>4 DEF IsSpread, DirectorOK
      <4> HIDE DEF completed
      <4> QED BY <3>1, <4>5, <4>6 DEF DirectorOK
    <3>3. CASE i # first
      <4>1. completed[i] = a.directors[i]
        BY <3>3
      <4> HIDE DEF completed
      <4> QED BY <3>1, <4>1
    <3> QED BY <3>2, <3>3
  <2>2. DOMAIN completed = DOMAIN a.directors
    OBVIOUS
  <2> HIDE DEF completed
  <2>3. DirectorsOK(completed)
    BY <2>1, <2>2 DEF DirectorsOK
  <2>4. NamesOf(completed) = NamesOf(a.directors)
    BY <2>1, <2>2 DEF NamesOf
  <2> QED BY <2>3, <2>4, OneList
<1>3. a.directors = <<>> => UpdateOK([directors |-> added], a)
  <2>1. DirectorsOK(added)
    <3>1. PICK d : d = Director("PASSPORT", data, 1, data.full_name, data.id_number)
      OBVIOUS
    <3>2. data.full_name = Owner(<<"PASSPORT", data, 1>>)
      BY DEF Owner
    <3>3. DirectorOK(d)
      BY <3>1, <3>2, DirectorMade
    <3>4. added = <<d>>
      BY <3>1
    <3> HIDE DEF added
    <3> QED BY <3>3, <3>4 DEF DirectorsOK
  <2> HIDE DEF added
  <2> QED BY <2>1, NoNames, OneList
<1>4. mapPassport(data, a) \in {NoUpdate, [directors |-> completed]} \/
      (a.directors = <<>> /\ mapPassport(data, a) = [directors |-> added])
  <2>1. mapPassport(data, a) =
          IF data.full_name = Null THEN NoUpdate
          ELSE IF existing # {} THEN [directors |-> completed]
          ELSE IF a.directors = <<>> THEN [directors |-> added] ELSE NoUpdate
    BY DEF mapPassport
  <2> HIDE DEF existing, completed, added
  <2> QED BY <2>1
<1> HIDE DEF completed, added
<1> QED BY <1>1, <1>2, <1>3, <1>4

(* A national id.                                                          *)
LEMMA NationalIdOK ==
  ASSUME NEW data, NEW a, AppOK(a)
  PROVE  UpdateOK(mapNationalId(data, a), a)
<1>1. UpdateOK(NoUpdate, a)
  BY SpreadNothing DEF AppOK
<1>2. UpdateOK([directors |-> a.directors], a)
  BY OneList DEF AppOK
<1> QED BY <1>1, <1>2 DEF mapNationalId

(* What a document may make of the profile.                                *)
LEMMA ProfileOK ==
  ASSUME NEW a, NEW w, AppOK(a), DOMAIN w \subseteq Keys("business_profile")
  PROVE  UpdateOK([business_profile |-> Spread(a.business_profile, w)], a)
<1>1. ObjectOK("business_profile", a.business_profile)
  BY DEF AppOK, Objects
<1>2. ObjectOK("business_profile", Spread(a.business_profile, w))
  BY <1>1, ObjectSpread
<1> QED BY <1>2, OneObject

(* A bank statement.                                                       *)
LEMMA BankStatementOK ==
  ASSUME NEW data, NEW a, AppOK(a)
  PROVE  UpdateOK(mapBankStatement(data, a), a)
<1> DEFINE v == [expected_monthly_volume_usd |-> data.total_credits,
                 primary_transfer_purpose |->
                    Or(a.transfer_behavior.primary_transfer_purpose, "operating")]
           w == [legal_name |-> data.account_holder]
           volume == IF data.total_credits = Null THEN NoUpdate ELSE [transfer_behavior |-> v]
           holder == IF data.account_holder # Null /\ a.business_profile.legal_name = Null
                     THEN [business_profile |-> Spread(a.business_profile, w)] ELSE NoUpdate
<1>1. UpdateOK(NoUpdate, a)
  BY SpreadNothing DEF AppOK
<1>2. UpdateOK(volume, a)
  <2>1. ObjectOK("transfer_behavior", v)
    BY DEF ObjectOK, IsFn, Keys
  <2> HIDE DEF v
  <2>2. UpdateOK([transfer_behavior |-> v], a)
    BY <2>1, OneObject
  <2> QED BY <1>1, <2>2
<1>3. UpdateOK(holder, a)
  <2>1. DOMAIN w \subseteq Keys("business_profile")
    BY DEF Keys
  <2> HIDE DEF w
  <2>2. UpdateOK([business_profile |-> Spread(a.business_profile, w)], a)
    BY <2>1, ProfileOK
  <2> QED BY <1>1, <2>2
<1>4. mapBankStatement(data, a) = Spread(volume, holder)
  BY DEF mapBankStatement
<1> HIDE DEF volume, holder
<1> QED BY <1>2, <1>3, <1>4, UpdatesJoin

(* A trade license.                                                        *)
LEMMA TradeLicenseOK ==
  ASSUME NEW data, NEW a, AppOK(a)
  PROVE  UpdateOK(mapTradeLicense(data, a), a)
<1> DEFINE old == a.business_profile
           w == [legal_name |-> Or(data.legal_name, old.legal_name),
                 license_number |-> Or(data.license_number, old.license_number)]
<1>1. DOMAIN w \subseteq Keys("business_profile")
  BY DEF Keys
<1>2. mapTradeLicense(data, a) = [business_profile |-> Spread(old, w)]
  BY DEF mapTradeLicense
<1> HIDE DEF w
<1> QED BY <1>1, <1>2, ProfileOK

(* A certificate of incorporation.                                         *)
LEMMA CoiOK ==
  ASSUME NEW data, NEW a, AppOK(a)
  PROVE  UpdateOK(mapCoi(data, a), a)
<1> DEFINE old == a.business_profile
           w == [legal_name |-> Or(data.company_name, old.legal_name),
                 incorporation_date |->
                   Or(data.incorporation_date, old.incorporation_date)]
<1>1. DOMAIN w \subseteq Keys("business_profile")
  BY DEF Keys
<1>2. mapCoi(data, a) = [business_profile |-> Spread(old, w)]
  BY DEF mapCoi
<1> HIDE DEF w
<1> QED BY <1>1, <1>2, ProfileOK

(* A proof of address.                                                     *)
LEMMA ProofOfAddressOK ==
  ASSUME NEW data, NEW a, AppOK(a)
  PROVE  UpdateOK(mapProofOfAddress(data, a), a)
<1>1. UpdateOK(NoUpdate, a)
  BY SpreadNothing DEF AppOK
<1>2. PICK v : v = <<data.line1>>
  OBVIOUS
<1>3. a.addresses = <<>> => UpdateOK([addresses |-> v], a)
  BY OneList
<1> QED BY <1>1, <1>2, <1>3 DEF mapProofOfAddress

(* Whatever the parser answers, for whatever type.                         *)
LEMMA MapperOK ==
  ASSUME NEW docType, NEW data, NEW a, AppOK(a)
  PROVE  UpdateOK(MAPPERS(docType, data, a), a)
<1>1. UpdateOK(NoUpdate, a)
  BY SpreadNothing DEF AppOK
<1>2. /\ UpdateOK(mapMemorandum(data, a), a) /\ UpdateOK(mapPassport(data, a), a)
      /\ UpdateOK(mapNationalId(data, a), a) /\ UpdateOK(mapBankStatement(data, a), a)
      /\ UpdateOK(mapTradeLicense(data, a), a) /\ UpdateOK(mapCoi(data, a), a)
      /\ UpdateOK(mapProofOfAddress(data, a), a)
  BY MemorandumOK, PassportOK, NationalIdOK, BankStatementOK, TradeLicenseOK, CoiOK,
     ProofOfAddressOK
<1> QED BY <1>1, <1>2 DEF MAPPERS

(* The bundled samples.                                                    *)
LEMMA SampleOK ==
  ASSUME NEW t \in SampleTypes, NEW a, AppOK(a)
  PROVE  UpdateOK(applyPrefill(t, a), a)
<1>1. CASE t = "TRADE_LICENSE"
  <2> DEFINE w == [legal_name |-> "sample", license_number |-> "sample"]
  <2>1. DOMAIN w \subseteq Keys("business_profile")
    BY DEF Keys
  <2>2. applyPrefill(t, a) = [business_profile |-> Spread(a.business_profile, w)]
    BY <1>1 DEF applyPrefill
  <2> HIDE DEF w
  <2> QED BY <2>1, <2>2, ProfileOK
<1>2. CASE t = "CERTIFICATE_OF_INCORPORATION"
  <2> DEFINE w == [incorporation_date |-> "sample"]
  <2>1. DOMAIN w \subseteq Keys("business_profile")
    BY DEF Keys
  <2>2. applyPrefill(t, a) = [business_profile |-> Spread(a.business_profile, w)]
    BY <1>2 DEF applyPrefill
  <2> HIDE DEF w
  <2> QED BY <2>1, <2>2, ProfileOK
<1>3. CASE t = "BANK_STATEMENT"
  <2> DEFINE v == [expected_monthly_volume_usd |-> "sample",
                   primary_transfer_purpose |-> "operating"]
  <2>1. ObjectOK("transfer_behavior", v)
    BY DEF ObjectOK, IsFn, Keys
  <2>2. applyPrefill(t, a) = [transfer_behavior |-> v]
    BY <1>3 DEF applyPrefill
  <2> HIDE DEF v
  <2> QED BY <2>1, <2>2, OneObject
<1>4. CASE t = "MEMORANDUM_OF_ASSOCIATION"
  <2> DEFINE o == [a.ownership_structure EXCEPT !.is_subsidiary = FALSE]
             v == IF a.ubos # <<>> THEN a.ubos ELSE <<"ahmed", "sarah">>
             u == [ownership_structure |-> o, ubos |-> v]
  <2>1. applyPrefill(t, a) = u
    BY <1>4 DEF applyPrefill, samplePeople
  <2>2. a.ubos \in {<<>>, v}
    OBVIOUS
  <2> HIDE DEF o, v
  <2>3. IsFn(u) /\ DOMAIN u = {"ownership_structure", "ubos"} /\ u.ubos = v
    BY DEF IsFn
  <2> HIDE DEF u
  <2>4. UpdateOK(u, a)
    BY <2>2, <2>3 DEF UpdateOK, Objects, Fields
  <2> QED BY <2>1, <2>4
<1>5. CASE t = "PASSPORT"
  <2> DEFINE s == <<Director("sample", Null, 1, "ahmed", "sample")>>
             v == IF a.directors # <<>> THEN a.directors ELSE s
  <2>1. applyPrefill(t, a) = [directors |-> v]
    BY <1>5 DEF applyPrefill, samplePeople
  <2>2. DirectorsOK(s)
    <3>1. PICK d : d = Director("sample", Null, 1, "ahmed", "sample")
      OBVIOUS
    <3>2. "ahmed" = Owner(<<"sample", Null, 1>>)
      BY DEF Owner
    <3>3. DirectorOK(d)
      BY <3>1, <3>2, DirectorMade
    <3>4. s = <<d>>
      BY <3>1
    <3> HIDE DEF s
    <3> QED BY <3>3, <3>4 DEF DirectorsOK
  <2> HIDE DEF s
  <2>3. DirectorsOK(v) /\ NamesOf(a.directors) \in {<<>>, NamesOf(v)}
    BY <2>2, NoNames DEF AppOK
  <2> HIDE DEF v
  <2> QED BY <2>1, <2>3, OneList
<1>6. CASE t = "EMIRATES_ID"
  <2>1. applyPrefill(t, a) = [directors |-> a.directors]
    BY <1>6 DEF applyPrefill, samplePeople
  <2> QED BY <2>1, OneList DEF AppOK
<1>7. CASE t = "PROOF_OF_ADDRESS"
  <2> DEFINE v == IF a.addresses # <<>> THEN a.addresses ELSE <<"office", "apartment">>
  <2>1. applyPrefill(t, a) = [addresses |-> v]
    BY <1>7 DEF applyPrefill, samplePeople
  <2>2. a.addresses \in {<<>>, v}
    OBVIOUS
  <2> HIDE DEF v
  <2> QED BY <2>1, <2>2, OneList
<1> QED BY <1>1, <1>2, <1>3, <1>4, <1>5, <1>6, <1>7 DEF SampleTypes
-----------------------------------------------------------------------------
(* The folds: what the recursive definitions compute, step by step.        *)

(* f is the recursive function in Filter.                                  *)
IsFiltered(f, s, S, n) ==
  f = [k \in 0..n |-> IF k = 0 THEN <<>> ELSE IF s[k] \in S THEN Append(f[k - 1], s[k]) ELSE f[k - 1]]

(* It exists.                                                              *)
LEMMA FilteredExists ==
  ASSUME NEW s, NEW S, NEW n \in Nat
  PROVE  \E f : IsFiltered(f, s, S, n)
<1> DEFINE T == {k \in Nat : ~ \E f : IsFiltered(f, s, S, k)}
<1> SUFFICES ASSUME T # {} PROVE FALSE
  OBVIOUS
<1>1. PICK m \in T : \A k \in T : m <= k
  <2>1. T \in SUBSET Nat
    OBVIOUS
  <2> HIDE DEF T
  <2> QED BY <2>1, NatLeast
<1>2. CASE m = 0
  <2>1. IsFiltered([k \in 0..0 |-> <<>>], s, S, 0)
    BY DEF IsFiltered
  <2> QED BY <1>2, <2>1
<1>3. CASE m # 0
  <2>1. m - 1 \in Nat /\ m - 1 \notin T
    BY <1>1, <1>3
  <2>2. PICK f : IsFiltered(f, s, S, m - 1)
    BY <2>1
  <2> DEFINE last == IF s[m] \in S THEN Append(f[m - 1], s[m]) ELSE f[m - 1]
             r == [k \in 0..m |-> IF k = m THEN last ELSE f[k]]
  <2>3. IsFiltered(r, s, S, m)
    <3>1. ASSUME NEW k \in 0..m
          PROVE  r[k] = IF k = 0 THEN <<>> ELSE IF s[k] \in S THEN Append(r[k - 1], s[k]) ELSE r[k - 1]
      <4>1. CASE k = m
        BY <1>3, <4>1
      <4>2. CASE k # m
        <5>1. k \in 0..(m - 1) /\ r[k] = f[k] /\ (k # 0 => r[k - 1] = f[k - 1])
          BY <4>2, <1>3
        <5> HIDE DEF r
        <5> QED BY <2>2, <5>1 DEF IsFiltered
      <4> QED BY <4>1, <4>2
    <3> QED BY <3>1 DEF IsFiltered
  <2> QED BY <2>3
<1> QED BY <1>2, <1>3

(* f is the recursive function in mapExtractionToApplication.              *)
IsMerged(f, results, a, n) ==
  f = [k \in 0..n |-> IF k = 0 THEN NoUpdate ELSE Merge(f[k - 1], results[k], a)]

(* It exists.                                                              *)
LEMMA MergedExists ==
  ASSUME NEW results, NEW a, NEW n \in Nat
  PROVE  \E f : IsMerged(f, results, a, n)
<1> DEFINE T == {k \in Nat : ~ \E f : IsMerged(f, results, a, k)}
<1> SUFFICES ASSUME T # {} PROVE FALSE
  OBVIOUS
<1>1. PICK m \in T : \A k \in T : m <= k
  <2>1. T \in SUBSET Nat
    OBVIOUS
  <2> HIDE DEF T
  <2> QED BY <2>1, NatLeast
<1>2. CASE m = 0
  <2>1. IsMerged([k \in 0..0 |-> NoUpdate], results, a, 0)
    BY DEF IsMerged
  <2> QED BY <1>2, <2>1
<1>3. CASE m # 0
  <2>1. m - 1 \in Nat /\ m - 1 \notin T
    BY <1>1, <1>3
  <2>2. PICK f : IsMerged(f, results, a, m - 1)
    BY <2>1
  <2> DEFINE last == Merge(f[m - 1], results[m], a)
             r == [k \in 0..m |-> IF k = m THEN last ELSE f[k]]
  <2>3. IsMerged(r, results, a, m)
    <3>1. ASSUME NEW k \in 0..m
          PROVE  r[k] = IF k = 0 THEN NoUpdate ELSE Merge(r[k - 1], results[k], a)
      <4>1. CASE k = m
        BY <1>3, <4>1
      <4>2. CASE k # m
        <5>1. k \in 0..(m - 1) /\ r[k] = f[k] /\ (k # 0 => r[k - 1] = f[k - 1])
          BY <4>2, <1>3
        <5> HIDE DEF r
        <5> QED BY <2>2, <5>1 DEF IsMerged
      <4> QED BY <4>1, <4>2
    <3> QED BY <3>1 DEF IsMerged
  <2> QED BY <2>3
<1> QED BY <1>2, <1>3

(* f is the recursive function in processSampleEntries.                    *)
IsPrefilled(f, types, a, n) ==
  f = [k \in 0..n |-> IF k = 0 THEN NoUpdate ELSE Spread(f[k - 1], applyPrefill(types[k], Spread(a, f[k - 1])))]

(* It exists.                                                              *)
LEMMA PrefilledExists ==
  ASSUME NEW types, NEW a, NEW n \in Nat
  PROVE  \E f : IsPrefilled(f, types, a, n)
<1> DEFINE T == {k \in Nat : ~ \E f : IsPrefilled(f, types, a, k)}
<1> SUFFICES ASSUME T # {} PROVE FALSE
  OBVIOUS
<1>1. PICK m \in T : \A k \in T : m <= k
  <2>1. T \in SUBSET Nat
    OBVIOUS
  <2> HIDE DEF T
  <2> QED BY <2>1, NatLeast
<1>2. CASE m = 0
  <2>1. IsPrefilled([k \in 0..0 |-> NoUpdate], types, a, 0)
    BY DEF IsPrefilled
  <2> QED BY <1>2, <2>1
<1>3. CASE m # 0
  <2>1. m - 1 \in Nat /\ m - 1 \notin T
    BY <1>1, <1>3
  <2>2. PICK f : IsPrefilled(f, types, a, m - 1)
    BY <2>1
  <2> DEFINE last == Spread(f[m - 1], applyPrefill(types[m], Spread(a, f[m - 1])))
             r == [k \in 0..m |-> IF k = m THEN last ELSE f[k]]
  <2>3. IsPrefilled(r, types, a, m)
    <3>1. ASSUME NEW k \in 0..m
          PROVE  r[k] = IF k = 0 THEN NoUpdate ELSE Spread(r[k - 1], applyPrefill(types[k], Spread(a, r[k - 1])))
      <4>1. CASE k = m
        BY <1>3, <4>1
      <4>2. CASE k # m
        <5>1. k \in 0..(m - 1) /\ r[k] = f[k] /\ (k # 0 => r[k - 1] = f[k - 1])
          BY <4>2, <1>3
        <5> HIDE DEF r
        <5> QED BY <2>2, <5>1 DEF IsPrefilled
      <4> QED BY <4>1, <4>2
    <3> QED BY <3>1 DEF IsPrefilled
  <2> QED BY <2>3
<1> QED BY <1>2, <1>3

(* f is the recursive function in OneByOne.                                *)
IsRead(f, results, a, n) ==
  f = [k \in 0..n |-> IF k = 0 THEN a ELSE Spread(f[k - 1], mapExtractionToApplication(<<results[k]>>, f[k - 1]))]

(* It exists.                                                              *)
LEMMA ReadExists ==
  ASSUME NEW results, NEW a, NEW n \in Nat
  PROVE  \E f : IsRead(f, results, a, n)
<1> DEFINE T == {k \in Nat : ~ \E f : IsRead(f, results, a, k)}
<1> SUFFICES ASSUME T # {} PROVE FALSE
  OBVIOUS
<1>1. PICK m \in T : \A k \in T : m <= k
  <2>1. T \in SUBSET Nat
    OBVIOUS
  <2> HIDE DEF T
  <2> QED BY <2>1, NatLeast
<1>2. CASE m = 0
  <2>1. IsRead([k \in 0..0 |-> a], results, a, 0)
    BY DEF IsRead
  <2> QED BY <1>2, <2>1
<1>3. CASE m # 0
  <2>1. m - 1 \in Nat /\ m - 1 \notin T
    BY <1>1, <1>3
  <2>2. PICK f : IsRead(f, results, a, m - 1)
    BY <2>1
  <2> DEFINE last == Spread(f[m - 1], mapExtractionToApplication(<<results[m]>>, f[m - 1]))
             r == [k \in 0..m |-> IF k = m THEN last ELSE f[k]]
  <2>3. IsRead(r, results, a, m)
    <3>1. ASSUME NEW k \in 0..m
          PROVE  r[k] = IF k = 0 THEN a ELSE Spread(r[k - 1], mapExtractionToApplication(<<results[k]>>, r[k - 1]))
      <4>1. CASE k = m
        BY <1>3, <4>1
      <4>2. CASE k # m
        <5>1. k \in 0..(m - 1) /\ r[k] = f[k] /\ (k # 0 => r[k - 1] = f[k - 1])
          BY <4>2, <1>3
        <5> HIDE DEF r
        <5> QED BY <2>2, <5>1 DEF IsRead
      <4> QED BY <4>1, <4>2
    <3> QED BY <3>1 DEF IsRead
  <2> QED BY <2>3
<1> QED BY <1>2, <1>3

(* Nothing under an update is the update.                                  *)
LEMMA NothingSpread ==
  ASSUME NEW u, IsFn(u)
  PROVE  Spread(NoUpdate, u) = u
<1>1. DOMAIN NoUpdate = {}
  BY DEF NoUpdate
<1>2. PICK x : x = Spread(NoUpdate, u)
  OBVIOUS
<1>3. IsSpread(x, NoUpdate, u)
  BY <1>2, SpreadIs
<1>4. x = u
  BY <1>1, <1>3, SameFn DEF IsSpread
<1> QED BY <1>2, <1>4

(* What one result reads into an application.                              *)
ReadOf(r, c) == IF r.data = Null THEN NoUpdate ELSE MAPPERS(r.docType, r.data, c)

(* It is an update.                                                        *)
LEMMA ReadOfOK ==
  ASSUME NEW r, NEW c, AppOK(c)
  PROVE  UpdateOK(ReadOf(r, c), c)
BY SpreadNothing, MapperOK DEF AppOK, ReadOf

(* One more result is read as if what was read before were stored.         *)
LEMMA MergeOK ==
  ASSUME NEW a, NEW m, NEW r, AppOK(a), UpdateOK(m, a)
  PROVE  /\ UpdateOK(Merge(m, r, a), a)
         /\ Spread(a, Merge(m, r, a)) = Spread(Spread(a, m), ReadOf(r, Spread(a, m)))
<1>1. PICK c : c = Spread(a, m)
  OBVIOUS
<1>2. AppOK(c)
  BY <1>1, UpdateApplies
<1>3. PICK u : u = ReadOf(r, c)
  OBVIOUS
<1>4. UpdateOK(u, c)
  BY <1>2, <1>3, ReadOfOK
<1>5. /\ deepMerge(m, u) = Spread(m, u) /\ UpdateOK(Spread(m, u), a)
      /\ Spread(a, Spread(m, u)) = Spread(c, u)
  BY <1>1, <1>4, UpdatesCompose
<1>6. Merge(m, r, a) = Spread(m, u)
  <2>1. CASE r.data = Null
    <3>1. Merge(m, r, a) = m /\ u = NoUpdate
      BY <1>3, <2>1 DEF Merge, ReadOf
    <3>2. IsFn(m)
      BY DEF UpdateOK
    <3> QED BY <3>1, <3>2, SpreadNothing
  <2>2. CASE r.data # Null
    <3>1. Merge(m, r, a) = deepMerge(m, u)
      BY <1>1, <1>3, <2>2 DEF Merge, ReadOf
    <3> QED BY <1>5, <3>1
  <2> QED BY <2>1, <2>2
<1> QED BY <1>1, <1>3, <1>5, <1>6

(* The fold of one result.                                                 *)
LEMMA ReadOne ==
  ASSUME NEW r, NEW c, AppOK(c)
  PROVE  mapExtractionToApplication(<<r>>, c) = ReadOf(r, c)
<1> DEFINE f == CHOOSE f : IsMerged(f, <<r>>, c, 1)
<1>1. IsMerged(f, <<r>>, c, 1)
  BY MergedExists
<1>2. mapExtractionToApplication(<<r>>, c) = f[1]
  BY DEF mapExtractionToApplication, IsMerged
<1> HIDE DEF f
<1>3. f[1] = Merge(NoUpdate, r, c)
  BY <1>1 DEF IsMerged
<1>4. PICK u : u = ReadOf(r, c)
  OBVIOUS
<1>5. Spread(c, NoUpdate) = c /\ UpdateOK(NoUpdate, c)
  BY SpreadNothing DEF AppOK
<1>6. UpdateOK(u, c)
  BY <1>4, ReadOfOK
<1>7. Spread(NoUpdate, u) = u
  BY <1>6, NothingSpread DEF UpdateOK
<1>8. deepMerge(NoUpdate, u) = u
  BY <1>5, <1>6, <1>7, UpdatesCompose
<1>9. Merge(NoUpdate, r, c) = u
  BY <1>4, <1>5, <1>8 DEF Merge, ReadOf
<1> QED BY <1>2, <1>3, <1>4, <1>9

(* What a batch reads is an update, and the update that its files, read    *)
(* one by one, make together.                                              *)
LEMMA ExtractionOK ==
  ASSUME NEW results, NEW a, AppOK(a), Len(results) \in Nat
  PROVE  /\ UpdateOK(mapExtractionToApplication(results, a), a)
         /\ Spread(a, mapExtractionToApplication(results, a)) = OneByOne(results, a)
<1>1. PICK n \in Nat : n = Len(results)
  OBVIOUS
<1> DEFINE f == CHOOSE f : IsMerged(f, results, a, n)
           g == CHOOSE g : IsRead(g, results, a, n)
<1>2. IsMerged(f, results, a, n) /\ IsRead(g, results, a, n)
  BY MergedExists, ReadExists
<1>3. mapExtractionToApplication(results, a) = f[n]
  BY <1>1 DEF mapExtractionToApplication, IsMerged
<1>4. OneByOne(results, a) = g[n]
  BY <1>1 DEF OneByOne, IsRead
<1> HIDE DEF f, g
<1> DEFINE Good(k) == UpdateOK(f[k], a) /\ g[k] = Spread(a, f[k])
           T == {k \in 0..n : ~ Good(k)}
<1>5. T = {}
  <2> SUFFICES ASSUME T # {} PROVE FALSE
    OBVIOUS
  <2>1. PICK m \in T : \A k \in T : m <= k
    <3>1. T \in SUBSET Nat
      OBVIOUS
    <3> HIDE DEF T
    <3> QED BY <3>1, NatLeast
  <2>2. m # 0
    <3>1. f[0] = NoUpdate /\ g[0] = a
      BY <1>2 DEF IsMerged, IsRead
    <3>2. Good(0)
      BY <3>1, SpreadNothing DEF AppOK
    <3> QED BY <3>2
  <2>3. m - 1 \in 0..n /\ m - 1 \notin T /\ m \in 0..n
    BY <2>1, <2>2
  <2>4. Good(m - 1)
    BY <2>3
  <2>5. /\ f[m] = Merge(f[m - 1], results[m], a)
        /\ g[m] = Spread(g[m - 1], mapExtractionToApplication(<<results[m]>>, g[m - 1]))
    BY <1>2, <2>2, <2>3 DEF IsMerged, IsRead
  <2>6. PICK u : u = f[m - 1]
    OBVIOUS
  <2>7. PICK c : c = g[m - 1]
    OBVIOUS
  <2>8. UpdateOK(u, a) /\ c = Spread(a, u)
    BY <2>4, <2>6, <2>7
  <2>9. PICK r : r = results[m]
    OBVIOUS
  <2>10. AppOK(c)
    BY <2>8, UpdateApplies
  <2>11. mapExtractionToApplication(<<r>>, c) = ReadOf(r, c)
    BY <2>10, ReadOne
  <2>12. UpdateOK(Merge(u, r, a), a) /\ Spread(a, Merge(u, r, a)) = Spread(c, ReadOf(r, c))
    BY <2>8, MergeOK
  <2>13. f[m] = Merge(u, r, a) /\ g[m] = Spread(c, mapExtractionToApplication(<<r>>, c))
    BY <2>5, <2>6, <2>7, <2>9
  <2>14. Good(m)
    BY <2>11, <2>12, <2>13
  <2> QED BY <2>14
<1>6. Good(n)
  BY <1>5
<1> QED BY <1>3, <1>4, <1>6

(* What the samples of a batch fill in is an update.                       *)
LEMMA PrefillOK ==
  ASSUME NEW types, NEW a, AppOK(a), Len(types) \in Nat,
         \A i \in 1..Len(types) : types[i] \in SampleTypes
  PROVE  UpdateOK(processSampleEntries(types, a), a)
<1>1. PICK n \in Nat : n = Len(types)
  OBVIOUS
<1> DEFINE f == CHOOSE f : IsPrefilled(f, types, a, n)
<1>2. IsPrefilled(f, types, a, n)
  BY PrefilledExists
<1>3. processSampleEntries(types, a) = f[n]
  BY <1>1 DEF processSampleEntries, IsPrefilled
<1> HIDE DEF f
<1> DEFINE T == {k \in 0..n : ~ UpdateOK(f[k], a)}
<1>4. T = {}
  <2> SUFFICES ASSUME T # {} PROVE FALSE
    OBVIOUS
  <2>1. PICK m \in T : \A k \in T : m <= k
    <3>1. T \in SUBSET Nat
      OBVIOUS
    <3> HIDE DEF T
    <3> QED BY <3>1, NatLeast
  <2>2. m # 0
    <3>1. f[0] = NoUpdate
      BY <1>2 DEF IsPrefilled
    <3>2. UpdateOK(f[0], a)
      BY <3>1, SpreadNothing DEF AppOK
    <3> QED BY <3>2
  <2>3. m - 1 \in 0..n /\ m - 1 \notin T /\ m \in 0..n /\ m \in 1..n
    BY <2>1, <2>2
  <2>4. UpdateOK(f[m - 1], a) /\ types[m] \in SampleTypes
    BY <1>1, <2>3
  <2>5. f[m] = Spread(f[m - 1], applyPrefill(types[m], Spread(a, f[m - 1])))
    BY <1>2, <2>2, <2>3 DEF IsPrefilled
  <2>6. PICK u : u = f[m - 1]
    OBVIOUS
  <2>7. PICK t \in SampleTypes : t = types[m]
    BY <2>4
  <2>8. PICK c : c = Spread(a, u)
    OBVIOUS
  <2>9. AppOK(c) /\ UpdateOK(u, a)
    BY <2>4, <2>6, <2>8, UpdateApplies
  <2>10. UpdateOK(applyPrefill(t, c), c)
    BY <2>9, SampleOK
  <2>11. PICK v : v = applyPrefill(t, c)
    OBVIOUS
  <2>12. UpdateOK(Spread(u, v), a)
    BY <2>8, <2>9, <2>10, <2>11, UpdatesCompose
  <2>13. f[m] = Spread(u, v)
    BY <2>5, <2>6, <2>7, <2>8, <2>11
  <2> QED BY <2>12, <2>13
<1>5. UpdateOK(f[n], a)
  BY <1>4
<1> QED BY <1>3, <1>5

(* w has the first n elements of s that are in S, and no other.            *)
FilterOf(w, s, S, n) ==
  /\ \A j \in 1..Len(w) : w[j] \in S /\ \E i \in 1..n : w[j] = s[i]
  /\ \A i \in 1..n : s[i] \in S => \E j \in 1..Len(w) : w[j] = s[i]

(* Filter has the elements of s that are in S.                             *)
LEMMA FilterIs ==
  ASSUME NEW X, NEW s \in Seq(X), NEW S
  PROVE  Filter(s, S) \in Seq(X) /\ FilterOf(Filter(s, S), s, S, Len(s))
<1>1. PICK n \in Nat : n = Len(s)
  OBVIOUS
<1> DEFINE f == CHOOSE f : IsFiltered(f, s, S, n)
<1>2. IsFiltered(f, s, S, n)
  BY FilteredExists
<1>3. Filter(s, S) = f[n]
  BY <1>1 DEF Filter, IsFiltered
<1> HIDE DEF f
<1> DEFINE Good(k) == f[k] \in Seq(X) /\ FilterOf(f[k], s, S, k)
           T == {k \in 0..n : ~ Good(k)}
<1>4. T = {}
  <2> SUFFICES ASSUME T # {} PROVE FALSE
    OBVIOUS
  <2>1. PICK m \in T : \A k \in T : m <= k
    <3>1. T \in SUBSET Nat
      OBVIOUS
    <3> HIDE DEF T
    <3> QED BY <3>1, NatLeast
  <2>2. m # 0
    <3>1. f[0] = <<>>
      BY <1>2 DEF IsFiltered
    <3>2. Good(0)
      BY <3>1 DEF FilterOf
    <3> QED BY <3>2
  <2>3. m - 1 \in 0..n /\ m - 1 \notin T /\ m \in 0..n /\ m \in 1..n
    BY <2>1, <2>2
  <2>4. Good(m - 1)
    BY <2>3
  <2>5. f[m] = IF s[m] \in S THEN Append(f[m - 1], s[m]) ELSE f[m - 1]
    BY <1>2, <2>2, <2>3 DEF IsFiltered
  <2>6. PICK w : w = f[m - 1]
    OBVIOUS
  <2>7. w \in Seq(X) /\ FilterOf(w, s, S, m - 1) /\ s[m] \in X
    BY <1>1, <2>3, <2>4, <2>6
  <2>8. PICK v : v = f[m]
    OBVIOUS
  <2>9. 1..m = 1..(m - 1) \cup {m}
    BY <2>3
  <2>10. v \in Seq(X) /\ FilterOf(v, s, S, m)
    <3>1. CASE s[m] \in S
      <4>1. v = Append(w, s[m])
        BY <2>5, <2>6, <2>8, <3>1
      <4>2. v \in Seq(X) /\ Len(v) = Len(w) + 1 /\ v[Len(w) + 1] = s[m]
            /\ \A j \in 1..Len(w) : v[j] = w[j]
        BY <2>7, <4>1
      <4>3. 1..Len(v) = 1..Len(w) \cup {Len(w) + 1}
        BY <2>7, <4>2
      <4>4. ASSUME NEW j \in 1..Len(v)
            PROVE  v[j] \in S /\ \E i \in 1..m : v[j] = s[i]
        <5>1. CASE j \in 1..Len(w)
          <6>1. v[j] = w[j]
            BY <4>2, <5>1
          <6>2. w[j] \in S /\ \E i \in 1..(m - 1) : w[j] = s[i]
            BY <2>7, <5>1 DEF FilterOf
          <6> QED BY <2>9, <6>1, <6>2
        <5>2. CASE j = Len(w) + 1
          <6>1. v[j] = s[m]
            BY <4>2, <5>2
          <6> QED BY <2>9, <3>1, <6>1
        <5> QED BY <4>3, <5>1, <5>2
      <4>5. \A i \in 1..m : s[i] \in S => \E j \in 1..Len(v) : v[j] = s[i]
        BY <2>7, <2>9, <3>1, <4>2, <4>3 DEF FilterOf
      <4> QED BY <4>2, <4>4, <4>5 DEF FilterOf
    <3>2. CASE s[m] \notin S
      <4>1. v = w
        BY <2>5, <2>6, <2>8, <3>2
      <4> QED BY <2>7, <2>9, <3>2, <4>1 DEF FilterOf
    <3> QED BY <3>1, <3>2
  <2> QED BY <2>8, <2>10
<1>5. Good(n)
  BY <1>4
<1> QED BY <1>1, <1>3, <1>5
-----------------------------------------------------------------------------
(***************************************************************************)
(* The inductive invariant.                                                *)
(***************************************************************************)

(* Verification fails on what the file is, never on the type it is given.  *)
Fails(f) == Traits[f].format = "unsupported" \/ "ILLEGIBLE" \in Traits[f].flags

Types == SampleTypes \cup {"OTHER"}
Ids == (Files \cup SampleTypes) \X Nat
Items == [id : Ids, file : Files \cup {Null}, detectedType : Types,
          verification : Verdicts \cup {Null}, verifying : BOOLEAN]

(* An entry of a file has the file in its id, and has the verdict of the   *)
(* file once it is done; a sample has no file and is done from the start.  *)
ItemSound(x) ==
  /\ x.file # Null => x.id[1] = x.file
  /\ x.file = Null => x.id[1] \in SampleTypes /\ ~ x.verifying
  /\ x.verifying \/ x.verification \in Verdicts
  /\ x.file # Null /\ ~ x.verifying => (x.verification = "FAIL" <=> Fails(x.file))

(* A document holds no file that fails.                                    *)
Docs == {d \in [file : Files \cup {Null}, doc_type : Types, verification : Verdicts,
                status : {"EXTRACTED", "NEEDS_ATTENTION"}] :
           d.file # Null => ~ Fails(d.file)}

Application(a) == AppOK(a) /\ a.documents \in Seq(Docs)

(* What waits for the parser has passed verification, and what its samples *)
(* fill in was made for the application it was started on.                 *)
Ready == {x \in Items : /\ x.file # Null /\ ~ Fails(x.file)
                        /\ x.verification \in Verdicts}
BatchOK(b) ==
  /\ b.entries \in Seq(Ready) /\ b.samples \in Seq(Docs)
  /\ Application(b.app) /\ UpdateOK(b.prefill, b.app)

(* A verification names the file in the id of the entry it is for; the     *)
(* entry was added before.                                                 *)
JobOK(id, f) == f \in Files /\ id \in Ids /\ id[1] = f /\ id[2] < clicks
LoopOK(l) ==
  /\ l.todo \in Seq(Items) /\ l.todo # <<>>
  /\ \A i \in DOMAIN l.todo : JobOK(l.todo[i].id, l.todo[i].file)

Ghosts == [added : SUBSET Files, discarded : SUBSET (Files \cup {Null}),
           swept : SUBSET Files, early : SUBSET Ids, stale : BOOLEAN]

PlaceInv ==
  /\ place \in {"bulk", "individual"} \cup Steps
  /\ (place \notin Steps) => (form = NoForm)
  /\ (place # "bulk") => (pending = <<>>)

ShapeInv == Application(app) /\ PlaceInv /\ clicks \in 0..MaxClicks /\ ghost \in Ghosts

PendingInv ==
  /\ pending \in Seq(Items)
  /\ \A i \in DOMAIN pending : ItemSound(pending[i]) /\ pending[i].id[2] < clicks

BatchInv == \A b \in batches : BatchOK(b)

JobInv ==
  /\ \A l \in loops : LoopOK(l)
  /\ \A r \in rechecks : JobOK(r.id, r.file) /\ r.type \in Types

(* An entry a verification is for still waits for it, as the type it is    *)
(* verified as, or it was retyped early.                                   *)
Waits(id, type) ==
  id \in ghost.early \/
  \A j \in DOMAIN pending :
    pending[j].id = id => pending[j].verifying /\ pending[j].detectedType = type

(* An id is of one entry, and of one verification unless the entry was     *)
(* retyped early.                                                          *)
OneEntry ==
  \A i, j \in DOMAIN pending :
    pending[i].file # Null /\ pending[i].id = pending[j].id => i = j
OneJob ==
  /\ \A l, m \in loops : \A i \in DOMAIN l.todo, j \in DOMAIN m.todo :
       l.todo[i].id = m.todo[j].id => l = m /\ i = j
  /\ \A l \in loops, r \in rechecks : \A i \in DOMAIN l.todo :
       l.todo[i].id = r.id => r.id \in ghost.early
  /\ \A r, s \in rechecks : r.id = s.id => r = s \/ r.id \in ghost.early
IdInv == OneEntry /\ OneJob

WaitInv ==
  /\ \A l \in loops : \A i \in DOMAIN l.todo : Waits(l.todo[i].id, l.todo[i].detectedType)
  /\ \A r \in rechecks : Waits(r.id, r.type)

(* The parts that are about entries and verifications.                     *)
EntriesInv == PendingInv /\ JobInv /\ IdInv /\ WaitInv /\ VerdictIsOfType

(* All but what the inputs of the directors show.                          *)
Core == ShapeInv /\ EntriesInv /\ BatchInv /\ EveryFileAccounted

(* Each row of the open directors was made for the person in its title.    *)
RowsInv == RowsKeepTheirPerson /\ (place = "directors" => DirectorsOK(form))

Inv == Core /\ RowsInv

-----------------------------------------------------------------------------
(* Entries and their verdicts.                                             *)

(* What a verification says.                                               *)
LEMMA VerdictIs ==
  ASSUME NEW f, NEW t
  PROVE  /\ verifyDocument(f, t) \in Verdicts
         /\ verifyDocument(f, t) = "FAIL" <=> Fails(f)
BY DEF verifyDocument, Verdicts, Fails

(* Entries that go, or stay as they are, disturb nothing.                  *)
LEMMA FewerEntries ==
  ASSUME EntriesInv, clicks \in Nat, clicks' \in Nat, clicks <= clicks',
         UNCHANGED <<loops, rechecks>>, ghost'.early = ghost.early,
         pending' \in Seq(Items), NEW h,
         \A j \in DOMAIN pending' :
           h[j] \in DOMAIN pending /\ pending'[j] = pending[h[j]],
         \A j, k \in DOMAIN pending' : h[j] = h[k] => j = k
  PROVE  EntriesInv'
<1>1. PICK q : q = pending'
  OBVIOUS
<1>2. PICK p : p = pending
  OBVIOUS
<1>3. PICK c, d \in Nat : c = clicks /\ d = clicks' /\ c <= d
  OBVIOUS
<1>4. /\ \A j \in DOMAIN q : h[j] \in DOMAIN p /\ q[j] = p[h[j]]
      /\ \A j, k \in DOMAIN q : h[j] = h[k] => j = k
  BY <1>1, <1>2
<1>5. PendingInv'
  <2>1. ASSUME NEW j \in DOMAIN q PROVE ItemSound(q[j]) /\ q[j].id[2] < d
    <3>1. PICK i \in DOMAIN p : q[j] = p[i]
      BY <1>4
    <3>2. ItemSound(p[i]) /\ p[i].id[2] < c /\ p[i] \in Items
      BY <1>2, <1>3 DEF EntriesInv, PendingInv
    <3>3. p[i].id[2] \in Nat
      BY <3>2 DEF Items, Ids
    <3> QED BY <1>3, <3>1, <3>2, <3>3
  <2> QED BY <1>1, <1>3, <2>1 DEF PendingInv
<1>6. JobInv'
  <2>1. ASSUME NEW id, NEW f, JobOK(id, f) PROVE JobOK(id, f)'
    <3>1. id[2] \in Nat
      BY <2>1 DEF JobOK, Ids
    <3> QED BY <1>3, <2>1, <3>1 DEF JobOK
  <2>2. JobInv
    BY DEF EntriesInv
  <2>3. ASSUME NEW l \in loops PROVE LoopOK(l)'
    <3>1. LoopOK(l)
      BY <2>2 DEF JobInv
    <3> QED BY <2>1, <3>1 DEF LoopOK
  <2>4. ASSUME NEW r \in rechecks PROVE JobOK(r.id, r.file)' /\ r.type \in Types
    BY <2>1, <2>2 DEF JobInv
  <2> QED BY <2>3, <2>4 DEF JobInv
<1>7. IdInv'
  <2>1. IdInv
    BY DEF EntriesInv
  <2>2. ASSUME NEW i \in DOMAIN q, NEW j \in DOMAIN q, q[i].file # Null, q[i].id = q[j].id
        PROVE  i = j
    <3>1. h[i] \in DOMAIN p /\ h[j] \in DOMAIN p /\ q[i] = p[h[i]] /\ q[j] = p[h[j]]
      BY <1>4
    <3>2. h[i] = h[j]
      BY <1>2, <2>1, <2>2, <3>1 DEF IdInv, OneEntry
    <3> QED BY <1>4, <3>2
  <2> QED BY <1>1, <2>1, <2>2 DEF IdInv, OneEntry, OneJob
<1>8. ASSUME NEW id, NEW t, Waits(id, t) PROVE Waits(id, t)'
  <2>1. CASE id \in ghost.early
    BY <2>1 DEF Waits
  <2>2. CASE \A j \in DOMAIN p : p[j].id = id => p[j].verifying /\ p[j].detectedType = t
    <3>1. \A j \in DOMAIN q : q[j].id = id => q[j].verifying /\ q[j].detectedType = t
      BY <1>4, <2>2
    <3> QED BY <1>1, <3>1 DEF Waits
  <2> QED BY <1>2, <1>8, <2>1, <2>2 DEF Waits
<1>9. WaitInv'
  <2>1. WaitInv
    BY DEF EntriesInv
  <2> QED BY <1>8, <2>1 DEF WaitInv
<1>10. VerdictIsOfType'
  <2>1. VerdictIsOfType
    BY DEF EntriesInv
  <2>2. ASSUME NEW j \in DOMAIN q, q[j].file # Null, IsDone(q[j]), q[j].id \notin ghost.early
        PROVE  q[j].verification = verifyDocument(q[j].file, q[j].detectedType)
    <3>1. PICK i \in DOMAIN p : q[j] = p[i]
      BY <1>4
    <3> QED BY <1>2, <2>1, <2>2, <3>1 DEF VerdictIsOfType
  <2> QED BY <1>1, <2>2 DEF VerdictIsOfType
<1> QED BY <1>5, <1>6, <1>7, <1>9, <1>10 DEF EntriesInv

(* Nothing happens to the entries.                                         *)
LEMMA SameEntries ==
  ASSUME EntriesInv, clicks \in Nat, clicks' \in Nat, clicks <= clicks',
         UNCHANGED <<pending, loops, rechecks>>, ghost'.early = ghost.early
  PROVE  EntriesInv'
<1>1. PICK h : h = [j \in DOMAIN pending |-> j]
  OBVIOUS
<1>2. pending' \in Seq(Items)
  BY DEF EntriesInv, PendingInv
<1>3. \A j \in DOMAIN pending' : h[j] \in DOMAIN pending /\ pending'[j] = pending[h[j]]
  BY <1>1
<1>4. \A j, k \in DOMAIN pending' : h[j] = h[k] => j = k
  BY <1>1
<1> QED BY <1>2, <1>3, <1>4, FewerEntries

(* All entries go.                                                         *)
LEMMA NoEntries ==
  ASSUME EntriesInv, clicks \in Nat, clicks' \in Nat, clicks <= clicks',
         pending' = <<>>, UNCHANGED <<loops, rechecks>>, ghost'.early = ghost.early
  PROVE  EntriesInv'
<1>1. pending' \in Seq(Items)
  OBVIOUS
<1>2. PICK h : h = [j \in {} |-> j]
  OBVIOUS
<1>3. \A j \in DOMAIN pending' : h[j] \in DOMAIN pending /\ pending'[j] = pending[h[j]]
  OBVIOUS
<1>4. \A j, k \in DOMAIN pending' : h[j] = h[k] => j = k
  OBVIOUS
<1> QED BY <1>1, <1>3, <1>4, FewerEntries

(* An entry of the id of a verification is of its file.                    *)
LEMMA JobEntry ==
  ASSUME PendingInv, NEW id, NEW f, JobOK(id, f),
         NEW j \in DOMAIN pending, pending[j].id = id
  PROVE  pending[j].file = f /\ f # Null
<1>1. ItemSound(pending[j]) /\ id[1] = f /\ f \in Files
  BY DEF PendingInv, JobOK
<1>2. f # Null /\ f \notin SampleTypes
  BY <1>1, IntakeAssumption
<1> QED BY <1>1, <1>2 DEF ItemSound

(* A verdict lands on the entry of its id, if there is one: it is the      *)
(* verdict of the type the entry has, unless it was retyped early.         *)
LEMMA VerdictLands ==
  ASSUME EntriesInv, NEW id, NEW f, NEW t, NEW z, JobOK(id, f),
         Waits(id, t), SetVerdict(id, z, verifyDocument(f, t)), UNCHANGED <<clicks, ghost>>
  PROVE  /\ PendingInv' /\ OneEntry' /\ VerdictIsOfType' /\ PendingFiles' = PendingFiles
         /\ \A id2, t2 : (id2 # id \/ id2 \in ghost.early) /\ Waits(id2, t2)
                         => Waits(id2, t2)'
         /\ pending = <<>> => pending' = <<>>
<1>1. PICK q : q = pending'
  OBVIOUS
<1>2. PICK p : p = pending
  OBVIOUS
<1>3. PICK v : v = verifyDocument(f, t)
  OBVIOUS
<1>4. v \in Verdicts /\ (v = "FAIL" <=> Fails(f))
  BY <1>3, VerdictIs
<1>5. /\ p \in Seq(Items)
      /\ \A i \in DOMAIN p : ItemSound(p[i]) /\ p[i].id[2] < clicks
  BY <1>2 DEF EntriesInv, PendingInv
<1>6. \A j \in DOMAIN p : p[j].id = id => p[j].file = f /\ f # Null
  BY <1>2, JobEntry DEF EntriesInv
<1> DEFINE Landed(j) == PendingFile(id, p[j].file, p[j].detectedType, v, FALSE)
<1>7. DOMAIN q = DOMAIN p /\ q \in Seq(Items)
      /\ \A j \in DOMAIN p : q[j] = p[j] \/ (p[j].id = id /\ q[j] = Landed(j))
  <2>1. CASE z # zone
    <3>1. q = p
      BY <1>1, <1>2, <2>1 DEF SetVerdict
    <3> QED BY <1>5, <3>1
  <2>2. CASE z = zone
    <3>1. q = [j \in DOMAIN p |-> IF p[j].id = id THEN Landed(j) ELSE p[j]]
      BY <1>1, <1>2, <1>3, <2>2 DEF SetVerdict
    <3>2. DOMAIN q = DOMAIN p
          /\ \A j \in DOMAIN p : q[j] = p[j] \/ (p[j].id = id /\ q[j] = Landed(j))
      BY <3>1
    <3>3. ASSUME NEW j \in DOMAIN p PROVE q[j] \in Items
      <4>1. p[j] \in Items
        BY <1>5
      <4>2. p[j].id = id => Landed(j) \in Items
        BY <1>4, <4>1 DEF Items, PendingFile
      <4> QED BY <3>2, <4>1, <4>2
    <3>4. q \in Seq(Items)
      <4> DEFINE I == Items
      <4> HIDE DEF I
      <4>1. p \in Seq(I) /\ \A j \in DOMAIN p : q[j] \in I
        BY <1>5, <3>3 DEF I
      <4>2. Len(p) \in Nat /\ DOMAIN p = 1..Len(p)
        BY <4>1
      <4>3. q = [j \in 1..Len(p) |-> q[j]]
        BY <3>1, <4>2
      <4>4. q \in Seq(I)
        BY <4>1, <4>2, <4>3
      <4> QED BY <4>4 DEF I
    <3> QED BY <3>2, <3>4
  <2> QED BY <2>1, <2>2
<1>8. ASSUME NEW j \in DOMAIN p
      PROVE  /\ q[j].id = p[j].id /\ q[j].file = p[j].file
             /\ q[j].detectedType = p[j].detectedType
             /\ q[j] = p[j] \/ /\ p[j].id = id /\ q[j].verification = v
                               /\ ~ q[j].verifying /\ q[j].file = f /\ f # Null
  BY <1>6, <1>7 DEF PendingFile
<1>9. PendingInv'
  <2>1. ASSUME NEW j \in DOMAIN q PROVE ItemSound(q[j]) /\ q[j].id[2] < clicks
    BY <1>4, <1>5, <1>7, <1>8 DEF ItemSound
  <2> QED BY <1>1, <1>7, <2>1 DEF PendingInv
<1>10. OneEntry'
  <2>1. OneEntry
    BY DEF EntriesInv, IdInv
  <2> QED BY <1>1, <1>2, <1>7, <1>8, <2>1 DEF OneEntry
<1>11. VerdictIsOfType'
  <2>1. VerdictIsOfType
    BY DEF EntriesInv
  <2>2. ASSUME NEW j \in DOMAIN q, q[j].file # Null, IsDone(q[j]), q[j].id \notin ghost.early
        PROVE  q[j].verification = verifyDocument(q[j].file, q[j].detectedType)
    <3>1. CASE q[j] = p[j]
      BY <1>2, <1>7, <2>1, <2>2, <3>1 DEF VerdictIsOfType
    <3>2. CASE q[j] # p[j]
      <4>1. p[j].id = id /\ q[j].verification = v /\ q[j].file = f
        BY <1>7, <1>8, <3>2
      <4>2. id \notin ghost.early
        BY <1>7, <1>8, <2>2, <4>1
      <4>3. p[j].detectedType = t
        BY <1>2, <1>7, <4>1, <4>2 DEF Waits
      <4> QED BY <1>3, <1>7, <1>8, <4>1, <4>3
    <3> QED BY <3>1, <3>2
  <2> QED BY <1>1, <2>2 DEF VerdictIsOfType
<1>12. PendingFiles' = PendingFiles
  <2>1. {q[i].file : i \in DOMAIN q} = {p[i].file : i \in DOMAIN p}
    BY <1>7, <1>8
  <2>2. PendingFiles = {p[i].file : i \in DOMAIN p} \ {Null}
    BY <1>2 DEF PendingFiles
  <2>3. PendingFiles' = {q[i].file : i \in DOMAIN q} \ {Null}
    BY <1>1 DEF PendingFiles
  <2> QED BY <2>1, <2>2, <2>3
<1>13. ASSUME NEW id2, NEW t2, id2 # id \/ id2 \in ghost.early, Waits(id2, t2)
       PROVE  Waits(id2, t2)'
  <2>1. CASE id2 \in ghost.early
    BY <2>1 DEF Waits
  <2>2. CASE id2 # id /\ id2 \notin ghost.early
    <3>1. \A j \in DOMAIN p :
            p[j].id = id2 => p[j].verifying /\ p[j].detectedType = t2
      BY <1>2, <1>13, <2>2 DEF Waits
    <3>2. \A j \in DOMAIN q :
            q[j].id = id2 => q[j].verifying /\ q[j].detectedType = t2
      BY <1>7, <1>8, <2>2, <3>1
    <3> QED BY <1>1, <3>2 DEF Waits
  <2> QED BY <1>13, <2>1, <2>2
<1>14. pending = <<>> => pending' = <<>>
  <2>1. p = <<>> => DOMAIN p = {}
    OBVIOUS
  <2>2. DOMAIN q = {} => q = <<>>
    <3>1. Len(q) \in Nat /\ DOMAIN q = 1..Len(q)
      BY <1>7
    <3>2. DOMAIN q = {} => Len(q) = 0
      BY <3>1
    <3> QED BY <1>7, <3>2, EmptySeq
  <2> QED BY <1>1, <1>2, <1>7, <2>1, <2>2
<1> QED BY <1>9, <1>10, <1>11, <1>12, <1>13, <1>14

(* The loop goes on to its next entry.                                     *)
LEMMA VerifyNextEntries ==
  ASSUME EntriesInv, NEW l \in loops, VerifyNext(l)
  PROVE  EntriesInv' /\ PendingFiles' = PendingFiles /\ (pending = <<>> => pending' = <<>>)
<1>1. PICK x : x = Head(l.todo)
  OBVIOUS
<1>2. PICK todo : todo = l.todo
  OBVIOUS
<1>3. LoopOK(l) /\ \A i \in DOMAIN l.todo : Waits(l.todo[i].id, l.todo[i].detectedType)
  BY DEF EntriesInv, JobInv, WaitInv
<1>4. /\ todo \in Seq(Items) /\ todo # <<>> /\ x = todo[1] /\ 1 \in DOMAIN todo
      /\ Len(todo) \in Nat /\ Len(todo) >= 1 /\ DOMAIN todo = 1..Len(todo)
  <2> DEFINE I == Items
  <2> HIDE DEF I
  <2>1. todo \in Seq(I) /\ todo # <<>>
    BY <1>2, <1>3 DEF LoopOK, I
  <2>2. /\ x = todo[1] /\ 1 \in DOMAIN todo
        /\ Len(todo) \in Nat /\ Len(todo) >= 1 /\ DOMAIN todo = 1..Len(todo)
    BY <1>1, <1>2, <2>1
  <2> QED BY <2>1, <2>2 DEF I
<1>5. JobOK(x.id, x.file) /\ Waits(x.id, x.detectedType)
  BY <1>2, <1>3, <1>4 DEF LoopOK
<1>6. /\ SetVerdict(x.id, l.zone, verifyDocument(x.file, x.detectedType))
      /\ UNCHANGED <<clicks, ghost>> /\ rechecks' = rechecks
  BY <1>1 DEF VerifyNext
<1>7. /\ PendingInv' /\ OneEntry' /\ VerdictIsOfType' /\ PendingFiles' = PendingFiles
      /\ \A id2, t2 : (id2 # x.id \/ id2 \in ghost.early) /\ Waits(id2, t2)
                      => Waits(id2, t2)'
      /\ pending = <<>> => pending' = <<>>
  <2>1. PICK id, f, t, z : id = x.id /\ f = x.file /\ t = x.detectedType /\ z = l.zone
    OBVIOUS
  <2>2. /\ JobOK(id, f) /\ Waits(id, t) /\ SetVerdict(id, z, verifyDocument(f, t))
        /\ UNCHANGED <<clicks, ghost>>
    BY <1>5, <1>6, <2>1
  <2> HIDE <1>5, <1>6
  <2>3. /\ PendingInv' /\ OneEntry' /\ VerdictIsOfType' /\ PendingFiles' = PendingFiles
        /\ \A id2, t2 : (id2 # id \/ id2 \in ghost.early) /\ Waits(id2, t2)
                        => Waits(id2, t2)'
        /\ pending = <<>> => pending' = <<>>
    BY <2>2, VerdictLands
  <2> QED BY <2>1, <2>3
<1> DEFINE rest == [zone |-> l.zone, todo |-> Tail(l.todo)]
<1>8. loops' = (loops \ {l}) \cup (IF Len(todo) = 1 THEN {} ELSE {rest})
  BY <1>2 DEF VerifyNext
<1>9. Len(todo) # 1 =>
        /\ rest.todo \in Seq(Items) /\ rest.todo # <<>>
        /\ \A i \in DOMAIN rest.todo : /\ rest.todo[i] = todo[i + 1]
                                       /\ i \in Nat /\ i + 1 \in DOMAIN todo /\ i + 1 # 1
  <2> DEFINE I == Items
  <2>1. rest.todo = Tail(todo)
    BY <1>2
  <2>2. todo \in Seq(I)
    BY <1>4
  <2> HIDE DEF I, rest
  <2> SUFFICES ASSUME Len(todo) # 1
               PROVE  /\ rest.todo \in Seq(I) /\ rest.todo # <<>>
                      /\ \A i \in DOMAIN rest.todo :
                           /\ rest.todo[i] = todo[i + 1]
                           /\ i \in Nat /\ i + 1 \in DOMAIN todo /\ i + 1 # 1
    BY DEF I
  <2>3. PICK tl : tl = rest.todo
    OBVIOUS
  <2>4. PICK n \in Nat : n = Len(todo) /\ n >= 1 /\ n # 1 /\ DOMAIN todo = 1..n
    BY <1>4
  <2>5. /\ tl \in Seq(I) /\ Len(tl) = n - 1
        /\ \A i \in 1..(n - 1) : tl[i] = todo[i + 1]
    BY <1>4, <2>1, <2>2, <2>3, <2>4
  <2>6. DOMAIN tl = 1..(n - 1) /\ tl # <<>>
    BY <2>4, <2>5
  <2>7. \A i \in 1..(n - 1) : i \in Nat /\ i + 1 \in 1..n /\ i + 1 # 1
    BY <2>4
  <2> QED BY <2>3, <2>4, <2>5, <2>6, <2>7
<1> HIDE DEF rest
(* An entry to verify was one before, and not the one just verified.       *)
<1>10. ASSUME NEW m \in loops', NEW i \in DOMAIN m.todo
       PROVE  \E n \in loops : \E k \in DOMAIN n.todo :
                /\ m.todo[i] = n.todo[k] /\ n.todo[k].id # x.id
                /\ m \in loops => n = m /\ k = i
                /\ m \notin loops => n = l /\ m = rest /\ k = i + 1 /\ i \in Nat
  <2>1. OneJob /\ 1 \in DOMAIN l.todo /\ x = l.todo[1]
    BY <1>2, <1>4 DEF EntriesInv, IdInv
  <2>2. CASE m \in loops
    <3>1. m # l \/ m = rest
      BY <1>8
    <3>2. m # l
      <4>1. SUFFICES ASSUME m = l, m = rest, Len(todo) # 1 PROVE FALSE
        BY <1>8, <3>1
      <4>2. todo = Tail(todo) /\ Len(todo) \in Nat /\ Len(todo) >= 1
        BY <1>2, <1>4, <4>1 DEF rest
      <4>3. Len(Tail(todo)) = Len(todo) - 1
        <5> DEFINE I == Items
        <5>1. todo \in Seq(I)
          BY <1>4
        <5> HIDE DEF I
        <5> QED BY <1>4, <5>1
      <4> QED BY <4>2, <4>3
    <3>3. m.todo[i].id # x.id
      BY <2>1, <2>2, <3>2 DEF OneJob
    <3> QED BY <2>2, <3>3
  <2>3. CASE m \notin loops
    <3>1. m = rest /\ Len(todo) # 1
      BY <1>8, <2>3
    <3>2. i \in Nat /\ i + 1 \in DOMAIN l.todo /\ i + 1 # 1 /\ m.todo[i] = l.todo[i + 1]
      BY <1>2, <1>9, <3>1
    <3>3. l.todo[i + 1].id # x.id
      BY <2>1, <3>2 DEF OneJob
    <3> QED BY <2>3, <3>1, <3>2, <3>3
  <2> QED BY <2>2, <2>3
<1>11. JobInv'
  <2>1. ASSUME NEW m \in loops' PROVE LoopOK(m)'
    <3>1. m.todo \in Seq(Items) /\ m.todo # <<>>
      <4>1. CASE m \in loops
        BY <4>1 DEF EntriesInv, JobInv, LoopOK
      <4>2. CASE m \notin loops
        BY <1>8, <1>9, <4>2
      <4> QED BY <4>1, <4>2
    <3>2. ASSUME NEW i \in DOMAIN m.todo PROVE JobOK(m.todo[i].id, m.todo[i].file)
      <4>1. PICK n \in loops : \E k \in DOMAIN n.todo : m.todo[i] = n.todo[k]
        BY <1>10
      <4> QED BY <4>1 DEF EntriesInv, JobInv, LoopOK
    <3> QED BY <1>6, <3>1, <3>2 DEF LoopOK, JobOK
  <2>2. ASSUME NEW r \in rechecks' PROVE JobOK(r.id, r.file)' /\ r.type \in Types
    BY <1>6 DEF EntriesInv, JobInv, JobOK
  <2> QED BY <2>1, <2>2 DEF JobInv
<1>12. OneJob'
  <2>0. OneJob
    BY DEF EntriesInv, IdInv
  <2>1. ASSUME NEW m \in loops', NEW n \in loops', NEW i \in DOMAIN m.todo,
               NEW j \in DOMAIN n.todo, m.todo[i].id = n.todo[j].id
        PROVE  m = n /\ i = j
    <3>1. PICK mm \in loops : \E k \in DOMAIN mm.todo :
                /\ m.todo[i] = mm.todo[k] /\ mm.todo[k].id # x.id
                /\ m \in loops => mm = m /\ k = i
                /\ m \notin loops => mm = l /\ m = rest /\ k = i + 1 /\ i \in Nat
      BY <1>10
    <3>2. PICK k \in DOMAIN mm.todo :
                /\ m.todo[i] = mm.todo[k] /\ mm.todo[k].id # x.id
                /\ m \in loops => mm = m /\ k = i
                /\ m \notin loops => mm = l /\ m = rest /\ k = i + 1 /\ i \in Nat
      BY <3>1
    <3>3. PICK nn \in loops : \E h \in DOMAIN nn.todo :
                /\ n.todo[j] = nn.todo[h] /\ nn.todo[h].id # x.id
                /\ n \in loops => nn = n /\ h = j
                /\ n \notin loops => nn = l /\ n = rest /\ h = j + 1 /\ j \in Nat
      BY <1>10
    <3>4. PICK h \in DOMAIN nn.todo :
                /\ n.todo[j] = nn.todo[h] /\ nn.todo[h].id # x.id
                /\ n \in loops => nn = n /\ h = j
                /\ n \notin loops => nn = l /\ n = rest /\ h = j + 1 /\ j \in Nat
      BY <3>3
    <3>5. mm = nn /\ k = h
      BY <2>0, <2>1, <3>2, <3>4 DEF OneJob
    <3>6. CASE m \in loops /\ n \in loops
      BY <3>2, <3>4, <3>5, <3>6
    <3>7. CASE m \notin loops /\ n \notin loops
      BY <3>2, <3>4, <3>5, <3>7
    <3>8. l \in loops' => l = rest
      BY <1>8
    <3>9. CASE m \in loops /\ n \notin loops
      <4>1. m = l
        BY <3>2, <3>4, <3>5, <3>9
      <4>2. n = rest /\ m = rest
        BY <3>4, <3>8, <3>9, <4>1
      <4> QED BY <3>9, <4>2
    <3>10. CASE m \notin loops /\ n \in loops
      <4>1. n = l
        BY <3>2, <3>4, <3>5, <3>10
      <4>2. n = rest /\ m = rest
        BY <3>2, <3>8, <3>10, <4>1
      <4> QED BY <3>10, <4>2
    <3> QED BY <3>6, <3>7, <3>9, <3>10
  <2>2. ASSUME NEW m \in loops', NEW r \in rechecks, NEW i \in DOMAIN m.todo,
               m.todo[i].id = r.id
        PROVE  r.id \in ghost.early
    <3>1. PICK n \in loops : \E k \in DOMAIN n.todo : m.todo[i] = n.todo[k]
      BY <1>10
    <3> QED BY <2>0, <2>2, <3>1 DEF OneJob
  <2>3. \A r, s \in rechecks : r.id = s.id => r = s \/ r.id \in ghost.early
    BY <2>0 DEF OneJob
  <2> QED BY <1>6, <2>1, <2>2, <2>3 DEF OneJob
<1>13. WaitInv'
  <2>0. OneJob /\ WaitInv /\ 1 \in DOMAIN l.todo /\ x = l.todo[1]
    BY <1>2, <1>4 DEF EntriesInv, IdInv
  <2>1. ASSUME NEW m \in loops', NEW i \in DOMAIN m.todo
        PROVE  Waits(m.todo[i].id, m.todo[i].detectedType)'
    <3>1. PICK n \in loops : \E k \in DOMAIN n.todo :
            m.todo[i] = n.todo[k] /\ n.todo[k].id # x.id
      BY <1>10
    <3>2. PICK id, t : id = m.todo[i].id /\ t = m.todo[i].detectedType
      OBVIOUS
    <3>3. Waits(id, t) /\ id # x.id
      BY <2>0, <3>1, <3>2 DEF WaitInv
    <3>4. Waits(id, t)'
      BY <1>7, <3>3
    <3> QED BY <3>2, <3>4
  <2>2. ASSUME NEW r \in rechecks PROVE Waits(r.id, r.type)'
    <3>1. r.id = x.id => r.id \in ghost.early
      BY <2>0 DEF OneJob
    <3>2. PICK id, t : id = r.id /\ t = r.type
      OBVIOUS
    <3>3. Waits(id, t) /\ (id # x.id \/ id \in ghost.early)
      BY <2>0, <3>1, <3>2 DEF WaitInv
    <3>4. Waits(id, t)'
      BY <1>7, <3>3
    <3> QED BY <3>2, <3>4
  <2> QED BY <1>6, <2>1, <2>2 DEF WaitInv
<1> QED BY <1>7, <1>11, <1>12, <1>13 DEF EntriesInv, IdInv

(* A verification begun by updateType ends.                                *)
LEMMA RecheckEntries ==
  ASSUME EntriesInv, NEW r \in rechecks, RecheckDone(r)
  PROVE  EntriesInv' /\ PendingFiles' = PendingFiles /\ (pending = <<>> => pending' = <<>>)
<1>1. JobOK(r.id, r.file) /\ Waits(r.id, r.type)
  BY DEF EntriesInv, JobInv, WaitInv
<1>2. /\ SetVerdict(r.id, r.zone, verifyDocument(r.file, r.type))
      /\ UNCHANGED <<clicks, ghost>> /\ loops' = loops /\ rechecks' = rechecks \ {r}
  BY DEF RecheckDone
<1>3. /\ PendingInv' /\ OneEntry' /\ VerdictIsOfType' /\ PendingFiles' = PendingFiles
      /\ \A id2, t2 : (id2 # r.id \/ id2 \in ghost.early) /\ Waits(id2, t2)
                      => Waits(id2, t2)'
      /\ pending = <<>> => pending' = <<>>
  <2>1. PICK id, f, t, z : id = r.id /\ f = r.file /\ t = r.type /\ z = r.zone
    OBVIOUS
  <2>2. /\ JobOK(id, f) /\ Waits(id, t) /\ SetVerdict(id, z, verifyDocument(f, t))
        /\ UNCHANGED <<clicks, ghost>>
    BY <1>1, <1>2, <2>1
  <2>3. /\ PendingInv' /\ OneEntry' /\ VerdictIsOfType' /\ PendingFiles' = PendingFiles
        /\ \A id2, t2 : (id2 # id \/ id2 \in ghost.early) /\ Waits(id2, t2)
                        => Waits(id2, t2)'
        /\ pending = <<>> => pending' = <<>>
    BY <2>2, VerdictLands
  <2> QED BY <2>1, <2>3
<1>4. JobInv /\ OneJob /\ WaitInv
  BY DEF EntriesInv, IdInv
<1>5. JobInv'
  BY <1>2, <1>4 DEF JobInv, JobOK, LoopOK
<1>6. OneJob'
  BY <1>2, <1>4 DEF OneJob
<1>7. WaitInv'
  <2>1. ASSUME NEW l \in loops, NEW i \in DOMAIN l.todo
        PROVE  Waits(l.todo[i].id, l.todo[i].detectedType)'
    <3>1. PICK id, t : id = l.todo[i].id /\ t = l.todo[i].detectedType
      OBVIOUS
    <3>2. Waits(id, t) /\ (id # r.id \/ id \in ghost.early)
      BY <1>4, <3>1 DEF WaitInv, OneJob
    <3>3. Waits(id, t)'
      BY <1>3, <3>2
    <3> QED BY <3>1, <3>3
  <2>2. ASSUME NEW s \in rechecks' PROVE Waits(s.id, s.type)'
    <3>1. PICK id, t : id = s.id /\ t = s.type
      OBVIOUS
    <3>2. Waits(id, t) /\ (id # r.id \/ id \in ghost.early)
      BY <1>2, <1>4, <3>1 DEF WaitInv, OneJob
    <3>3. Waits(id, t)'
      BY <1>3, <3>2
    <3> QED BY <3>1, <3>3
  <2> QED BY <1>2, <2>1, <2>2 DEF WaitInv
<1> QED BY <1>3, <1>5, <1>6, <1>7 DEF EntriesInv, IdInv

(* A sequence without its element at i.                                    *)
LEMMA RemoveAtIs ==
  ASSUME NEW X, NEW s \in Seq(X), NEW i \in 1..Len(s)
  PROVE  /\ RemoveAt(s, i) \in Seq(X) /\ Len(RemoveAt(s, i)) = Len(s) - 1
         /\ \A j \in 1..(Len(s) - 1) : RemoveAt(s, i)[j] = s[IF j < i THEN j ELSE j + 1]
<1>1. PICK n \in Nat : n = Len(s) /\ DOMAIN s = 1..n /\ i \in 1..n
  OBVIOUS
<1>2. PICK a : a = SubSeq(s, 1, i - 1)
  OBVIOUS
<1>3. PICK b : b = SubSeq(s, i + 1, n)
  OBVIOUS
<1>4. /\ a \in Seq(X) /\ Len(a) = i - 1
      /\ \A j \in 1..(i - 1) : a[j] = s[j]
  BY <1>1, <1>2
<1>5. /\ b \in Seq(X) /\ Len(b) = n - i
      /\ \A j \in 1..(n - i) : b[j] = s[i + j]
  BY <1>1, <1>3
<1>6. PICK w : w = a \o b
  OBVIOUS
<1>7. w \in Seq(X) /\ Len(w) = n - 1
  <2>1. w \in Seq(X) /\ Len(w) = Len(a) + Len(b)
    BY <1>4, <1>5, <1>6, ConcatProperties
  <2> QED BY <1>1, <1>4, <1>5, <2>1
<1>8. ASSUME NEW j \in 1..(n - 1)
      PROVE  w[j] = s[IF j < i THEN j ELSE j + 1]
  <2>1. CASE j < i
    <3>1. j \in 1..(i - 1) /\ w[j] = a[j]
      BY <1>1, <1>4, <1>5, <1>6, <2>1
    <3> QED BY <1>4, <2>1, <3>1
  <2>2. CASE ~ (j < i)
    <3>1. PICK k \in Int : k = j - (i - 1)
      BY <1>1
    <3>2. k \in 1..(n - i) /\ i + k = j + 1 /\ j = Len(a) + k
      BY <1>1, <1>4, <2>2, <3>1
    <3>3. w[Len(a) + k] = b[k]
      <4>1. j \in 1..(Len(a) + Len(b)) /\ j - Len(a) = k /\ ~ (j <= Len(a))
        BY <1>1, <1>4, <1>5, <3>2
      <4>2. w[j] = b[j - Len(a)]
        BY <1>4, <1>5, <1>6, <4>1, ConcatProperties
      <4> QED BY <3>2, <4>1, <4>2
    <3> QED BY <1>5, <2>2, <3>2, <3>3
  <2> QED BY <2>1, <2>2
<1>9. RemoveAt(s, i) = w
  BY <1>1, <1>2, <1>3, <1>6 DEF RemoveAt
<1> QED BY <1>1, <1>7, <1>8, <1>9

(* Clicks are counted.                                                     *)
LEMMA Clicks ==
  ASSUME clicks \in 0..MaxClicks, Click
  PROVE  /\ clicks \in Nat /\ clicks' \in Nat /\ clicks <= clicks' /\ clicks < clicks'
         /\ clicks' = clicks + 1 /\ clicks' \in 0..MaxClicks
BY IntakeAssumption DEF Click

(* The user takes an entry out.                                            *)
LEMMA RemoveEntries ==
  ASSUME EntriesInv, clicks \in 0..MaxClicks, ghost \in Ghosts,
         NEW i \in DOMAIN pending, removeEntry(i)
  PROVE  EntriesInv' /\ PendingFiles \subseteq PendingFiles' \cup {pending[i].file}
<1>1. /\ clicks \in Nat /\ clicks' \in Nat /\ clicks <= clicks'
  BY Clicks DEF removeEntry
<1>2. PICK p : p = pending
  OBVIOUS
<1>3. PICK q : q = RemoveAt(p, i)
  OBVIOUS
<1>4. q = pending'
  BY <1>2, <1>3 DEF removeEntry
<1>5. p \in Seq(Items) /\ i \in 1..Len(p) /\ Len(p) \in Nat
  BY <1>2 DEF EntriesInv, PendingInv
<1>6. /\ q \in Seq(Items) /\ Len(q) = Len(p) - 1
      /\ \A j \in 1..(Len(p) - 1) : q[j] = p[IF j < i THEN j ELSE j + 1]
  BY <1>3, <1>5, RemoveAtIs
<1>7. DOMAIN q = 1..(Len(p) - 1) /\ DOMAIN p = 1..Len(p)
  BY <1>5, <1>6
<1>8. PICK h : h = [j \in 1..(Len(p) - 1) |-> IF j < i THEN j ELSE j + 1]
  OBVIOUS
<1>9. /\ \A j \in DOMAIN q : h[j] \in DOMAIN p /\ q[j] = p[h[j]]
      /\ \A j, k \in DOMAIN q : h[j] = h[k] => j = k
  BY <1>5, <1>6, <1>7, <1>8
<1>10. UNCHANGED <<loops, rechecks>> /\ ghost'.early = ghost.early
  BY DEF removeEntry, Ghosts
<1>11. EntriesInv'
  <2>1. /\ pending' \in Seq(Items)
        /\ \A j \in DOMAIN pending' :
             h[j] \in DOMAIN pending /\ pending'[j] = pending[h[j]]
        /\ \A j, k \in DOMAIN pending' : h[j] = h[k] => j = k
    BY <1>2, <1>4, <1>6, <1>9
  <2> QED BY <1>1, <1>10, <2>1, FewerEntries
<1>12. PendingFiles \subseteq PendingFiles' \cup {pending[i].file}
  <2>1. PendingFiles = {p[j].file : j \in DOMAIN p} \ {Null}
    BY <1>2 DEF PendingFiles
  <2>2. PendingFiles' = {q[j].file : j \in DOMAIN q} \ {Null}
    BY <1>4 DEF PendingFiles
  <2>3. ASSUME NEW j \in DOMAIN p, j # i PROVE \E k \in DOMAIN q : q[k] = p[j]
    <3>1. CASE j < i
      <4>1. j \in DOMAIN q /\ q[j] = p[j]
        BY <1>5, <1>6, <1>7, <3>1
      <4> QED BY <4>1
    <3>2. CASE ~ (j < i)
      <4>1. PICK k \in Int : k = j - 1
        BY <1>7
      <4>2. k \in 1..(Len(p) - 1) /\ ~ (k < i) /\ k + 1 = j
        BY <1>5, <1>7, <2>3, <3>2, <4>1
      <4>3. k \in DOMAIN q /\ q[k] = p[j]
        BY <1>6, <1>7, <4>2
      <4> QED BY <4>3
    <3> QED BY <3>1, <3>2
  <2> QED BY <1>2, <2>1, <2>2, <2>3
<1> QED BY <1>11, <1>12

(* New entries at the end leave the others where they are.                 *)
LEMMA AddedEntries ==
  ASSUME EntriesInv, clicks \in Nat, clicks' = clicks + 1, NEW new \in Seq(Items),
         \A i \in DOMAIN new : ItemSound(new[i]) /\ new[i].id[2] = clicks
                               /\ (new[i].file # Null => new[i].verifying),
         \A i, j \in DOMAIN new : new[i].file # Null /\ new[i].id = new[j].id => i = j,
         ghost'.early = ghost.early, pending' = pending \o new
  PROVE  /\ PendingInv' /\ OneEntry' /\ VerdictIsOfType'
         /\ PendingFiles' = PendingFiles \cup ({new[i].file : i \in DOMAIN new} \ {Null})
         /\ \A id, f, t : JobOK(id, f) /\ Waits(id, t) => JobOK(id, f)' /\ Waits(id, t)'
<1> DEFINE I == Items
<1>1. PICK p : p = pending
  OBVIOUS
<1>2. PICK q : q = pending'
  OBVIOUS
<1>3. PICK c \in Nat : c = clicks
  OBVIOUS
<1>4. p \in Seq(I) /\ new \in Seq(I)
  BY <1>1 DEF EntriesInv, PendingInv
<1>5. \A x \in I : x.id[2] \in Nat
  BY DEF Items, Ids
<1> HIDE DEF I
<1>6. PICK m, n \in Nat : m = Len(p) /\ n = Len(new) /\ DOMAIN p = 1..m /\ DOMAIN new = 1..n
  BY <1>4
<1>7. /\ q \in Seq(I) /\ Len(q) = m + n /\ DOMAIN q = 1..(m + n)
      /\ \A i \in 1..m : q[i] = p[i]
      /\ \A i \in 1..n : q[m + i] = new[i]
  BY <1>1, <1>2, <1>4, <1>6
<1>8. ASSUME NEW i \in DOMAIN q
      PROVE  (i \in DOMAIN p /\ q[i] = p[i])
             \/ \E k \in DOMAIN new : i = m + k /\ q[i] = new[k]
  <2>1. CASE i <= m
    BY <1>6, <1>7, <2>1
  <2>2. CASE ~ (i <= m)
    <3>1. PICK k \in Int : k = i - m
      BY <1>7
    <3>2. k \in 1..n /\ i = m + k
      BY <1>6, <1>7, <2>2, <3>1
    <3> QED BY <1>6, <1>7, <3>2
  <2> QED BY <2>1, <2>2
<1>9. \A i \in DOMAIN p : /\ ItemSound(p[i]) /\ p[i].id[2] < c /\ p[i].id[2] \in Nat
  BY <1>1, <1>3, <1>4, <1>5 DEF EntriesInv, PendingInv
<1>10. PendingInv'
  <2>1. ASSUME NEW i \in DOMAIN q PROVE ItemSound(q[i]) /\ q[i].id[2] < c + 1
    <3>1. CASE i \in DOMAIN p /\ q[i] = p[i]
      BY <1>9, <3>1
    <3>2. CASE \E k \in DOMAIN new : q[i] = new[k]
      <4>1. PICK k \in DOMAIN new : q[i] = new[k]
        BY <3>2
      <4> QED BY <1>3, <4>1
    <3> QED BY <1>8, <3>1, <3>2
  <2> QED BY <1>2, <1>3, <1>7, <2>1 DEF PendingInv, I
(* An old entry and a new one have different ids.                          *)
<1>11. \A i \in DOMAIN p : \A k \in DOMAIN new : p[i].id # new[k].id
  <2> SUFFICES ASSUME NEW i \in DOMAIN p, NEW k \in DOMAIN new, p[i].id = new[k].id
               PROVE  FALSE
    OBVIOUS
  <2>1. p[i].id[2] < c /\ p[i].id[2] = c
    BY <1>3, <1>9
  <2> QED BY <2>1
<1>12. OneEntry'
  <2>1. \A i, j \in DOMAIN p : p[i].file # Null /\ p[i].id = p[j].id => i = j
    BY <1>1 DEF EntriesInv, IdInv, OneEntry
  <2>2. ASSUME NEW i \in DOMAIN q, NEW j \in DOMAIN q, q[i].file # Null, q[i].id = q[j].id
        PROVE  i = j
    <3>1. CASE i \in DOMAIN p /\ q[i] = p[i] /\ j \in DOMAIN p /\ q[j] = p[j]
      BY <2>1, <2>2, <3>1
    <3>2. CASE \E k, h \in DOMAIN new : q[i] = new[k] /\ q[j] = new[h]
                                        /\ i = m + k /\ j = m + h
      <4>1. PICK k, h \in DOMAIN new : q[i] = new[k] /\ q[j] = new[h]
                                       /\ i = m + k /\ j = m + h
        BY <3>2
      <4>2. new[k].file # Null /\ new[k].id = new[h].id
        BY <2>2, <4>1
      <4>3. k = h
        BY <4>2
      <4> QED BY <4>1, <4>3
    <3> QED BY <1>8, <1>11, <2>2, <3>1, <3>2
  <2> QED BY <1>2, <2>2 DEF OneEntry
<1>13. VerdictIsOfType'
  <2>1. ASSUME NEW i \in DOMAIN q, q[i].file # Null, IsDone(q[i]), q[i].id \notin ghost.early
        PROVE  q[i].verification = verifyDocument(q[i].file, q[i].detectedType)
    <3>1. CASE i \in DOMAIN p /\ q[i] = p[i]
      BY <1>1, <2>1, <3>1 DEF EntriesInv, VerdictIsOfType
    <3>2. CASE \E k \in DOMAIN new : q[i] = new[k]
      <4>1. PICK k \in DOMAIN new : q[i] = new[k]
        BY <3>2
      <4>2. q[i].verifying
        BY <2>1, <4>1
      <4> QED BY <2>1, <4>2 DEF IsDone
    <3> QED BY <1>8, <3>1, <3>2
  <2> QED BY <1>2, <2>1 DEF VerdictIsOfType
<1>14. PendingFiles' = PendingFiles \cup ({new[i].file : i \in DOMAIN new} \ {Null})
  <2>1. PendingFiles = {p[j].file : j \in DOMAIN p} \ {Null}
    BY <1>1 DEF PendingFiles
  <2>2. PendingFiles' = {q[j].file : j \in DOMAIN q} \ {Null}
    BY <1>2 DEF PendingFiles
  <2>3. \A i \in DOMAIN p : i \in DOMAIN q /\ q[i] = p[i]
    BY <1>6, <1>7
  <2>4. \A i \in DOMAIN new : m + i \in DOMAIN q /\ q[m + i] = new[i]
    <3>1. \A i \in 1..n : m + i \in 1..(m + n)
      BY <1>6
    <3> QED BY <1>6, <1>7, <3>1
  <2>5. {q[j].file : j \in DOMAIN q}
        = {p[j].file : j \in DOMAIN p} \cup {new[j].file : j \in DOMAIN new}
    BY <1>8, <2>3, <2>4
  <2> QED BY <2>1, <2>2, <2>5
<1>15. ASSUME NEW id, NEW f, NEW t, JobOK(id, f), Waits(id, t)
       PROVE  JobOK(id, f)' /\ Waits(id, t)'
  <2>1. id[2] \in Nat /\ id[2] < c
    BY <1>3, <1>15 DEF JobOK, Ids
  <2>2. JobOK(id, f)'
    BY <1>3, <1>15, <2>1 DEF JobOK
  <2>3. CASE id \in ghost.early
    BY <2>2, <2>3 DEF Waits
  <2>4. CASE \A j \in DOMAIN p : p[j].id = id => p[j].verifying /\ p[j].detectedType = t
    <3>1. \A k \in DOMAIN new : new[k].id # id
      BY <1>3, <2>1
    <3>2. \A j \in DOMAIN q : q[j].id = id => q[j].verifying /\ q[j].detectedType = t
      BY <1>8, <2>4, <3>1
    <3> QED BY <1>2, <2>2, <3>2 DEF Waits
  <2> QED BY <1>1, <1>15, <2>3, <2>4 DEF Waits
<1> QED BY <1>10, <1>12, <1>13, <1>14, <1>15

(* A sequence given element by element.                                    *)
LEMMA GivenSequence ==
  ASSUME NEW X, NEW s, NEW n \in Nat, DOMAIN s = 1..n, IsFn(s), \A i \in 1..n : s[i] \in X
  PROVE  s \in Seq(X) /\ Len(s) = n
<1>1. s = [i \in 1..n |-> s[i]]
  BY DEF IsFn
<1> QED BY <1>1

(* The samples are loaded.                                                 *)
LEMMA SampleEntries ==
  ASSUME EntriesInv, clicks \in 0..MaxClicks, loadAllSamples
  PROVE  EntriesInv' /\ PendingFiles' = PendingFiles
<1>1. clicks \in Nat /\ clicks' = clicks + 1
  BY Clicks DEF loadAllSamples
<1>2. PICK c \in Nat : c = clicks
  BY <1>1
<1>3. PICK new : new = [i \in DOMAIN Samples |->
          PendingFile(<<Samples[i], c>>, Null, Samples[i], SampleVerdict(Samples[i]), FALSE)]
  OBVIOUS
<1>4. pending' = pending \o new
  BY <1>2, <1>3 DEF loadAllSamples
<1>5. PICK n \in Nat : DOMAIN Samples = 1..n /\ \A i \in 1..n : Samples[i] \in SampleTypes
  BY IntakeAssumption
<1>6. ASSUME NEW i \in 1..n
      PROVE  /\ new[i] \in Items /\ ItemSound(new[i]) /\ new[i].id[2] = c
             /\ new[i].file = Null
  <2>1. PICK t \in SampleTypes : t = Samples[i]
    BY <1>5
  <2>2. SampleVerdict(t) \in Verdicts
    BY DEF SampleVerdict, Verdicts
  <2>3. new[i] = PendingFile(<<t, c>>, Null, t, SampleVerdict(t), FALSE)
    BY <1>3, <1>5, <2>1
  <2>4. <<t, c>> \in Ids /\ t \in Types
    BY DEF Ids, Types
  <2>5. PICK x : x = new[i]
    OBVIOUS
  <2>6. /\ x.id = <<t, c>> /\ x.file = Null /\ x.detectedType = t
        /\ x.verification = SampleVerdict(t) /\ x.verifying = FALSE
    BY <2>3, <2>5 DEF PendingFile
  <2>7. x \in Items
    BY <2>2, <2>3, <2>4, <2>5 DEF Items, PendingFile
  <2>8. ItemSound(x)
    BY <2>2, <2>6 DEF ItemSound
  <2> QED BY <2>5, <2>6, <2>7, <2>8
<1>7. new \in Seq(Items) /\ DOMAIN new = 1..n
  <2>1. DOMAIN new = 1..n /\ IsFn(new)
    BY <1>3, <1>5 DEF IsFn
  <2> QED BY <1>6, <2>1, GivenSequence
<1>8. /\ \A i \in DOMAIN new : ItemSound(new[i]) /\ new[i].id[2] = clicks
                               /\ (new[i].file # Null => new[i].verifying)
      /\ \A i, j \in DOMAIN new : new[i].file # Null /\ new[i].id = new[j].id => i = j
  BY <1>2, <1>6, <1>7
<1>9. UNCHANGED <<loops, rechecks, ghost>>
  BY DEF loadAllSamples
<1>10. /\ PendingInv' /\ OneEntry' /\ VerdictIsOfType'
       /\ PendingFiles' = PendingFiles \cup ({new[i].file : i \in DOMAIN new} \ {Null})
       /\ \A id, f, t : JobOK(id, f) /\ Waits(id, t) => JobOK(id, f)' /\ Waits(id, t)'
  BY <1>1, <1>4, <1>7, <1>8, <1>9, AddedEntries
<1>11. PendingFiles' = PendingFiles
  <2>1. {new[i].file : i \in DOMAIN new} \ {Null} = {}
    BY <1>6, <1>7
  <2> QED BY <1>10, <2>1
<1>12. JobInv /\ WaitInv /\ OneJob
  BY DEF EntriesInv, IdInv
<1>13. OneJob'
  BY <1>9, <1>12 DEF OneJob
<1>14. ASSUME NEW l \in loops
       PROVE  LoopOK(l)' /\ \A i \in DOMAIN l.todo :
                              Waits(l.todo[i].id, l.todo[i].detectedType)'
  <2>1. LoopOK(l)
    BY <1>12 DEF JobInv
  <2>2. ASSUME NEW i \in DOMAIN l.todo
        PROVE  /\ JobOK(l.todo[i].id, l.todo[i].file)'
               /\ Waits(l.todo[i].id, l.todo[i].detectedType)'
    BY <1>10, <1>12, <2>1 DEF LoopOK, WaitInv
  <2> QED BY <2>1, <2>2 DEF LoopOK
<1>15. ASSUME NEW r \in rechecks
       PROVE  JobOK(r.id, r.file)' /\ r.type \in Types /\ Waits(r.id, r.type)'
  BY <1>10, <1>12 DEF JobInv, WaitInv
<1>16. JobInv' /\ WaitInv'
  BY <1>9, <1>14, <1>15 DEF JobInv, WaitInv
<1> QED BY <1>10, <1>11, <1>13, <1>16 DEF EntriesInv, IdInv

(* Files are dropped: their loop is the only one for their ids.            *)
LEMMA DroppedEntries ==
  ASSUME EntriesInv, clicks \in 0..MaxClicks, ghost \in Ghosts,
         NEW drop \in Drops, addFiles(drop)
  PROVE  EntriesInv' /\ PendingFiles' = PendingFiles \cup ToSet(drop)
<1>1. clicks \in Nat /\ clicks' = clicks + 1
  BY Clicks DEF addFiles
<1>2. PICK c \in Nat : c = clicks
  BY <1>1
<1>3. PICK new : new = [i \in DOMAIN drop |-> Entry(drop[i])]
  OBVIOUS
<1>4. PICK z : z = zone
  OBVIOUS
<1>5. PICK loop : loop = [zone |-> z, todo |-> new]
  OBVIOUS
<1>6. /\ pending' = pending \o new /\ loops' = loops \cup {loop}
      /\ UNCHANGED rechecks /\ ghost'.early = ghost.early
  BY <1>3, <1>4, <1>5 DEF addFiles, Ghosts
<1>7. drop \in Seq(Files) /\ drop # <<>> /\ \A i, j \in DOMAIN drop : drop[i] = drop[j] => i = j
  BY IntakeAssumption
<1>8. PICK n \in Nat : DOMAIN drop = 1..n /\ n # 0 /\ \A i \in 1..n : drop[i] \in Files
  BY <1>7, EmptySeq
<1>9. ASSUME NEW i \in 1..n
      PROVE  /\ new[i] \in Items /\ ItemSound(new[i]) /\ new[i].id = <<drop[i], c>>
             /\ new[i].file = drop[i] /\ new[i].verifying
  <2>1. PICK f \in Files : f = drop[i]
    BY <1>8
  <2>2. f # Null /\ classifyFilename(f) \in Types
    BY IntakeAssumption DEF classifyFilename, Types
  <2>3. new[i] = PendingFile(<<f, c>>, f, classifyFilename(f), Null, TRUE)
    BY <1>2, <1>3, <1>8, <2>1 DEF Entry
  <2>4. <<f, c>> \in Ids
    BY DEF Ids
  <2>5. PICK x : x = new[i]
    OBVIOUS
  <2>6. x.id = <<f, c>> /\ x.file = f /\ x.verifying = TRUE
    BY <2>3, <2>5 DEF PendingFile
  <2>7. x \in Items
    BY <2>2, <2>3, <2>4, <2>5 DEF Items, PendingFile
  <2>8. ItemSound(x)
    BY <2>2, <2>6 DEF ItemSound
  <2> QED BY <2>1, <2>5, <2>6, <2>7, <2>8
<1>10. new \in Seq(Items) /\ DOMAIN new = 1..n /\ Len(new) = n
  <2>1. DOMAIN new = 1..n /\ IsFn(new)
    BY <1>3, <1>8 DEF IsFn
  <2> QED BY <1>9, <2>1, GivenSequence
<1>11. \A i, j \in DOMAIN new : new[i].id = new[j].id => i = j
  BY <1>7, <1>8, <1>9, <1>10
<1>12. \A i \in DOMAIN new : ItemSound(new[i]) /\ new[i].id[2] = clicks
                             /\ (new[i].file # Null => new[i].verifying)
  BY <1>2, <1>9, <1>10
<1>13. /\ PendingInv' /\ OneEntry' /\ VerdictIsOfType'
       /\ PendingFiles' = PendingFiles \cup ({new[i].file : i \in DOMAIN new} \ {Null})
       /\ \A id, f, t : JobOK(id, f) /\ Waits(id, t) => JobOK(id, f)' /\ Waits(id, t)'
  BY <1>1, <1>6, <1>10, <1>11, <1>12, AddedEntries
<1>14. PendingFiles' = PendingFiles \cup ToSet(drop)
  <2>1. {new[i].file : i \in DOMAIN new} = ToSet(drop)
    BY <1>8, <1>9, <1>10 DEF ToSet
  <2>2. Null \notin ToSet(drop)
    BY <1>8, IntakeAssumption DEF ToSet
  <2> QED BY <1>13, <2>1, <2>2
<1>15. JobInv /\ WaitInv /\ OneJob
  BY DEF EntriesInv, IdInv
<1>16. ASSUME NEW l \in loops
       PROVE  LoopOK(l)' /\ \A i \in DOMAIN l.todo :
                 /\ Waits(l.todo[i].id, l.todo[i].detectedType)'
                 /\ l.todo[i].id[2] < c /\ l.todo[i].id[2] \in Nat
  <2>1. LoopOK(l)
    BY <1>15 DEF JobInv
  <2>2. ASSUME NEW i \in DOMAIN l.todo
        PROVE  /\ JobOK(l.todo[i].id, l.todo[i].file)'
               /\ Waits(l.todo[i].id, l.todo[i].detectedType)'
    BY <1>13, <1>15, <2>1 DEF LoopOK, WaitInv
  <2>3. ASSUME NEW i \in DOMAIN l.todo
        PROVE  l.todo[i].id[2] < c /\ l.todo[i].id[2] \in Nat
    BY <1>2, <2>1 DEF LoopOK, JobOK, Ids
  <2> QED BY <2>1, <2>2, <2>3 DEF LoopOK
<1>17. ASSUME NEW r \in rechecks
       PROVE  /\ JobOK(r.id, r.file)' /\ r.type \in Types /\ Waits(r.id, r.type)'
              /\ r.id[2] < c /\ r.id[2] \in Nat
  <2>1. JobOK(r.id, r.file) /\ r.type \in Types /\ Waits(r.id, r.type)
    BY <1>15 DEF JobInv, WaitInv
  <2>2. JobOK(r.id, r.file)' /\ Waits(r.id, r.type)'
    BY <1>13, <2>1
  <2>3. r.id[2] < c /\ r.id[2] \in Nat
    BY <1>2, <2>1 DEF JobOK, Ids
  <2> QED BY <2>1, <2>2, <2>3
<1>18. loop.todo = new
  BY <1>5
<1>19. LoopOK(loop)'
  <2>1. \A i \in DOMAIN new : JobOK(new[i].id, new[i].file)'
    <3> SUFFICES ASSUME NEW i \in 1..n PROVE JobOK(new[i].id, new[i].file)'
      BY <1>10
    <3>1. PICK f \in Files : f = drop[i]
      BY <1>8
    <3>2. new[i].id = <<f, c>> /\ new[i].file = f
      BY <1>9, <3>1
    <3>3. <<f, c>> \in Ids /\ <<f, c>>[1] = f /\ <<f, c>>[2] = c /\ c < c + 1
      BY DEF Ids
    <3>4. JobOK(<<f, c>>, f)'
      BY <1>1, <1>2, <3>3 DEF JobOK
    <3> QED BY <3>2, <3>4
  <2>2. new # <<>>
    BY <1>8, <1>10
  <2> QED BY <1>10, <1>18, <2>1, <2>2 DEF LoopOK
(* A new entry waits.                                                      *)
<1>20. ASSUME NEW k \in DOMAIN new PROVE Waits(new[k].id, new[k].detectedType)'
  <2>1. PICK p, q : p = pending /\ q = pending'
    OBVIOUS
  <2>2. PICK m \in Nat : m = Len(p) /\ DOMAIN p = 1..m
    BY <2>1 DEF EntriesInv, PendingInv
  <2>3. /\ q = p \o new /\ p \in Seq(Items)
    BY <1>6, <2>1 DEF EntriesInv, PendingInv
  <2>4. m + k \in DOMAIN q /\ q[m + k] = new[k]
    <3>1. k \in 1..n /\ m + k \in 1..(m + n) /\ ~ (m + k <= m) /\ (m + k) - m = k
      BY <1>10, <2>2
    <3>2. q \in Seq(Items) /\ Len(q) = m + n
      BY <1>10, <2>2, <2>3, ConcatProperties
    <3>3. q[m + k] = new[(m + k) - m]
      BY <1>10, <2>2, <2>3, <3>1, ConcatProperties
    <3>4. DOMAIN q = 1..(m + n)
      BY <3>2
    <3> QED BY <3>1, <3>3, <3>4
  <2>5. new[k].verifying /\ new[k].file # Null
    BY <1>8, <1>9, <1>10, IntakeAssumption
  <2>6. \A i, j \in DOMAIN q : q[i].file # Null /\ q[i].id = q[j].id => i = j
    BY <1>13, <2>1 DEF OneEntry
  <2>7. \A j \in DOMAIN q : q[j].id = new[k].id => q[j] = new[k]
    BY <2>4, <2>5, <2>6
  <2> QED BY <2>1, <2>5, <2>7 DEF Waits
<1>21. \A k \in DOMAIN new : new[k].id[2] = c
  BY <1>2, <1>12
<1>22. JobInv' /\ WaitInv'
  BY <1>6, <1>16, <1>17, <1>18, <1>19, <1>20 DEF JobInv, WaitInv
<1>23. OneJob'
  <2>1. ASSUME NEW l \in loops', NEW m \in loops', NEW i \in DOMAIN l.todo,
               NEW j \in DOMAIN m.todo, l.todo[i].id = m.todo[j].id
        PROVE  l = m /\ i = j
    <3>1. CASE l \in loops /\ m \in loops
      BY <1>15, <2>1, <3>1 DEF OneJob
    <3>2. CASE l = loop /\ m = loop
      BY <1>11, <1>18, <2>1, <3>2
    <3>3. CASE l \in loops /\ m = loop
      <4>1. l.todo[i].id[2] < c /\ l.todo[i].id[2] = c
        BY <1>16, <1>18, <1>21, <2>1, <3>3
      <4> QED BY <4>1
    <3>4. CASE l = loop /\ m \in loops
      <4>1. m.todo[j].id[2] < c /\ m.todo[j].id[2] = c
        BY <1>16, <1>18, <1>21, <2>1, <3>4
      <4> QED BY <4>1
    <3> QED BY <1>6, <3>1, <3>2, <3>3, <3>4
  <2>2. ASSUME NEW l \in loops', NEW r \in rechecks, NEW i \in DOMAIN l.todo,
               l.todo[i].id = r.id
        PROVE  r.id \in ghost.early
    <3>1. CASE l \in loops
      BY <1>15, <2>2, <3>1 DEF OneJob
    <3>2. CASE l = loop
      <4>1. r.id[2] < c /\ r.id[2] = c
        BY <1>17, <1>18, <1>21, <2>2, <3>2
      <4> QED BY <4>1
    <3> QED BY <1>6, <3>1, <3>2
  <2>3. \A r, s \in rechecks : r.id = s.id => r = s \/ r.id \in ghost.early
    BY <1>15 DEF OneJob
  <2> QED BY <1>6, <2>1, <2>2, <2>3 DEF OneJob
<1> QED BY <1>13, <1>14, <1>22, <1>23 DEF EntriesInv, IdInv

(* An entry is given another type.  A verification that still runs for it  *)
(* makes it one that was retyped early.                                    *)
LEMMA RetypedEntries ==
  ASSUME EntriesInv, clicks \in 0..MaxClicks, ghost \in Ghosts,
         NEW i \in DOMAIN pending, NEW docType \in DocTypes, updateType(i, docType)
  PROVE  EntriesInv' /\ PendingFiles' = PendingFiles
<1>1. clicks \in Nat /\ clicks' = clicks + 1
  BY Clicks DEF updateType
<1>2. PICK c \in Nat : c = clicks
  BY <1>1
<1>3. PICK p, q : p = pending /\ q = pending'
  OBVIOUS
<1>4. PICK x : x = p[i]
  OBVIOUS
<1>5. PICK y : y = PendingFile(x.id, x.file, docType, x.verification, x.file # Null)
  OBVIOUS
<1>6. PICK n \in Nat : DOMAIN p = 1..n
  BY <1>3 DEF EntriesInv, PendingInv
<1>7. p \in Seq(Items) /\ i \in DOMAIN p /\ \A j \in DOMAIN p : p[j] \in Items
  BY <1>3 DEF EntriesInv, PendingInv
<1>8. q = [j \in DOMAIN p |-> IF j = i THEN y ELSE p[j]]
  <2>1. q = [p EXCEPT ![i] = y]
    BY <1>3, <1>4, <1>5 DEF updateType
  <2>2. p = [j \in DOMAIN p |-> p[j]]
    <3> DEFINE I == Items
    <3>1. p \in Seq(I)
      BY <1>7
    <3> HIDE DEF I
    <3> QED BY <3>1
  <2> QED BY <1>7, <2>1, <2>2
<1>9. DOMAIN q = DOMAIN p /\ q[i] = y /\ \A j \in DOMAIN p : j # i => q[j] = p[j]
  BY <1>7, <1>8
<1>10. docType \in Types
  BY IntakeAssumption DEF Types
<1>11. /\ y.id = x.id /\ y.file = x.file /\ y.detectedType = docType
       /\ y.verification = x.verification /\ y.verifying = (x.file # Null)
  BY <1>5 DEF PendingFile
<1>12. y \in Items
  <2>1. x \in Items
    BY <1>4, <1>7
  <2>2. (x.file # Null) \in BOOLEAN
    OBVIOUS
  <2> QED BY <1>5, <1>10, <2>1, <2>2 DEF Items, PendingFile
<1>13. /\ ItemSound(x) /\ x.id[2] < c /\ x.id[2] \in Nat /\ x.id \in Ids
       /\ x.file \in Files \cup {Null}
  BY <1>2, <1>3, <1>4, <1>7 DEF EntriesInv, PendingInv, Items, Ids
<1>14. PendingInv'
  <2>1. q \in Seq(Items)
    <3>1. DOMAIN q = 1..n /\ IsFn(q)
      BY <1>6, <1>8 DEF IsFn
    <3>2. \A j \in 1..n : q[j] \in Items
      BY <1>6, <1>7, <1>9, <1>12
    <3> QED BY <3>1, <3>2, GivenSequence
  <2>2. ItemSound(y)
    BY <1>11, <1>13 DEF ItemSound
  <2>3. ASSUME NEW j \in DOMAIN q PROVE ItemSound(q[j]) /\ q[j].id[2] < c + 1
    <3>1. CASE j = i
      <4>1. q[j] = y
        BY <1>9, <3>1
      <4> QED BY <1>11, <1>13, <2>2, <4>1
    <3>2. CASE j # i
      <4>1. q[j] = p[j] /\ j \in DOMAIN p
        BY <1>9, <3>2
      <4>2. ItemSound(p[j]) /\ p[j].id[2] < c /\ p[j].id[2] \in Nat
        BY <1>2, <1>3, <1>7, <4>1 DEF EntriesInv, PendingInv, Items, Ids
      <4> QED BY <4>1, <4>2
    <3> QED BY <3>1, <3>2
  <2> QED BY <1>1, <1>2, <1>3, <2>1, <2>3 DEF PendingInv
<1>15. \A j \in DOMAIN p : q[j].id = p[j].id /\ q[j].file = p[j].file
  BY <1>4, <1>9, <1>11
<1>16. OneEntry'
  <2>1. \A j, k \in DOMAIN p : p[j].file # Null /\ p[j].id = p[k].id => j = k
    BY <1>3 DEF EntriesInv, IdInv, OneEntry
  <2>2. \A j, k \in DOMAIN q : q[j].file # Null /\ q[j].id = q[k].id => j = k
    BY <1>9, <1>15, <2>1
  <2> QED BY <1>3, <2>2 DEF OneEntry
<1>17. PendingFiles' = PendingFiles
  <2>1. {q[j].file : j \in DOMAIN q} = {p[j].file : j \in DOMAIN p}
    BY <1>9, <1>15
  <2>2. PendingFiles = {p[j].file : j \in DOMAIN p} \ {Null}
    BY <1>3 DEF PendingFiles
  <2>3. PendingFiles' = {q[j].file : j \in DOMAIN q} \ {Null}
    BY <1>3 DEF PendingFiles
  <2> QED BY <2>1, <2>2, <2>3
<1>18. PICK e, ee : e = ghost.early /\ ee = ghost'.early
  OBVIOUS
<1>19. e \subseteq ee /\ (x.verifying => x.id \in ee)
  <2>1. ghost' = IF x.verifying THEN [ghost EXCEPT !.early = @ \cup {x.id}] ELSE ghost
    BY <1>3, <1>4 DEF updateType
  <2> QED BY <1>18, <2>1 DEF Ghosts
<1>20. VerdictIsOfType'
  <2>1. ASSUME NEW j \in DOMAIN q, q[j].file # Null, IsDone(q[j]), q[j].id \notin ee
        PROVE  q[j].verification = verifyDocument(q[j].file, q[j].detectedType)
    <3>1. j # i
      BY <1>9, <1>11, <2>1 DEF IsDone
    <3>2. q[j] = p[j] /\ j \in DOMAIN p
      BY <1>9, <3>1
    <3>3. p[j].id \notin ghost.early
      BY <1>18, <1>19, <2>1, <3>2
    <3> QED BY <1>3, <2>1, <3>2, <3>3 DEF EntriesInv, VerdictIsOfType
  <2> QED BY <1>3, <1>18, <2>1 DEF VerdictIsOfType
(* A verification of this id makes it early; the others go on.             *)
<1>21. ASSUME NEW id, NEW f, NEW t, JobOK(id, f), Waits(id, t)
       PROVE  /\ JobOK(id, f)' /\ Waits(id, t)' /\ (id = x.id => id \in ee)
  <2>1. id[2] \in Nat /\ id[2] < c
    BY <1>2, <1>21 DEF JobOK, Ids
  <2>2. JobOK(id, f)'
    BY <1>1, <1>2, <1>21, <2>1 DEF JobOK
  <2>3. id = x.id => id \in ee
    BY <1>3, <1>4, <1>7, <1>18, <1>19, <1>21 DEF Waits
  <2>4. CASE id \in ee
    BY <1>18, <2>2, <2>3, <2>4 DEF Waits
  <2>5. CASE id \notin ee
    <3>1. id # x.id /\ id \notin ghost.early
      BY <1>18, <1>19, <2>3, <2>5
    <3>2. \A j \in DOMAIN p : p[j].id = id => p[j].verifying /\ p[j].detectedType = t
      BY <1>3, <1>21, <3>1 DEF Waits
    <3>3. \A j \in DOMAIN q : q[j].id = id => q[j].verifying /\ q[j].detectedType = t
      BY <1>9, <1>11, <3>1, <3>2
    <3> QED BY <1>3, <2>2, <2>3, <3>3 DEF Waits
  <2> QED BY <2>4, <2>5
<1>22. PICK z : z = zone
  OBVIOUS
<1>23. PICK r : r = [id |-> x.id, file |-> x.file, type |-> docType, zone |-> z, at |-> c]
  OBVIOUS
<1>24. /\ UNCHANGED loops
       /\ rechecks' = IF x.file = Null THEN rechecks ELSE rechecks \cup {r}
  BY <1>2, <1>3, <1>4, <1>22, <1>23 DEF updateType
<1>25. r.id = x.id /\ r.file = x.file /\ r.type = docType
  BY <1>23
<1>26. x.file # Null => JobOK(r.id, r.file)' /\ Waits(r.id, r.type)'
  <2> SUFFICES ASSUME x.file # Null PROVE JobOK(x.id, x.file)' /\ Waits(x.id, docType)'
    BY <1>25
  <2>1. JobOK(x.id, x.file)'
    BY <1>1, <1>2, <1>13 DEF JobOK, ItemSound
  <2>2. \A j, k \in DOMAIN q : q[j].file # Null /\ q[j].id = q[k].id => j = k
    BY <1>3, <1>16 DEF OneEntry
  <2>3. \A j \in DOMAIN q : q[j].id = x.id => q[j] = y
    BY <1>7, <1>9, <1>11, <2>2
  <2> QED BY <1>3, <1>11, <2>1, <2>3 DEF Waits
<1>27. JobInv /\ WaitInv /\ OneJob
  BY DEF EntriesInv, IdInv
<1>28. ASSUME NEW l \in loops
       PROVE  LoopOK(l)' /\ \A k \in DOMAIN l.todo :
                 /\ Waits(l.todo[k].id, l.todo[k].detectedType)'
                 /\ l.todo[k].id = x.id => x.id \in ee
  <2>1. LoopOK(l)
    BY <1>27 DEF JobInv
  <2>2. ASSUME NEW k \in DOMAIN l.todo
        PROVE  /\ JobOK(l.todo[k].id, l.todo[k].file)'
               /\ Waits(l.todo[k].id, l.todo[k].detectedType)'
               /\ l.todo[k].id = x.id => x.id \in ee
    BY <1>21, <1>27, <2>1 DEF LoopOK, WaitInv
  <2> QED BY <2>1, <2>2 DEF LoopOK
<1>29. ASSUME NEW s \in rechecks
       PROVE  /\ JobOK(s.id, s.file)' /\ s.type \in Types /\ Waits(s.id, s.type)'
              /\ s.id = x.id => x.id \in ee
  BY <1>21, <1>27 DEF JobInv, WaitInv
<1>30. JobInv' /\ WaitInv'
  BY <1>10, <1>24, <1>25, <1>26, <1>28, <1>29 DEF JobInv, WaitInv
<1>31. OneJob'
  <2>1. \A l, m \in loops : \A k \in DOMAIN l.todo, j \in DOMAIN m.todo :
          l.todo[k].id = m.todo[j].id => l = m /\ k = j
    BY <1>27 DEF OneJob
  <2>2. ASSUME NEW l \in loops, NEW s \in rechecks', NEW k \in DOMAIN l.todo,
               l.todo[k].id = s.id
        PROVE  s.id \in ee
    <3>1. CASE s \in rechecks
      BY <1>18, <1>19, <1>27, <2>2, <3>1 DEF OneJob
    <3>2. CASE s = r
      BY <1>25, <1>28, <2>2, <3>2
    <3> QED BY <1>24, <3>1, <3>2
  <2>3. ASSUME NEW s \in rechecks', NEW u \in rechecks', s.id = u.id
        PROVE  s = u \/ s.id \in ee
    <3>1. CASE s \in rechecks /\ u \in rechecks
      BY <1>18, <1>19, <1>27, <2>3, <3>1 DEF OneJob
    <3>2. CASE s = r /\ u \in rechecks
      BY <1>25, <1>29, <2>3, <3>2
    <3>3. CASE s \in rechecks /\ u = r
      BY <1>25, <1>29, <2>3, <3>3
    <3> QED BY <1>24, <3>1, <3>2, <3>3
  <2> QED BY <1>18, <1>24, <2>1, <2>2, <2>3 DEF OneJob
<1> QED BY <1>14, <1>16, <1>17, <1>20, <1>30, <1>31 DEF EntriesInv, IdInv
-----------------------------------------------------------------------------
(* The application and the batches.                                        *)

(* Nothing of a is taken back in c.                                        *)
Grown(a, c) == IsPrefix(a.documents, c.documents) /\ Lists(a, c)

(* A sequence is a prefix of what it is extended to.                       *)
LEMMA PrefixOf ==
  ASSUME NEW X, NEW s \in Seq(X), NEW t \in Seq(X)
  PROVE  IsPrefix(s, s) /\ IsPrefix(s, s \o t) /\ s \o t \in Seq(X)
BY DEF IsPrefix

(* An application has not lost anything to itself.                         *)
LEMMA GrownSame ==
  ASSUME NEW a, Application(a)
  PROVE  Grown(a, a)
<1>1. a.documents \in Seq(Docs)
  BY DEF Application
<1>2. IsPrefix(a.documents, a.documents)
  <2> DEFINE D == Docs
  <2>1. a.documents \in Seq(D)
    BY <1>1
  <2> HIDE DEF D
  <2> QED BY <2>1, PrefixOf
<1> QED BY <1>2 DEF Grown, Lists

(* An update and new documents are stored.                                 *)
LEMMA Filed ==
  ASSUME NEW a, NEW u, NEW ds \in Seq(Docs), Application(a), UpdateOK(u, a), NEW c,
         c = Spread(a, Spread(u, [documents |-> ds]))
  PROVE  Application(c) /\ Lists(a, c) /\ c.documents = ds
<1>1. PICK w : w = [documents |-> ds]
  OBVIOUS
<1>2. DOMAIN w = {"documents"} /\ w["documents"] = ds
  BY <1>1
<1>3. PICK b : b = Spread(a, u)
  OBVIOUS
<1>4. AppOK(b) /\ Lists(a, b)
  BY <1>3, UpdateApplies DEF Application
<1>5. c = Spread(b, w)
  BY <1>1, <1>3, SpreadAssoc
<1>6. IsSpread(c, b, w)
  BY <1>5, SpreadIs
<1>7. IsFn(c) /\ DOMAIN c = Fields /\ c.documents = ds
      /\ \A k \in Fields \ {"documents"} : c[k] = b[k]
  BY <1>2, <1>4, <1>6 DEF IsSpread, AppOK, Fields
<1>8. AppOK(c)
  BY <1>4, <1>7 DEF AppOK, Objects, Fields
<1>9. Lists(a, c)
  BY <1>4, <1>7 DEF Lists, Fields
<1> QED BY <1>7, <1>8, <1>9 DEF Application

(* The mode of the step is stored.                                         *)
LEMMA ModeStored ==
  ASSUME NEW a, NEW m, Application(a), NEW c, c = Spread(a, [upload_mode |-> m])
  PROVE  Application(c) /\ Grown(a, c) /\ c.documents = a.documents
<1>1. PICK w : w = [upload_mode |-> m]
  OBVIOUS
<1>2. DOMAIN w = {"upload_mode"}
  BY <1>1
<1>3. IsSpread(c, a, w)
  BY <1>1, SpreadIs
<1>4. IsFn(c) /\ DOMAIN c = Fields /\ \A k \in Fields \ {"upload_mode"} : c[k] = a[k]
  BY <1>2, <1>3 DEF IsSpread, AppOK, Fields, Application
<1>5. AppOK(c)
  BY <1>4 DEF AppOK, Objects, Fields, Application
<1>6. c.documents = a.documents /\ Lists(a, c)
  BY <1>4 DEF Lists, Fields
<1>7. Grown(a, c)
  BY <1>6, GrownSame DEF Grown
<1> QED BY <1>5, <1>6, <1>7 DEF Application

(* A name is typed into the identity step.                                 *)
LEMMA ProfileStored ==
  ASSUME NEW a, Application(a), NEW c,
         c = Spread(a, [business_profile |-> [a.business_profile EXCEPT !.legal_name = "typed"]])
  PROVE  Application(c) /\ Grown(a, c) /\ c.documents = a.documents
<1>1. PICK v : v = [a.business_profile EXCEPT !.legal_name = "typed"]
  OBVIOUS
<1>2. ObjectOK("business_profile", a.business_profile)
  BY DEF Application, AppOK, Objects
<1>3. ObjectOK("business_profile", v)
  BY <1>1, <1>2 DEF ObjectOK, IsFn
<1>4. UpdateOK([business_profile |-> v], a)
  BY <1>3, OneObject
<1>5. AppOK(c) /\ Lists(a, c) /\ c.documents = a.documents
  BY <1>1, <1>4, UpdateApplies DEF Application
<1>6. Grown(a, c)
  BY <1>5, GrownSame DEF Grown
<1> QED BY <1>5, <1>6 DEF Application

(* What a sample is filed as.                                              *)
LEMMA SampleDocumentOK ==
  ASSUME NEW t \in SampleTypes
  PROVE  SampleDocument(t) \in Docs
BY DEF SampleDocument, SampleVerdict, Docs, Types, Verdicts

(* What an entry that passed is filed as.                                  *)
LEMMA PendingDocumentOK ==
  ASSUME NEW x \in Ready, NEW answered
  PROVE  pendingToDocument(x, answered) \in Docs /\ pendingToDocument(x, answered).file = x.file
BY DEF pendingToDocument, Docs, Ready, Items

(* What processFiles sends has passed.                                     *)
LEMMA BatchMade ==
  ASSUME Application(app), PendingInv,
         \A i \in DOMAIN pending : ~ pending[i].verifying /\ pending[i].verification # "FAIL"
  PROVE  BatchOK(Batch) /\ Batch.app = app /\ Batch.zone = zone
<1> DEFINE S == {x \in ToSet(pending) : x.file = Null /\ x.detectedType \in SampleTypes}
           F == {x \in ToSet(pending) : x.file # Null}
           I == Items
<1>1. PICK p \in Seq(I) : p = pending
  BY DEF PendingInv
<1>2. PICK typed, entries : typed = Filter(p, S) /\ entries = Filter(p, F)
  OBVIOUS
<1>3. \A i \in DOMAIN p : /\ p[i] \in Items /\ ItemSound(p[i]) /\ ~ p[i].verifying
                          /\ p[i].verification # "FAIL"
  BY <1>1 DEF PendingInv
<1> HIDE DEF I
<1>4. /\ typed \in Seq(I) /\ FilterOf(typed, p, S, Len(p))
      /\ entries \in Seq(I) /\ FilterOf(entries, p, F, Len(p))
  <2> HIDE DEF S, F
  <2> QED BY <1>1, <1>2, FilterIs
<1>5. DOMAIN p = 1..Len(p) /\ DOMAIN typed = 1..Len(typed) /\ DOMAIN entries = 1..Len(entries)
      /\ Len(typed) \in Nat /\ Len(entries) \in Nat
  BY <1>1, <1>4
<1>6. \A j \in 1..Len(typed) : typed[j].detectedType \in SampleTypes
  BY <1>4 DEF FilterOf
<1>7. entries \in Seq(Ready)
  <2>1. ASSUME NEW j \in 1..Len(entries) PROVE entries[j] \in Ready
    <3>1. entries[j] \in F
      BY <1>4 DEF FilterOf
    <3>2. PICK i \in 1..Len(p) : entries[j] = p[i]
      BY <1>4 DEF FilterOf
    <3>3. entries[j].file # Null
      BY <3>1
    <3>4. /\ p[i] \in Items /\ ItemSound(p[i]) /\ ~ p[i].verifying
          /\ p[i].verification # "FAIL" /\ p[i].file # Null
      BY <1>3, <1>5, <3>2, <3>3
    <3>5. p[i].verification \in Verdicts /\ ~ Fails(p[i].file)
      BY <3>4 DEF ItemSound
    <3> QED BY <3>2, <3>4, <3>5 DEF Ready
  <2>2. IsFn(entries)
    BY <1>4 DEF IsFn
  <2> QED BY <1>5, <2>1, <2>2, GivenSequence
<1>8. PICK types : types = [i \in DOMAIN typed |-> typed[i].detectedType]
  OBVIOUS
<1>9. /\ DOMAIN types = 1..Len(typed) /\ Len(types) = Len(typed) /\ Len(types) \in Nat
      /\ \A i \in 1..Len(types) : types[i] \in SampleTypes
  <2>1. DOMAIN types = 1..Len(typed) /\ IsFn(types)
        /\ \A i \in 1..Len(typed) : types[i] \in SampleTypes
    BY <1>5, <1>6, <1>8 DEF IsFn
  <2>2. Len(types) = Len(typed)
    BY <1>5, <2>1, GivenSequence
  <2> QED BY <1>5, <2>1, <2>2
<1>10. PICK samples : samples = [i \in DOMAIN types |-> SampleDocument(types[i])]
  OBVIOUS
<1>11. samples \in Seq(Docs)
  <2>1. DOMAIN samples = 1..Len(types) /\ IsFn(samples)
    BY <1>9, <1>10 DEF IsFn
  <2>2. \A i \in 1..Len(types) : samples[i] \in Docs
    BY <1>9, <1>10, SampleDocumentOK
  <2> QED BY <1>9, <2>1, <2>2, GivenSequence
<1>12. PICK a : a = app
  OBVIOUS
<1>13. UpdateOK(processSampleEntries(types, a), a)
  BY <1>9, <1>12, PrefillOK DEF Application
<1>14. PICK prefill : prefill = processSampleEntries(types, a)
  OBVIOUS
<1>15. PICK z : z = zone
  OBVIOUS
<1>16. Batch = [entries |-> entries, samples |-> samples, prefill |-> prefill,
                app |-> a, zone |-> z]
  BY <1>1, <1>2, <1>8, <1>10, <1>12, <1>14, <1>15 DEF Batch
<1>17. PICK b : b = Batch
  OBVIOUS
<1>18. /\ b.entries = entries /\ b.samples = samples /\ b.prefill = prefill
       /\ b.app = a /\ b.zone = z
  BY <1>16, <1>17
<1>19. BatchOK(b)
  BY <1>7, <1>11, <1>12, <1>13, <1>14, <1>18 DEF BatchOK
<1> QED BY <1>12, <1>15, <1>17, <1>18, <1>19

(* Only files are pending files.                                           *)
LEMMA PendingFilesAre ==
  ASSUME PendingInv
  PROVE  PendingFiles \subseteq Files
<1>1. ASSUME NEW i \in DOMAIN pending PROVE pending[i].file \in Files \cup {Null}
  <2>1. pending[i] \in Items
    BY DEF PendingInv
  <2> QED BY <2>1 DEF Items
<1> QED BY <1>1 DEF PendingFiles

(* A batch is filed.                                                       *)
LEMMA FileEffect ==
  ASSUME NEW b, BatchOK(b), NEW real, UpdateOK(real, Spread(b.app, b.prefill)),
         NEW docs \in Seq(Docs), File(b, real, docs), ghost \in Ghosts, PendingInv
  PROVE  /\ Application(app') /\ Lists(b.app, app')
         /\ app'.documents = b.app.documents \o b.samples \o docs
         /\ IsPrefix(b.app.documents, app'.documents)
         /\ ghost' \in Ghosts /\ ghost'.added = ghost.added
         /\ ghost'.early = ghost.early /\ ghost.discarded \subseteq ghost'.discarded
         /\ ghost'.stale = (ghost.stale \/ app # b.app)
         /\ pending' = (IF b.zone = zone THEN <<>> ELSE pending)
         /\ ghost.swept \subseteq ghost'.swept
         /\ b.zone = zone
              => PendingFiles \subseteq ghost'.swept \cup {x.file : x \in ToSet(b.entries)}
<1>1. PICK c : c = app'
  OBVIOUS
<1>2. PICK ds : ds = b.app.documents \o b.samples \o docs
  OBVIOUS
<1>3. Application(b.app) /\ UpdateOK(b.prefill, b.app) /\ b.samples \in Seq(Docs)
      /\ b.app.documents \in Seq(Docs)
  BY DEF BatchOK, Application
<1>4. ds \in Seq(Docs) /\ IsPrefix(b.app.documents, ds)
  <2> DEFINE D == Docs
  <2>1. b.app.documents \in Seq(D) /\ b.samples \in Seq(D) /\ docs \in Seq(D)
    BY <1>3
  <2> HIDE DEF D
  <2>2. PICK s, t : s = b.app.documents /\ t = b.samples
    OBVIOUS
  <2>3. s \in Seq(D) /\ t \in Seq(D)
    BY <2>1, <2>2
  <2>4. s \o t \in Seq(D) /\ t \o docs \in Seq(D)
    BY <2>1, <2>3, PrefixOf
  <2>5. (s \o t) \o docs = s \o (t \o docs)
    BY <2>1, <2>3, ConcatAssociative
  <2>6. s \o (t \o docs) \in Seq(D) /\ IsPrefix(s, s \o (t \o docs))
    BY <2>3, <2>4, PrefixOf
  <2>7. ds \in Seq(D) /\ IsPrefix(b.app.documents, ds)
    BY <1>2, <2>2, <2>5, <2>6
  <2> QED BY <2>7 DEF D
<1>5. PICK u : u = Spread(b.prefill, real)
  OBVIOUS
<1>6. UpdateOK(u, b.app)
  <2>1. AppOK(b.app)
    BY <1>3 DEF Application
  <2> QED BY <1>3, <1>5, <2>1, UpdatesCompose
<1>7. c = Spread(b.app, Spread(u, [documents |-> ds]))
  BY <1>1, <1>2, <1>5 DEF File, Stored
<1>8. Application(c) /\ Lists(b.app, c) /\ c.documents = ds
  BY <1>3, <1>4, <1>6, <1>7, Filed
<1>9. PendingFiles \subseteq Files
  BY PendingFilesAre
<1>10. PICK sw : sw = IF b.zone = zone
                      THEN PendingFiles \ {x.file : x \in ToSet(b.entries)} ELSE {}
  OBVIOUS
<1>11. PICK st \in BOOLEAN : st = (app # b.app)
  OBVIOUS
<1>12. /\ ghost' = [added |-> ghost.added, discarded |-> ghost.discarded,
                    swept |-> ghost.swept \cup sw,
                    early |-> ghost.early, stale |-> ghost.stale \/ st]
       /\ pending' = (IF b.zone = zone THEN <<>> ELSE pending)
  BY <1>10, <1>11 DEF File
<1>13. sw \subseteq Files
  BY <1>9, <1>10
<1>14. /\ ghost' \in Ghosts /\ ghost'.added = ghost.added /\ ghost'.early = ghost.early
       /\ ghost.discarded \subseteq ghost'.discarded
       /\ ghost'.swept = ghost.swept \cup sw /\ ghost'.stale = (ghost.stale \/ st)
  BY <1>12, <1>13 DEF Ghosts
<1>15. b.zone = zone
         => PendingFiles \subseteq ghost'.swept \cup {x.file : x \in ToSet(b.entries)}
  BY <1>10, <1>14
<1> QED BY <1>1, <1>2, <1>4, <1>8, <1>11, <1>12, <1>14, <1>15

(* Where files are: pending, discarded, swept, in a batch, filed.          *)
BatchFiles(b) == {b.entries[i].file : i \in DOMAIN b.entries}
FiledFiles(a) == {a.documents[i].file : i \in DOMAIN a.documents}
InBatches == UNION {BatchFiles(b) : b \in batches}
Places == PendingFiles \cup ghost.discarded \cup ghost.swept \cup InBatches \cup FiledFiles(app)

(* Every file is in one of these places.                                   *)
LEMMA AccountedIs ==
  /\ EveryFileAccounted <=> (ghost.stale \/ ghost.added \subseteq Places)
  /\ EveryFileAccounted' <=> (ghost'.stale \/ ghost'.added \subseteq Places')
<1>1. EveryFileAccounted <=> (ghost.stale \/ ghost.added \subseteq Places)
  <2>1. ASSUME NEW f
        PROVE  f \in Places <=>
                 \/ f \in PendingFiles \cup ghost.discarded \cup ghost.swept
                 \/ \E b \in batches : \E i \in DOMAIN b.entries : b.entries[i].file = f
                 \/ \E i \in DOMAIN app.documents : app.documents[i].file = f
    BY DEF Places, InBatches, BatchFiles, FiledFiles
  <2> QED BY <2>1 DEF EveryFileAccounted
<1>2. EveryFileAccounted' <=> (ghost'.stale \/ ghost'.added \subseteq Places')
  <2>1. ASSUME NEW f
        PROVE  f \in Places' <=>
                 \/ f \in PendingFiles' \cup ghost'.discarded \cup ghost'.swept
                 \/ \E b \in batches' : \E i \in DOMAIN b.entries : b.entries[i].file = f
                 \/ \E i \in DOMAIN app'.documents : app'.documents[i].file = f
    BY DEF Places, InBatches, BatchFiles, FiledFiles
  <2> QED BY <2>1 DEF EveryFileAccounted
<1> QED BY <1>1, <1>2

(* It stays so when no place loses a file.                                 *)
LEMMA StillAccounted ==
  ASSUME EveryFileAccounted, ghost.stale => ghost'.stale,
         ghost'.stale \/ (Places \subseteq Places' /\ ghost'.added \subseteq ghost.added \cup Places')
  PROVE  EveryFileAccounted'
<1>1. ghost.stale \/ ghost.added \subseteq Places
  BY AccountedIs
<1>2. ghost'.stale \/ ghost'.added \subseteq Places'
  BY <1>1
<1> QED BY <1>2, AccountedIs

(* Documents that are kept keep their files.                               *)
LEMMA PrefixFiles ==
  ASSUME NEW a, NEW c, a.documents \in Seq(Docs), c.documents \in Seq(Docs),
         IsPrefix(a.documents, c.documents)
  PROVE  FiledFiles(a) \subseteq FiledFiles(c)
<1> DEFINE D == Docs
<1>1. PICK s, t \in Seq(D) : s = a.documents /\ t = c.documents /\ IsPrefix(s, t)
  OBVIOUS
<1> HIDE DEF D
<1>2. PICK m, n \in Nat : /\ m = Len(s) /\ n = Len(t) /\ m <= n
                          /\ DOMAIN s = 1..m /\ DOMAIN t = 1..n
  BY <1>1 DEF IsPrefix
<1>3. SubSeq(s, 1, m) = SubSeq(t, 1, m)
  BY <1>1, <1>2 DEF IsPrefix
<1>4. \A i \in 1..m : SubSeq(s, 1, m)[i] = s[i] /\ SubSeq(t, 1, m)[i] = t[i] /\ i \in 1..n
  BY <1>1, <1>2
<1>5. \A i \in 1..m : s[i] = t[i] /\ i \in 1..n
  BY <1>3, <1>4
<1> QED BY <1>1, <1>2, <1>5 DEF FiledFiles

(* What a batch filed: its documents follow those it found; unless the     *)
(* application had changed meanwhile, nothing is taken back.               *)
FiledFrom(b) ==
  /\ Application(app') /\ Lists(b.app, app') /\ IsPrefix(b.app.documents, app'.documents)
  /\ BatchFiles(b) \subseteq FiledFiles(app')
  /\ ghost' \in Ghosts /\ ghost'.added = ghost.added /\ ghost'.early = ghost.early
  /\ ghost.discarded \subseteq ghost'.discarded /\ ghost.swept \subseteq ghost'.swept
  /\ ghost'.stale = (ghost.stale \/ app # b.app)
  /\ pending' = (IF b.zone = zone THEN <<>> ELSE pending)
  /\ b.zone = zone => PendingFiles \subseteq ghost'.swept \cup BatchFiles(b)

(* The files of a batch are among the documents it files.                  *)
LEMMA FileFiles ==
  ASSUME NEW b, BatchOK(b), NEW real, UpdateOK(real, Spread(b.app, b.prefill)),
         NEW docs \in Seq(Docs), File(b, real, docs), ghost \in Ghosts, PendingInv,
         DOMAIN docs = DOMAIN b.entries,
         \A i \in DOMAIN docs : docs[i].file = b.entries[i].file
  PROVE  FiledFrom(b)
<1>1. /\ Application(app') /\ Lists(b.app, app')
      /\ app'.documents = b.app.documents \o b.samples \o docs
      /\ IsPrefix(b.app.documents, app'.documents)
      /\ ghost' \in Ghosts /\ ghost'.added = ghost.added
      /\ ghost'.early = ghost.early /\ ghost.discarded \subseteq ghost'.discarded
      /\ ghost'.stale = (ghost.stale \/ app # b.app)
      /\ pending' = (IF b.zone = zone THEN <<>> ELSE pending)
      /\ ghost.swept \subseteq ghost'.swept
      /\ b.zone = zone
           => PendingFiles \subseteq ghost'.swept \cup {x.file : x \in ToSet(b.entries)}
  BY FileEffect
<1>2. {x.file : x \in ToSet(b.entries)} = BatchFiles(b)
  BY DEF ToSet, BatchFiles
<1>3. BatchFiles(b) \subseteq FiledFiles(app')
  <2> DEFINE D == Docs
  <2>1. b.app.documents \in Seq(D) /\ b.samples \in Seq(D) /\ docs \in Seq(D)
    BY DEF BatchOK, Application
  <2> HIDE DEF D
  <2>2. PICK s : s = b.app.documents \o b.samples
    OBVIOUS
  <2>3. PICK t : t = s \o docs
    OBVIOUS
  <2>4. s \in Seq(D)
    BY <2>1, <2>2, PrefixOf
  <2>5. PICK m, n \in Nat : m = Len(s) /\ n = Len(docs) /\ DOMAIN docs = 1..n
    BY <2>1, <2>4
  <2>6. t \in Seq(D) /\ Len(t) = m + n
    BY <2>1, <2>3, <2>4, <2>5, ConcatProperties
  <2>7. DOMAIN t = 1..(m + n)
    BY <2>6
  <2>8. ASSUME NEW i \in 1..n PROVE m + i \in DOMAIN t /\ t[m + i] = docs[i]
    <3>1. m + i \in 1..(m + n) /\ ~ (m + i <= m) /\ (m + i) - m = i
      BY <2>5
    <3>2. t[m + i] = docs[(m + i) - m]
      BY <2>1, <2>3, <2>4, <2>5, <3>1, ConcatProperties
    <3> QED BY <2>7, <3>1, <3>2
  <2>9. \A i \in DOMAIN b.entries : \E j \in DOMAIN t : t[j].file = b.entries[i].file
    BY <2>5, <2>8
  <2>10. app'.documents = t
    BY <1>1, <2>2, <2>3
  <2>11. PICK c : c = app'
    OBVIOUS
  <2>12. c.documents = t
    BY <2>10, <2>11
  <2>13. BatchFiles(b) \subseteq FiledFiles(c)
    BY <2>9, <2>12 DEF BatchFiles, FiledFiles
  <2> QED BY <2>11, <2>13
<1> QED BY <1>1, <1>2, <1>3 DEF FiledFrom

(* The parser's answer has one result for every file.                      *)
LEMMA AnswerOK ==
  ASSUME NEW b, BatchOK(b), NEW results \in Answers(b)
  PROVE  /\ Len(results) \in Nat /\ AppOK(Spread(b.app, b.prefill))
<1>1. PICK n \in Nat : DOMAIN b.entries = 1..n
  BY DEF BatchOK
<1>2. PICK read \in SUBSET DOMAIN b.entries :
        results = [i \in DOMAIN b.entries |->
                     [docType |-> b.entries[i].detectedType,
                      data |-> IF i \in read
                               THEN Data[b.entries[i].file][b.entries[i].detectedType]
                               ELSE Null]]
  BY DEF Answers
<1>3. DOMAIN results = 1..n /\ IsFn(results)
  BY <1>1, <1>2 DEF IsFn
<1>4. PICK X : \A i \in 1..n : results[i] \in X
  <2>1. \A i \in 1..n : results[i] \in {results[j] : j \in 1..n}
    OBVIOUS
  <2> QED BY <2>1
<1>5. Len(results) = n
  BY <1>3, <1>4, GivenSequence
<1>6. AppOK(Spread(b.app, b.prefill))
  BY UpdateApplies DEF BatchOK, Application
<1> QED BY <1>5, <1>6

(* The parser answers, or the request fails.                               *)
LEMMA ExtractionFiles ==
  ASSUME NEW b, BatchOK(b), ExtractionDone(b), ghost \in Ghosts, PendingInv
  PROVE  FiledFrom(b)
<1>1. PICK base : base = Spread(b.app, b.prefill)
  OBVIOUS
<1>2. AppOK(base)
  BY <1>1, UpdateApplies DEF BatchOK, Application
<1>3. PICK n \in Nat : DOMAIN b.entries = 1..n /\ \A i \in 1..n : b.entries[i] \in Ready
  BY DEF BatchOK
<1>4. ASSUME NEW answered, NEW docs,
             docs = [i \in DOMAIN b.entries |-> pendingToDocument(b.entries[i], answered)]
      PROVE  /\ docs \in Seq(Docs) /\ DOMAIN docs = DOMAIN b.entries
             /\ \A i \in DOMAIN docs : docs[i].file = b.entries[i].file
  <2>1. DOMAIN docs = 1..n /\ IsFn(docs)
    BY <1>3, <1>4 DEF IsFn
  <2>2. ASSUME NEW i \in 1..n PROVE docs[i] \in Docs /\ docs[i].file = b.entries[i].file
    <3>1. PICK x \in Ready : x = b.entries[i]
      BY <1>3
    <3>2. docs[i] = pendingToDocument(x, answered)
      BY <1>3, <1>4, <3>1
    <3> QED BY <3>1, <3>2, PendingDocumentOK
  <2>3. docs \in Seq(Docs)
    BY <2>1, <2>2, GivenSequence
  <2> QED BY <1>3, <2>1, <2>2, <2>3
<1>5. ASSUME NEW real, NEW answered, UpdateOK(real, base),
             File(b, real, [i \in DOMAIN b.entries |->
                              pendingToDocument(b.entries[i], answered)])
      PROVE  FiledFrom(b)
  <2>1. PICK docs : docs = [i \in DOMAIN b.entries |->
                              pendingToDocument(b.entries[i], answered)]
    OBVIOUS
  <2>2. /\ docs \in Seq(Docs) /\ DOMAIN docs = DOMAIN b.entries
        /\ \A i \in DOMAIN docs : docs[i].file = b.entries[i].file
    BY <1>4, <2>1
  <2>3. File(b, real, docs) /\ UpdateOK(real, Spread(b.app, b.prefill))
    BY <1>1, <1>5, <2>1
  <2> QED BY <2>2, <2>3, FileFiles
<1>6. CASE \E results \in Answers(b) :
             File(b, mapExtractionToApplication(results, base),
                  [i \in DOMAIN b.entries |-> pendingToDocument(b.entries[i], TRUE)])
  <2>1. PICK results \in Answers(b) :
             File(b, mapExtractionToApplication(results, base),
                  [i \in DOMAIN b.entries |-> pendingToDocument(b.entries[i], TRUE)])
    BY <1>6
  <2>2. Len(results) \in Nat
    BY AnswerOK
  <2>3. UpdateOK(mapExtractionToApplication(results, base), base)
    BY <1>2, <2>2, ExtractionOK
  <2> QED BY <1>5, <2>1, <2>3
<1>7. CASE File(b, NoUpdate,
                [i \in DOMAIN b.entries |-> pendingToDocument(b.entries[i], FALSE)])
  <2>1. UpdateOK(NoUpdate, base)
    BY <1>2, SpreadNothing DEF AppOK
  <2> QED BY <1>5, <1>7, <2>1
<1> QED BY <1>1, <1>6, <1>7 DEF ExtractionDone
-----------------------------------------------------------------------------
(* The steps.                                                              *)

(* What every step does: it keeps the invariant, and takes nothing back    *)
(* unless a batch ends after its application has changed.                  *)
StepOK == Core' /\ (ghost'.stale \/ Grown(app, app'))

(* The parts that have to be shown of a step.                              *)
LEMMA StepFrame ==
  ASSUME Core, Application(app'), ghost'.stale \/ Grown(app, app'), BatchInv', PlaceInv',
         clicks' \in 0..MaxClicks, ghost' \in Ghosts, EntriesInv',
         ghost.stale => ghost'.stale,
         ghost'.stale \/ (Places \subseteq Places' /\ ghost'.added \subseteq ghost.added \cup Places')
  PROVE  StepOK
<1>1. EveryFileAccounted'
  BY StillAccounted DEF Core
<1>2. ShapeInv'
  BY DEF ShapeInv
<1> QED BY <1>1, <1>2 DEF StepOK, Core

(* Batches that are left alone stay as they are.                           *)
LEMMA SameBatches ==
  ASSUME BatchInv, UNCHANGED batches
  PROVE  BatchInv' /\ InBatches' = InBatches
BY DEF BatchInv, InBatches

(* Steps that leave the application and the batches alone.                 *)
LEMMA SameAppStep ==
  ASSUME Core, UNCHANGED <<app, batches>>, PlaceInv', clicks' \in 0..MaxClicks,
         ghost' \in Ghosts, EntriesInv', ghost'.stale = ghost.stale,
         PendingFiles \cup ghost.discarded \subseteq PendingFiles' \cup ghost'.discarded,
         ghost'.swept = ghost.swept,
         ghost'.added \subseteq ghost.added \cup PendingFiles'
  PROVE  StepOK
<1>1. Application(app)
  BY DEF Core, ShapeInv
<1>2. Grown(app, app)
  <2>1. PICK a : a = app
    OBVIOUS
  <2> QED BY <1>1, <2>1, GrownSame
<1>3. BatchInv' /\ InBatches' = InBatches
  BY SameBatches DEF Core
<1>4. FiledFiles(app') = FiledFiles(app)
  OBVIOUS
<1>5. Places \subseteq Places'
  BY <1>3, <1>4 DEF Places
<1>6. PendingFiles' \subseteq Places'
  BY DEF Places
<1>7. ghost'.added \subseteq ghost.added \cup Places'
  BY <1>6
<1>8. Application(app') /\ Grown(app, app')
  BY <1>1, <1>2
<1> QED BY <1>3, <1>5, <1>7, <1>8, StepFrame

(* What the invariant says of clicks and of the ghost.                     *)
LEMMA CoreFacts ==
  ASSUME Core
  PROVE  /\ clicks \in 0..MaxClicks /\ clicks \in Nat /\ ghost \in Ghosts /\ EntriesInv
         /\ PendingInv /\ BatchInv /\ Application(app) /\ PlaceInv
BY IntakeAssumption DEF Core, ShapeInv, EntriesInv

(* Files are dropped.                                                      *)
LEMMA addFilesStep ==
  ASSUME Core, NEW drop \in Drops, addFiles(drop)
  PROVE  StepOK
<1>1. clicks \in 0..MaxClicks /\ ghost \in Ghosts /\ EntriesInv /\ PlaceInv
  BY CoreFacts
<1>2. EntriesInv' /\ PendingFiles' = PendingFiles \cup ToSet(drop)
  BY <1>1, DroppedEntries
<1>3. clicks' \in 0..MaxClicks
  BY <1>1, Clicks DEF addFiles
<1>4. PlaceInv' /\ UNCHANGED <<app, batches>>
  BY <1>1 DEF addFiles, PlaceInv
<1>5. ToSet(drop) \subseteq Files
  <2>1. drop \in Seq(Files)
    BY IntakeAssumption
  <2> QED BY <2>1 DEF ToSet
<1>6. /\ ghost' \in Ghosts /\ ghost'.stale = ghost.stale /\ ghost'.swept = ghost.swept
      /\ ghost'.discarded = ghost.discarded /\ ghost'.added = ghost.added \cup ToSet(drop)
  BY <1>1, <1>5 DEF addFiles, Ghosts
<1>7. /\ PendingFiles \cup ghost.discarded \subseteq PendingFiles' \cup ghost'.discarded
      /\ ghost'.added \subseteq ghost.added \cup PendingFiles'
  BY <1>2, <1>6
<1> QED BY <1>2, <1>3, <1>4, <1>6, <1>7, SameAppStep

(* A verification of a loop ends.                                          *)
LEMMA VerifyNextStep ==
  ASSUME Core, NEW l \in loops, VerifyNext(l)
  PROVE  StepOK
<1>1. clicks \in 0..MaxClicks /\ ghost \in Ghosts /\ EntriesInv /\ PlaceInv
  BY CoreFacts
<1>2. EntriesInv' /\ PendingFiles' = PendingFiles /\ (pending = <<>> => pending' = <<>>)
  BY <1>1, VerifyNextEntries
<1>3. UNCHANGED <<app, place, form, batches, clicks, ghost>>
  BY DEF VerifyNext
<1>4. PlaceInv'
  BY <1>1, <1>2, <1>3 DEF PlaceInv
<1>5. /\ ghost' \in Ghosts /\ ghost'.stale = ghost.stale /\ ghost'.swept = ghost.swept
      /\ clicks' \in 0..MaxClicks
      /\ PendingFiles \cup ghost.discarded \subseteq PendingFiles' \cup ghost'.discarded
      /\ ghost'.added \subseteq ghost.added \cup PendingFiles'
  BY <1>1, <1>2, <1>3
<1> QED BY <1>2, <1>3, <1>4, <1>5, SameAppStep

(* A verification begun by updateType ends.                                *)
LEMMA RecheckDoneStep ==
  ASSUME Core, NEW r \in rechecks, RecheckDone(r)
  PROVE  StepOK
<1>1. clicks \in 0..MaxClicks /\ ghost \in Ghosts /\ EntriesInv /\ PlaceInv
  BY CoreFacts
<1>2. EntriesInv' /\ PendingFiles' = PendingFiles /\ (pending = <<>> => pending' = <<>>)
  BY <1>1, RecheckEntries
<1>3. UNCHANGED <<app, place, form, batches, clicks, ghost>>
  BY DEF RecheckDone
<1>4. PlaceInv'
  BY <1>1, <1>2, <1>3 DEF PlaceInv
<1>5. /\ ghost' \in Ghosts /\ ghost'.stale = ghost.stale /\ ghost'.swept = ghost.swept
      /\ clicks' \in 0..MaxClicks
      /\ PendingFiles \cup ghost.discarded \subseteq PendingFiles' \cup ghost'.discarded
      /\ ghost'.added \subseteq ghost.added \cup PendingFiles'
  BY <1>1, <1>2, <1>3
<1> QED BY <1>2, <1>3, <1>4, <1>5, SameAppStep

(* An entry is given another type.                                         *)
LEMMA updateTypeStep ==
  ASSUME Core, NEW i \in DOMAIN pending, NEW t \in DocTypes, updateType(i, t)
  PROVE  StepOK
<1>1. clicks \in 0..MaxClicks /\ ghost \in Ghosts /\ EntriesInv /\ PlaceInv /\ PendingInv
  BY CoreFacts
<1>2. EntriesInv' /\ PendingFiles' = PendingFiles
  BY <1>1, RetypedEntries
<1>3. clicks' \in 0..MaxClicks
  BY <1>1, Clicks DEF updateType
<1>4. PlaceInv' /\ UNCHANGED <<app, batches>>
  BY <1>1 DEF updateType, PlaceInv
<1>5. PICK id : id = pending[i].id
  OBVIOUS
<1>6. id \in Ids
  <2>1. pending[i] \in Items
    BY <1>1 DEF PendingInv
  <2> QED BY <1>5, <2>1 DEF Items
<1>7. ghost' = ghost \/ ghost' = [ghost EXCEPT !.early = @ \cup {id}]
  BY <1>5 DEF updateType
<1>8. /\ ghost' \in Ghosts /\ ghost'.stale = ghost.stale /\ ghost'.swept = ghost.swept
      /\ ghost'.discarded = ghost.discarded /\ ghost'.added = ghost.added
  BY <1>1, <1>6, <1>7 DEF Ghosts
<1>9. /\ PendingFiles \cup ghost.discarded \subseteq PendingFiles' \cup ghost'.discarded
      /\ ghost'.added \subseteq ghost.added \cup PendingFiles'
  BY <1>2, <1>8
<1> QED BY <1>2, <1>3, <1>4, <1>8, <1>9, SameAppStep

(* Files go into the discarded ones.                                       *)
LEMMA Discarding ==
  ASSUME ghost \in Ghosts, NEW D, D \subseteq Files \cup {Null},
         ghost' = [ghost EXCEPT !.discarded = @ \cup D]
  PROVE  /\ ghost' \in Ghosts /\ ghost'.stale = ghost.stale /\ ghost'.swept = ghost.swept
         /\ ghost'.discarded = ghost.discarded \cup D /\ ghost'.added = ghost.added
         /\ ghost'.early = ghost.early
BY DEF Ghosts

(* An entry is taken out.                                                  *)
LEMMA removeEntryStep ==
  ASSUME Core, NEW i \in DOMAIN pending, removeEntry(i)
  PROVE  StepOK
<1>1. clicks \in 0..MaxClicks /\ ghost \in Ghosts /\ EntriesInv /\ PlaceInv /\ PendingInv
  BY CoreFacts
<1>2. EntriesInv' /\ PendingFiles \subseteq PendingFiles' \cup {pending[i].file}
  BY <1>1, RemoveEntries
<1>3. clicks' \in 0..MaxClicks
  BY <1>1, Clicks DEF removeEntry
<1>4. PlaceInv' /\ UNCHANGED <<app, batches>>
  BY <1>1 DEF removeEntry, PlaceInv
<1>5. PICK D : D = {pending[i].file}
  OBVIOUS
<1>6. D \subseteq Files \cup {Null}
  <2>1. pending[i] \in Items
    BY <1>1 DEF PendingInv
  <2> QED BY <1>5, <2>1 DEF Items
<1>7. ghost' = [ghost EXCEPT !.discarded = @ \cup D]
  BY <1>5 DEF removeEntry
<1>8. /\ ghost' \in Ghosts /\ ghost'.stale = ghost.stale /\ ghost'.swept = ghost.swept
      /\ ghost'.discarded = ghost.discarded \cup D /\ ghost'.added = ghost.added
  BY <1>1, <1>6, <1>7, Discarding
<1>9. /\ PendingFiles \cup ghost.discarded \subseteq PendingFiles' \cup ghost'.discarded
      /\ ghost'.added \subseteq ghost.added \cup PendingFiles'
  BY <1>2, <1>5, <1>8
<1> QED BY <1>2, <1>3, <1>4, <1>8, <1>9, SameAppStep

(* The zone is cleared.                                                    *)
LEMMA ClearStep ==
  ASSUME Core, Clear
  PROVE  StepOK
<1>1. clicks \in 0..MaxClicks /\ ghost \in Ghosts /\ EntriesInv /\ PlaceInv /\ PendingInv
  BY CoreFacts
<1>2. clicks' \in 0..MaxClicks /\ clicks \in Nat /\ clicks' \in Nat /\ clicks <= clicks'
  BY <1>1, Clicks DEF Clear
<1>3. PlaceInv' /\ UNCHANGED <<app, batches>> /\ pending' = <<>> /\ UNCHANGED <<loops, rechecks>>
  BY <1>1 DEF Clear, PlaceInv
<1>4. PICK D : D = PendingFiles
  OBVIOUS
<1>5. D \subseteq Files \cup {Null}
  BY <1>1, <1>4, PendingFilesAre
<1>6. ghost' = [ghost EXCEPT !.discarded = @ \cup D]
  BY <1>4 DEF Clear
<1>7. /\ ghost' \in Ghosts /\ ghost'.stale = ghost.stale /\ ghost'.swept = ghost.swept
      /\ ghost'.discarded = ghost.discarded \cup D /\ ghost'.added = ghost.added
      /\ ghost'.early = ghost.early
  BY <1>1, <1>5, <1>6, Discarding
<1>8. EntriesInv'
  BY <1>1, <1>2, <1>3, <1>7, NoEntries
<1>9. /\ PendingFiles \cup ghost.discarded \subseteq PendingFiles' \cup ghost'.discarded
      /\ ghost'.added \subseteq ghost.added \cup PendingFiles'
  BY <1>4, <1>7
<1> QED BY <1>2, <1>3, <1>7, <1>8, <1>9, SameAppStep

(* The samples are loaded.                                                 *)
LEMMA loadAllSamplesStep ==
  ASSUME Core, loadAllSamples
  PROVE  StepOK
<1>1. clicks \in 0..MaxClicks /\ ghost \in Ghosts /\ EntriesInv /\ PlaceInv
  BY CoreFacts
<1>2. EntriesInv' /\ PendingFiles' = PendingFiles
  BY <1>1, SampleEntries
<1>3. clicks' \in 0..MaxClicks
  BY <1>1, Clicks DEF loadAllSamples
<1>4. PlaceInv' /\ UNCHANGED <<app, batches, ghost>>
  BY <1>1 DEF loadAllSamples, PlaceInv
<1>5. /\ ghost' \in Ghosts /\ ghost'.stale = ghost.stale /\ ghost'.swept = ghost.swept
      /\ PendingFiles \cup ghost.discarded \subseteq PendingFiles' \cup ghost'.discarded
      /\ ghost'.added \subseteq ghost.added \cup PendingFiles'
  BY <1>1, <1>2, <1>4
<1> QED BY <1>2, <1>3, <1>4, <1>5, SameAppStep

(* The zone is unmounted with its entries.                                 *)
LEMMA UnmountedEffect ==
  ASSUME Core, Unmounted, clicks' \in Nat, clicks <= clicks', UNCHANGED <<loops, rechecks>>
  PROVE  /\ EntriesInv' /\ pending' = <<>>
         /\ ghost' \in Ghosts /\ ghost'.stale = ghost.stale /\ ghost'.swept = ghost.swept
         /\ ghost'.added = ghost.added
         /\ PendingFiles \cup ghost.discarded \subseteq PendingFiles' \cup ghost'.discarded
<1>1. clicks \in Nat /\ ghost \in Ghosts /\ EntriesInv /\ PendingInv
  BY CoreFacts
<1>2. PICK D : D = PendingFiles
  OBVIOUS
<1>3. D \subseteq Files \cup {Null}
  BY <1>1, <1>2, PendingFilesAre
<1>4. ghost' = [ghost EXCEPT !.discarded = @ \cup D] /\ pending' = <<>>
  BY <1>2 DEF Unmounted
<1>5. /\ ghost' \in Ghosts /\ ghost'.stale = ghost.stale /\ ghost'.swept = ghost.swept
      /\ ghost'.discarded = ghost.discarded \cup D /\ ghost'.added = ghost.added
      /\ ghost'.early = ghost.early
  BY <1>1, <1>3, <1>4, Discarding
<1>6. EntriesInv'
  BY <1>1, <1>4, <1>5, NoEntries
<1> QED BY <1>2, <1>4, <1>5, <1>6

(* Steps that store an update of the application that keeps what is there. *)
LEMMA GrowingStep ==
  ASSUME Core, UNCHANGED batches, PlaceInv', clicks' \in 0..MaxClicks,
         Application(app'), Grown(app, app'),
         ghost' \in Ghosts, EntriesInv', ghost'.stale = ghost.stale,
         PendingFiles \cup ghost.discarded \subseteq PendingFiles' \cup ghost'.discarded,
         ghost'.swept = ghost.swept, ghost'.added = ghost.added
  PROVE  StepOK
<1>1. BatchInv' /\ InBatches' = InBatches
  BY SameBatches DEF Core
<1>2. FiledFiles(app) \subseteq FiledFiles(app')
  <2>1. PICK a, c : a = app /\ c = app'
    OBVIOUS
  <2>2. Application(a) /\ Application(c) /\ Grown(a, c)
    BY <2>1 DEF Core, ShapeInv
  <2>3. FiledFiles(a) \subseteq FiledFiles(c)
    BY <2>2, PrefixFiles DEF Application, Grown
  <2> QED BY <2>1, <2>3
<1>3. Places \subseteq Places'
  BY <1>1, <1>2 DEF Places
<1> QED BY <1>1, <1>3, StepFrame

(* Bulk upload or cards.                                                   *)
LEMMA setModeStep ==
  ASSUME Core, NEW m \in {"bulk", "individual"}, setMode(m)
  PROVE  StepOK
<1>1. clicks \in 0..MaxClicks /\ Application(app) /\ PlaceInv
  BY CoreFacts
<1>2. clicks' \in 0..MaxClicks /\ clicks' \in Nat /\ clicks <= clicks'
  BY <1>1, Clicks DEF setMode
<1>3. UNCHANGED <<form, loops, rechecks, batches>> /\ Unmounted /\ place' = m /\ place \notin Steps
  BY DEF setMode
<1>4. /\ EntriesInv' /\ pending' = <<>>
      /\ ghost' \in Ghosts /\ ghost'.stale = ghost.stale /\ ghost'.swept = ghost.swept
      /\ ghost'.added = ghost.added
      /\ PendingFiles \cup ghost.discarded \subseteq PendingFiles' \cup ghost'.discarded
  BY <1>2, <1>3, UnmountedEffect
<1>5. PlaceInv'
  BY <1>1, <1>3, <1>4 DEF PlaceInv
<1>6. Application(app') /\ Grown(app, app')
  <2>1. PICK a, c : a = app /\ c = app'
    OBVIOUS
  <2>2. PICK v : v = IF m = "bulk" THEN "BULK" ELSE "INDIVIDUAL"
    OBVIOUS
  <2>3. c = Spread(a, [upload_mode |-> v]) /\ Application(a)
    BY <1>1, <2>1, <2>2 DEF setMode, Stored
  <2>4. Application(c) /\ Grown(a, c)
    BY <2>3, ModeStored
  <2> QED BY <2>1, <2>4
<1> QED BY <1>2, <1>3, <1>4, <1>5, <1>6, GrowingStep

(* A sample is used on its card.                                           *)
LEMMA handleUseSampleStep ==
  ASSUME Core, NEW t \in SampleTypes, handleUseSample(t)
  PROVE  StepOK
<1>1. clicks \in 0..MaxClicks /\ Application(app) /\ PlaceInv /\ EntriesInv /\ ghost \in Ghosts
  BY CoreFacts
<1>2. clicks' \in 0..MaxClicks /\ clicks \in Nat /\ clicks' \in Nat /\ clicks <= clicks'
  BY <1>1, Clicks DEF handleUseSample
<1>3. UNCHANGED <<place, form, pending, loops, rechecks, batches, ghost>>
  BY DEF handleUseSample
<1>4. EntriesInv'
  BY <1>1, <1>2, <1>3, SameEntries
<1>5. PlaceInv' /\ PendingFiles' = PendingFiles
  BY <1>1, <1>3 DEF PlaceInv, PendingFiles
<1>6. Application(app') /\ Grown(app, app')
  <2>1. PICK a, c : a = app /\ c = app'
    OBVIOUS
  <2>2. PICK u : u = applyPrefill(t, a)
    OBVIOUS
  <2>3. Application(a) /\ a.documents \in Seq(Docs) /\ AppOK(a)
    BY <1>1, <2>1 DEF Application
  <2>4. UpdateOK(u, a)
    BY <2>2, <2>3, SampleOK
  <2>5. PICK d \in Docs : d = SampleDocument(t)
    BY SampleDocumentOK
  <2>6. PICK ds : ds = Append(a.documents, d)
    OBVIOUS
  <2>7. ds \in Seq(Docs) /\ IsPrefix(a.documents, ds)
    <3> DEFINE D == Docs
    <3>1. PICK s \in Seq(D) : s = a.documents
      BY <2>3
    <3>2. d \in D
      OBVIOUS
    <3> HIDE DEF D
    <3>3. Append(s, d) = s \o <<d>> /\ <<d>> \in Seq(D)
      BY <3>2
    <3>4. s \o <<d>> \in Seq(D) /\ IsPrefix(s, s \o <<d>>)
      BY <3>3, PrefixOf
    <3>5. ds \in Seq(D) /\ IsPrefix(a.documents, ds)
      BY <2>6, <3>1, <3>3, <3>4
    <3> QED BY <3>5 DEF D
  <2>8. c = Spread(a, Spread(u, [documents |-> ds]))
    BY <2>1, <2>2, <2>5, <2>6 DEF handleUseSample, Stored
  <2>9. Application(c) /\ Lists(a, c) /\ c.documents = ds
    BY <2>3, <2>4, <2>7, <2>8, Filed
  <2> QED BY <2>1, <2>7, <2>9 DEF Grown
<1>7. /\ ghost' \in Ghosts /\ ghost'.stale = ghost.stale /\ ghost'.swept = ghost.swept
      /\ ghost'.added = ghost.added
      /\ PendingFiles \cup ghost.discarded \subseteq PendingFiles' \cup ghost'.discarded
  BY <1>1, <1>3, <1>5
<1> QED BY <1>2, <1>3, <1>4, <1>5, <1>6, <1>7, GrowingStep

(* Another step is opened.                                                 *)
LEMMA OpenStepStep ==
  ASSUME Core, NEW step \in FormsOpened, OpenStep(step)
  PROVE  StepOK
<1>1. clicks \in 0..MaxClicks /\ PlaceInv /\ EntriesInv /\ ghost \in Ghosts
  BY CoreFacts
<1>2. clicks' \in 0..MaxClicks /\ clicks \in Nat /\ clicks' \in Nat /\ clicks <= clicks'
  BY <1>1, Clicks DEF OpenStep
<1>3. UNCHANGED <<app, loops, rechecks, batches>> /\ place' = step /\ form' = FormOf(step)
  BY DEF OpenStep
<1>4. step \in Steps
  BY IntakeAssumption DEF Steps
<1>5. /\ EntriesInv' /\ pending' = <<>>
      /\ ghost' \in Ghosts /\ ghost'.stale = ghost.stale /\ ghost'.swept = ghost.swept
      /\ ghost'.added = ghost.added
      /\ PendingFiles \cup ghost.discarded \subseteq PendingFiles' \cup ghost'.discarded
  <2>1. CASE place \in Steps
    <3>1. UNCHANGED <<pending, ghost>>
      BY <2>1 DEF OpenStep
    <3>2. pending = <<>>
      BY <1>1, <2>1 DEF PlaceInv, Steps
    <3>3. EntriesInv'
      BY <1>1, <1>2, <1>3, <3>1, SameEntries
    <3>4. PendingFiles' = PendingFiles
      BY <3>1 DEF PendingFiles
    <3> QED BY <1>1, <3>1, <3>2, <3>3, <3>4
  <2>2. CASE place \notin Steps
    <3>1. Unmounted
      BY <2>2 DEF OpenStep
    <3> QED BY <1>2, <1>3, <3>1, UnmountedEffect
  <2> QED BY <2>1, <2>2
<1>6. PlaceInv'
  BY <1>3, <1>4, <1>5 DEF PlaceInv
<1>7. ghost'.added \subseteq ghost.added \cup PendingFiles'
  BY <1>5
<1> QED BY <1>2, <1>3, <1>5, <1>6, <1>7, SameAppStep

(* Back to the documents.                                                  *)
LEMMA OpenDocumentsStep ==
  ASSUME Core, OpenDocuments
  PROVE  StepOK
<1>1. clicks \in 0..MaxClicks /\ PlaceInv /\ EntriesInv /\ ghost \in Ghosts
  BY CoreFacts
<1>2. clicks' \in 0..MaxClicks /\ clicks \in Nat /\ clicks' \in Nat /\ clicks <= clicks'
  BY <1>1, Clicks DEF OpenDocuments
<1>3. UNCHANGED <<app, pending, loops, rechecks, batches, ghost>>
  BY DEF OpenDocuments
<1>4. EntriesInv' /\ PendingFiles' = PendingFiles
  BY <1>1, <1>2, <1>3, SameEntries DEF PendingFiles
<1>5. PlaceInv'
  <2>1. place' \in {"bulk", "individual"} /\ form' = NoForm /\ place \in Steps
    BY DEF OpenDocuments
  <2>2. pending = <<>>
    BY <1>1, <2>1 DEF PlaceInv, Steps
  <2> QED BY <1>3, <2>1, <2>2 DEF PlaceInv
<1>6. /\ ghost' \in Ghosts /\ ghost'.stale = ghost.stale /\ ghost'.swept = ghost.swept
      /\ PendingFiles \cup ghost.discarded \subseteq PendingFiles' \cup ghost'.discarded
      /\ ghost'.added \subseteq ghost.added \cup PendingFiles'
  BY <1>1, <1>3, <1>4
<1> QED BY <1>2, <1>3, <1>4, <1>5, <1>6, SameAppStep

(* Something is typed into a form.                                         *)
LEMMA TypeInFormStep ==
  ASSUME Core, NEW i \in DOMAIN app.directors, TypeInForm(i)
  PROVE  StepOK
<1>1. clicks \in 0..MaxClicks /\ PlaceInv /\ EntriesInv /\ ghost \in Ghosts
  BY CoreFacts
<1>2. clicks' \in 0..MaxClicks /\ clicks \in Nat /\ clicks' \in Nat /\ clicks <= clicks'
  BY <1>1, Clicks DEF TypeInForm
<1>3. UNCHANGED <<app, place, pending, loops, rechecks, batches, ghost>>
  BY DEF TypeInForm
<1>4. EntriesInv' /\ PendingFiles' = PendingFiles
  BY <1>1, <1>2, <1>3, SameEntries DEF PendingFiles
<1>5. PlaceInv'
  BY <1>1, <1>3 DEF PlaceInv, TypeInForm, Steps
<1>6. /\ ghost' \in Ghosts /\ ghost'.stale = ghost.stale /\ ghost'.swept = ghost.swept
      /\ PendingFiles \cup ghost.discarded \subseteq PendingFiles' \cup ghost'.discarded
      /\ ghost'.added \subseteq ghost.added \cup PendingFiles'
  BY <1>1, <1>3, <1>4
<1> QED BY <1>2, <1>3, <1>4, <1>5, <1>6, SameAppStep

(* The identity step writes what is typed.                                 *)
LEMMA updateProfileStep ==
  ASSUME Core, updateProfile
  PROVE  StepOK
<1>1. clicks \in 0..MaxClicks /\ Application(app) /\ PlaceInv /\ EntriesInv /\ ghost \in Ghosts
  BY CoreFacts
<1>2. clicks' \in 0..MaxClicks /\ clicks \in Nat /\ clicks' \in Nat /\ clicks <= clicks'
  BY <1>1, Clicks DEF updateProfile
<1>3. UNCHANGED <<place, pending, loops, rechecks, batches, ghost>> /\ Rerendered(app')
  BY DEF updateProfile
<1>4. EntriesInv' /\ PendingFiles' = PendingFiles
  BY <1>1, <1>2, <1>3, SameEntries DEF PendingFiles
<1>5. PlaceInv'
  <2>1. place \notin Steps => form' = form
    BY <1>3 DEF Rerendered
  <2> QED BY <1>1, <1>3, <2>1 DEF PlaceInv
<1>6. Application(app') /\ Grown(app, app')
  <2>1. PICK a, c : a = app /\ c = app'
    OBVIOUS
  <2>2. Application(a) /\ c = Spread(a, [business_profile |->
                                [a.business_profile EXCEPT !.legal_name = "typed"]])
    BY <1>1, <2>1 DEF updateProfile, Stored
  <2>3. Application(c) /\ Grown(a, c)
    BY <2>2, ProfileStored
  <2> QED BY <2>1, <2>3
<1>7. /\ ghost' \in Ghosts /\ ghost'.stale = ghost.stale /\ ghost'.swept = ghost.swept
      /\ ghost'.added = ghost.added
      /\ PendingFiles \cup ghost.discarded \subseteq PendingFiles' \cup ghost'.discarded
  BY <1>1, <1>3, <1>4
<1> QED BY <1>2, <1>3, <1>4, <1>5, <1>6, <1>7, GrowingStep

(* A batch is filed, whether or not its zone is still mounted.             *)
LEMMA FiledStep ==
  ASSUME Core, NEW b, BatchOK(b), FiledFrom(b), UNCHANGED <<place, loops, rechecks>>,
         place \notin Steps => form' = form,
         BatchInv', InBatches \subseteq InBatches' \cup BatchFiles(b),
         clicks' \in 0..MaxClicks, clicks' \in Nat, clicks <= clicks'
  PROVE  StepOK
<1>1. clicks \in Nat /\ EntriesInv /\ PlaceInv /\ Application(app) /\ ghost \in Ghosts
  BY CoreFacts
<1>2. /\ Application(app') /\ Lists(b.app, app') /\ IsPrefix(b.app.documents, app'.documents)
      /\ BatchFiles(b) \subseteq FiledFiles(app')
      /\ ghost' \in Ghosts /\ ghost'.added = ghost.added /\ ghost'.early = ghost.early
      /\ ghost.discarded \subseteq ghost'.discarded /\ ghost.swept \subseteq ghost'.swept
      /\ ghost'.stale = (ghost.stale \/ app # b.app)
      /\ pending' = (IF b.zone = zone THEN <<>> ELSE pending)
      /\ b.zone = zone => PendingFiles \subseteq ghost'.swept \cup BatchFiles(b)
  BY DEF FiledFrom
<1>3. EntriesInv'
  <2>1. CASE b.zone = zone
    BY <1>1, <1>2, <2>1, NoEntries
  <2>2. CASE b.zone # zone
    BY <1>1, <1>2, <2>2, SameEntries
  <2> QED BY <2>1, <2>2
<1>4. PlaceInv'
  BY <1>1, <1>2 DEF PlaceInv
<1>5. PICK a, c : a = app /\ c = app'
  OBVIOUS
<1>6. ghost'.stale \/ a = b.app
  BY <1>2, <1>5
<1>7. ghost'.stale \/ Grown(app, app')
  <2>1. a = b.app => Grown(a, c)
    BY <1>2, <1>5 DEF Grown
  <2> QED BY <1>5, <1>6, <2>1
<1>8. ghost'.stale \/ Places \subseteq Places'
  <2> SUFFICES ASSUME a = b.app PROVE Places \subseteq Places'
    BY <1>6
  <2>1. FiledFiles(a) \subseteq FiledFiles(c)
    BY <1>1, <1>2, <1>5, PrefixFiles DEF Application
  <2>2. PendingFiles \subseteq PendingFiles' \cup ghost'.swept \cup BatchFiles(b)
    <3>1. CASE b.zone = zone
      BY <1>2, <3>1
    <3>2. CASE b.zone # zone
      <4>1. pending' = pending
        BY <1>2, <3>2
      <4>2. PendingFiles' = PendingFiles
        BY <4>1 DEF PendingFiles
      <4> QED BY <4>2
    <3> QED BY <3>1, <3>2
  <2>3. BatchFiles(b) \subseteq FiledFiles(app') /\ FiledFiles(app) \subseteq FiledFiles(app')
    BY <1>2, <1>5, <2>1
  <2> QED BY <1>2, <2>2, <2>3 DEF Places
<1>9. ghost.stale => ghost'.stale
  BY <1>2
<1>10. ghost'.added \subseteq ghost.added \cup Places'
  BY <1>2
<1> QED BY <1>2, <1>3, <1>4, <1>7, <1>8, <1>9, <1>10, StepFrame

(* What is pending is filed, or sent to the parser.                        *)
LEMMA processFilesStep ==
  ASSUME Core, processFiles
  PROVE  StepOK
<1>1. /\ clicks \in 0..MaxClicks /\ Application(app) /\ PlaceInv /\ EntriesInv
      /\ ghost \in Ghosts /\ PendingInv /\ BatchInv
  BY CoreFacts
<1>2. clicks' \in 0..MaxClicks /\ clicks \in Nat /\ clicks' \in Nat /\ clicks <= clicks'
  BY <1>1, Clicks DEF processFiles
<1>3. /\ UNCHANGED <<place, form, loops, rechecks>>
      /\ \A i \in DOMAIN pending : ~ pending[i].verifying /\ pending[i].verification # "FAIL"
  BY DEF processFiles
<1>4. PICK b : b = Batch
  OBVIOUS
<1>5. BatchOK(b) /\ b.app = app
  BY <1>1, <1>3, <1>4, BatchMade
<1>6. CASE b.entries = <<>>
  <2>1. File(b, NoUpdate, <<>>) /\ UNCHANGED batches
    BY <1>4, <1>6 DEF processFiles
  <2>2. UpdateOK(NoUpdate, Spread(b.app, b.prefill))
    <3>1. AppOK(Spread(b.app, b.prefill))
      BY <1>5, UpdateApplies DEF BatchOK, Application
    <3>2. PICK c : c = Spread(b.app, b.prefill)
      OBVIOUS
    <3>3. UpdateOK(NoUpdate, c)
      BY <3>1, <3>2, SpreadNothing DEF AppOK
    <3> QED BY <3>2, <3>3
  <2>3. PICK docs : docs = <<>>
    OBVIOUS
  <2>4. docs \in Seq(Docs) /\ DOMAIN docs = DOMAIN b.entries
        /\ \A i \in DOMAIN docs : docs[i].file = b.entries[i].file
    BY <1>6, <2>3
  <2>5. File(b, NoUpdate, docs)
    BY <2>1, <2>3
  <2>6. FiledFrom(b)
    BY <1>1, <1>5, <2>2, <2>4, <2>5, FileFiles
  <2>7. BatchInv' /\ InBatches' = InBatches
    BY <1>1, <2>1, SameBatches
  <2> QED BY <1>2, <1>3, <1>5, <2>6, <2>7, FiledStep
<1>7. CASE b.entries # <<>>
  <2>1. batches' = batches \cup {b} /\ UNCHANGED <<app, pending, ghost>>
    BY <1>4, <1>7 DEF processFiles
  <2>2. BatchInv' /\ InBatches \subseteq InBatches'
    BY <1>1, <1>5, <2>1 DEF BatchInv, InBatches
  <2>3. EntriesInv' /\ PendingFiles' = PendingFiles
    BY <1>1, <1>2, <1>3, <2>1, SameEntries DEF PendingFiles
  <2>4. PlaceInv'
    BY <1>1, <1>3, <2>1 DEF PlaceInv
  <2>5. Application(app') /\ Grown(app, app')
    <3>1. PICK a : a = app
      OBVIOUS
    <3>2. Application(a) /\ Grown(a, a)
      BY <1>1, <3>1, GrownSame
    <3> QED BY <2>1, <3>1, <3>2
  <2>6. Places \subseteq Places' /\ ghost'.added \subseteq ghost.added \cup Places'
    BY <2>1, <2>2, <2>3 DEF Places
  <2>7. ghost' \in Ghosts /\ (ghost.stale => ghost'.stale)
    BY <1>1, <2>1
  <2> QED BY <1>2, <2>2, <2>3, <2>4, <2>5, <2>6, <2>7, StepFrame
<1> QED BY <1>6, <1>7

(* The parser's answer arrives, or its failure.                            *)
LEMMA ExtractionDoneStep ==
  ASSUME Core, NEW b \in batches, ExtractionDone(b)
  PROVE  StepOK
<1>1. /\ clicks \in 0..MaxClicks /\ clicks \in Nat /\ PlaceInv
      /\ ghost \in Ghosts /\ PendingInv /\ BatchInv
  BY CoreFacts
<1>2. BatchOK(b)
  BY <1>1 DEF BatchInv
<1>3. FiledFrom(b)
  BY <1>1, <1>2, ExtractionFiles
<1>4. /\ batches' = batches \ {b} /\ Rerendered(app')
      /\ UNCHANGED <<place, loops, rechecks, clicks>>
  BY DEF ExtractionDone
<1>5. BatchInv' /\ InBatches \subseteq InBatches' \cup BatchFiles(b)
  BY <1>1, <1>4 DEF BatchInv, InBatches
<1>6. place \notin Steps => form' = form
  BY <1>4 DEF Rerendered
<1>7. clicks' \in 0..MaxClicks /\ clicks' \in Nat /\ clicks <= clicks'
  BY <1>1, <1>4
<1> QED BY <1>2, <1>3, <1>4, <1>5, <1>6, <1>7, FiledStep

(* Nothing happens.                                                        *)
LEMMA StutterStep ==
  ASSUME Core, UNCHANGED vars
  PROVE  StepOK
<1>1. UNCHANGED <<app, place, form, zone, pending, loops, rechecks, batches, clicks, ghost>>
  BY DEF vars
<1>2. /\ clicks \in 0..MaxClicks /\ clicks \in Nat /\ PlaceInv /\ EntriesInv
      /\ ghost \in Ghosts
  BY CoreFacts
<1>3. EntriesInv' /\ PendingFiles' = PendingFiles /\ PlaceInv'
  BY <1>1, <1>2, SameEntries DEF PendingFiles, PlaceInv
<1>4. /\ clicks' \in 0..MaxClicks
      /\ ghost' \in Ghosts /\ ghost'.stale = ghost.stale /\ ghost'.swept = ghost.swept
      /\ PendingFiles \cup ghost.discarded \subseteq PendingFiles' \cup ghost'.discarded
      /\ ghost'.added \subseteq ghost.added \cup PendingFiles'
  BY <1>1, <1>2, <1>3
<1> QED BY <1>1, <1>3, <1>4, SameAppStep

(* Every step.                                                             *)
LEMMA EveryStep ==
  ASSUME Core, [Next]_vars
  PROVE  StepOK
<1>1. CASE UNCHANGED vars
  BY <1>1, StutterStep
<1>2. CASE User
  <2>1. CASE \E d \in Drops : addFiles(d)
    BY <2>1, addFilesStep
  <2>2. CASE \E i \in DOMAIN pending :
               removeEntry(i) \/ \E t \in DocTypes : updateType(i, t)
    BY <2>2, removeEntryStep, updateTypeStep
  <2>3. CASE Clear \/ loadAllSamples \/ processFiles
    BY <2>3, ClearStep, loadAllSamplesStep, processFilesStep
  <2>4. CASE \E m \in {"bulk", "individual"} : setMode(m)
    BY <2>4, setModeStep
  <2>5. CASE \E t \in SampleTypes : handleUseSample(t)
    BY <2>5, handleUseSampleStep
  <2>6. CASE \E step \in FormsOpened : OpenStep(step)
    BY <2>6, OpenStepStep
  <2>7. CASE OpenDocuments \/ updateProfile
    BY <2>7, OpenDocumentsStep, updateProfileStep
  <2>8. CASE \E i \in DOMAIN app.directors : TypeInForm(i)
    BY <2>8, TypeInFormStep
  <2> QED BY <1>2, <2>1, <2>2, <2>3, <2>4, <2>5, <2>6, <2>7, <2>8 DEF User
<1>3. CASE System
  <2>1. CASE \E l \in loops : VerifyNext(l)
    BY <2>1, VerifyNextStep
  <2>2. CASE \E r \in rechecks : RecheckDone(r)
    BY <2>2, RecheckDoneStep
  <2>3. CASE \E b \in batches : ExtractionDone(b)
    BY <2>3, ExtractionDoneStep
  <2> QED BY <1>3, <2>1, <2>2, <2>3 DEF System
<1> QED BY <1>1, <1>2, <1>3 DEF Next
-----------------------------------------------------------------------------
(* The directors' step.                                                    *)

(* What RowsInv says of rows and the directors they are given.             *)
RowsOf(rows, ds) ==
  /\ DirectorsOK(rows) /\ DOMAIN rows = DOMAIN ds
  /\ \A i \in DOMAIN ds : rows[i].full_name = ds[i].full_name

(* RowsInv in these words.                                                 *)
LEMMA RowsInvIs == RowsInv <=> (place = "directors" => RowsOf(form, app.directors))
BY DEF RowsInv, RowsKeepTheirPerson, RowsOf

(* A row that stays mounted is of the person it was of: of two rows with   *)
(* one id, both are of its owner.                                          *)
LEMMA RowKept ==
  ASSUME NEW old, NEW row, NEW i, DirectorsOK(old), DirectorOK(row)
  PROVE  DirectorOK(Kept(old, row, i)) /\ Kept(old, row, i).full_name = row.full_name
<1> DEFINE same == {j \in DOMAIN old : old[j].id = row.id}
<1>1. CASE same = {}
  <2>1. Kept(old, row, i) = row
    BY <1>1 DEF Kept
  <2> QED BY <2>1
<1>2. CASE same # {}
  <2>1. PICK k : k = CHOOSE j \in same : TRUE
    OBVIOUS
  <2>2. k \in same
    BY <1>2, <2>1
  <2>3. Kept(old, row, i) = old[k]
    BY <1>2, <2>1 DEF Kept
  <2>4. DirectorOK(old[k]) /\ old[k].id = row.id
    BY <2>2 DEF DirectorsOK
  <2>5. old[k].full_name = row.full_name
    BY <2>4 DEF DirectorOK
  <2> QED BY <2>3, <2>4, <2>5
<1> QED BY <1>1, <1>2

(* The rows when the application has become another.                       *)
LEMMA RowsRerendered ==
  ASSUME Core', RowsInv, place' = place, Rerendered(app')
  PROVE  RowsInv'
<1> SUFFICES ASSUME place = "directors" PROVE RowsOf(form', app'.directors)
  BY DEF RowsInv, RowsKeepTheirPerson, RowsOf
<1>1. PICK old, ds, rows : old = form /\ ds = app'.directors /\ rows = form'
  OBVIOUS
<1>2. RowsOf(old, app.directors)
  BY <1>1, RowsInvIs
<1>3. CASE app' = app
  <2>1. form' = form
    BY <1>3 DEF Rerendered
  <2> QED BY <1>1, <1>2, <1>3, <2>1
<1>4. CASE app' # app
  <2>1. rows = [i \in DOMAIN ds |-> Kept(old, ds[i], i)]
    BY <1>1, <1>4 DEF Rerendered, Steps
  <2>2. DirectorsOK(ds)
    BY <1>1 DEF Core, ShapeInv, Application, AppOK
  <2>3. ASSUME NEW i \in DOMAIN ds
        PROVE  DirectorOK(rows[i]) /\ rows[i].full_name = ds[i].full_name
    <3>1. DirectorsOK(old) /\ DirectorOK(ds[i])
      BY <1>2, <2>2 DEF RowsOf, DirectorsOK
    <3>2. PICK row : row = Kept(old, ds[i], i)
      OBVIOUS
    <3>3. DirectorOK(row) /\ row.full_name = ds[i].full_name
      BY <3>1, <3>2, RowKept
    <3>4. rows[i] = row
      BY <2>1, <3>2
    <3> QED BY <3>3, <3>4
  <2>4. DOMAIN rows = DOMAIN ds
    BY <2>1
  <2>5. RowsOf(rows, ds)
    BY <2>3, <2>4 DEF RowsOf, DirectorsOK
  <2> QED BY <1>1, <2>5
<1> QED BY <1>3, <1>4

(* Typing into a row.                                                      *)
LEMMA RowTyped ==
  ASSUME RowsInv, NEW i \in DOMAIN app.directors, TypeInForm(i)
  PROVE  RowsInv'
<1>1. /\ place = "directors" /\ UNCHANGED <<app, place>>
      /\ form' = [form EXCEPT ![i].passport_number = "typed"]
  BY DEF TypeInForm
<1>2. PICK old, ds, rows : old = form /\ ds = app.directors /\ rows = form'
  OBVIOUS
<1>3. RowsOf(old, ds) /\ rows = [old EXCEPT ![i].passport_number = "typed"] /\ i \in DOMAIN ds
  BY <1>1, <1>2, RowsInvIs
<1>4. DOMAIN rows = DOMAIN old
  BY <1>3
<1>5. ASSUME NEW j \in DOMAIN old
      PROVE  DirectorOK(rows[j]) /\ rows[j].full_name = old[j].full_name
  <2>1. DirectorOK(old[j])
    BY <1>3 DEF RowsOf, DirectorsOK
  <2>2. CASE j # i
    <3>1. rows[j] = old[j]
      BY <1>3, <2>2
    <3> QED BY <2>1, <3>1
  <2>3. CASE j = i
    <3>1. PICK d, e : d = old[j] /\ e = rows[j]
      OBVIOUS
    <3>2. e = [d EXCEPT !.passport_number = "typed"]
      BY <1>3, <2>3, <3>1
    <3>3. DirectorOK(d)
      BY <2>1, <3>1
    <3>4. DOMAIN e = DOMAIN d /\ IsFn(e)
      BY <3>2 DEF IsFn
    <3>5. e.full_name = d.full_name /\ e.id = d.id
      BY <3>2, <3>3 DEF DirectorOK
    <3>6. DirectorOK(e)
      BY <3>3, <3>4, <3>5 DEF DirectorOK
    <3> QED BY <3>1, <3>5, <3>6
  <2> QED BY <2>2, <2>3
<1>6. RowsOf(rows, ds)
  BY <1>3, <1>4, <1>5 DEF RowsOf, DirectorsOK
<1>7. RowsOf(form', app'.directors)
  BY <1>1, <1>2, <1>6
<1> QED BY <1>7 DEF RowsInv, RowsKeepTheirPerson, RowsOf

(* Every step keeps each row of the directors with its person.             *)
LEMMA RowsStep ==
  ASSUME Core, Core', RowsInv, [Next]_vars
  PROVE  RowsInv'
<1>1. PlaceInv
  BY CoreFacts
<1>2. CASE UNCHANGED <<app, place, form>>
  BY <1>2 DEF RowsInv, RowsKeepTheirPerson
<1>3. CASE place' # "directors"
  BY <1>3 DEF RowsInv, RowsKeepTheirPerson
<1>4. ASSUME NEW step \in FormsOpened, OpenStep(step) PROVE RowsInv'
  <2> SUFFICES ASSUME step = "directors" PROVE RowsInv'
    BY <1>3, <1>4 DEF OpenStep
  <2>1. form' = app.directors /\ app' = app
    BY <1>4 DEF OpenStep, FormOf, Given, StepDirectors
  <2>2. DirectorsOK(app.directors)
    BY DEF Core, ShapeInv, Application, AppOK
  <2> QED BY <2>1, <2>2 DEF RowsInv, RowsKeepTheirPerson
<1>5. ASSUME NEW i \in DOMAIN app.directors, TypeInForm(i) PROVE RowsInv'
  BY <1>5, RowTyped
<1>6. CASE UNCHANGED place /\ Rerendered(app')
  BY <1>6, RowsRerendered
<1>7. CASE UNCHANGED vars
  BY <1>2, <1>7 DEF vars
<1>8. CASE User
  <2>1. ASSUME NEW d \in Drops, addFiles(d) PROVE RowsInv'
    BY <1>2, <2>1 DEF addFiles
  <2>2. ASSUME NEW i \in DOMAIN pending, removeEntry(i) PROVE RowsInv'
    BY <1>2, <2>2 DEF removeEntry
  <2>3. ASSUME NEW i \in DOMAIN pending, NEW t \in DocTypes, updateType(i, t)
        PROVE  RowsInv'
    BY <1>2, <2>3 DEF updateType
  <2>4. ASSUME Clear \/ loadAllSamples PROVE RowsInv'
    BY <1>2, <2>4 DEF Clear, loadAllSamples
  <2>5. ASSUME processFiles PROVE RowsInv'
    BY <1>3, <2>5 DEF processFiles
  <2>6. ASSUME NEW m \in {"bulk", "individual"}, setMode(m) PROVE RowsInv'
    BY <1>3, <2>6 DEF setMode
  <2>7. ASSUME NEW t \in SampleTypes, handleUseSample(t) PROVE RowsInv'
    BY <1>3, <2>7 DEF handleUseSample
  <2>8. ASSUME OpenDocuments PROVE RowsInv'
    BY <1>3, <2>8 DEF OpenDocuments
  <2>9. ASSUME updateProfile PROVE RowsInv'
    BY <1>6, <2>9 DEF updateProfile
  <2> QED BY <1>4, <1>5, <1>8, <2>1, <2>2, <2>3, <2>4, <2>5, <2>6, <2>7, <2>8, <2>9 DEF User
<1>9. CASE System
  <2>1. ASSUME NEW l \in loops, VerifyNext(l) PROVE RowsInv'
    BY <1>2, <2>1 DEF VerifyNext
  <2>2. ASSUME NEW r \in rechecks, RecheckDone(r) PROVE RowsInv'
    BY <1>2, <2>2 DEF RecheckDone
  <2>3. ASSUME NEW b \in batches, ExtractionDone(b) PROVE RowsInv'
    BY <1>6, <2>3 DEF ExtractionDone
  <2> QED BY <1>9, <2>1, <2>2, <2>3 DEF System
<1> QED BY <1>7, <1>8, <1>9 DEF Next
-----------------------------------------------------------------------------
(* The theorems.                                                           *)

(* The empty application is one.                                           *)
LEMMA EmptyOK == Application(EmptyApplication) /\ DOMAIN EmptyApplication = Fields
<1>1. PICK a : a = EmptyApplication
  OBVIOUS
<1>2. PICK p : p = [legal_name |-> Null, license_number |-> Null, incorporation_date |-> Null]
  OBVIOUS
<1>3. PICK v : v = [primary_activity |-> Null]
  OBVIOUS
<1>4. PICK t : t = [expected_monthly_volume_usd |-> Null, primary_transfer_purpose |-> Null]
  OBVIOUS
<1>5. PICK o : o = [is_subsidiary |-> FALSE]
  OBVIOUS
<1>6. /\ ObjectOK("business_profile", p) /\ ObjectOK("business_activity", v)
      /\ ObjectOK("transfer_behavior", t)
  BY <1>2, <1>3, <1>4 DEF ObjectOK, IsFn, Keys
<1>7. a = [business_profile |-> p, addresses |-> <<>>, directors |-> <<>>, ubos |-> <<>>,
           business_contacts |-> <<>>, ownership_structure |-> o,
           business_activity |-> v, transfer_behavior |-> t,
           documents |-> <<>>, upload_mode |-> "BULK"]
  BY <1>1, <1>2, <1>3, <1>4, <1>5 DEF EmptyApplication
<1>8. /\ IsFn(a) /\ DOMAIN a = Fields
      /\ a.business_profile = p /\ a.business_activity = v /\ a.transfer_behavior = t
      /\ a.directors = <<>> /\ a.documents = <<>>
  BY <1>7 DEF IsFn, Fields
<1>9. DirectorsOK(a.directors) /\ a.documents \in Seq(Docs)
  BY <1>8 DEF DirectorsOK
<1>10. \A k \in Objects : ObjectOK(k, a[k])
  BY <1>6, <1>8 DEF Objects
<1>11. Application(a)
  BY <1>8, <1>9, <1>10 DEF Application, AppOK
<1> QED BY <1>1, <1>8, <1>11

(* The first state.                                                        *)
LEMMA InitInv ==
  ASSUME Init
  PROVE  Inv
<1>1. ShapeInv
  <2>1. Application(app)
    BY EmptyOK DEF Init
  <2>3. PlaceInv
    BY DEF Init, PlaceInv, Steps
  <2>4. clicks \in 0..MaxClicks
    BY IntakeAssumption DEF Init
  <2>5. ghost \in Ghosts
    BY DEF Init, Ghosts
  <2> QED BY <2>1, <2>3, <2>4, <2>5 DEF ShapeInv
<1>2. PendingInv
  <2>1. pending = <<>> /\ DOMAIN pending = {}
    BY DEF Init
  <2>2. pending \in Seq(Items)
    BY <2>1
  <2> QED BY <2>1, <2>2 DEF PendingInv
<1>3. JobInv /\ IdInv /\ WaitInv /\ VerdictIsOfType /\ BatchInv
  BY DEF Init, JobInv, IdInv, OneEntry, OneJob, WaitInv, VerdictIsOfType, BatchInv
<1>4. EveryFileAccounted
  BY DEF Init, EveryFileAccounted
<1>5. RowsInv
  BY DEF Init, RowsInv, RowsKeepTheirPerson
<1> QED BY <1>1, <1>2, <1>3, <1>4, <1>5 DEF Inv, Core, EntriesInv

(* The inductive invariant holds of every behaviour.                       *)
THEOREM IntakeInvariant == Spec => []Inv
<1>1. Init => Inv
  BY InitInv
<1>2. Inv /\ [Next]_vars => Inv'
  BY EveryStep, RowsStep DEF Inv, StepOK
<1> QED BY <1>1, <1>2, PTL DEF Spec

(* Every file is where it should be: no file that fails verification       *)
(* becomes a document, an entry that is done shows the verdict of its type *)
(* unless it was retyped early, and no file that was added is lost without *)
(* the user's hand on it, whatever is added, retyped, removed, processed   *)
(* or left while verifications and the parser run.                         *)
THEOREM FilesStaySound == Spec => []FilesSound
<1>1. Inv => FilesSound
  <2> SUFFICES ASSUME Inv PROVE FilesSound
    OBVIOUS
  <2>1. /\ clicks \in 0..MaxClicks /\ ghost \in Ghosts /\ PendingInv /\ EntriesInv
        /\ Application(app) /\ PlaceInv
    BY CoreFacts DEF Inv
  <2>2. \A i \in DOMAIN app.documents : app.documents[i] \in Docs
    BY <2>1 DEF Application
  <2>3. TypeOK
    <3>1. DOMAIN app = DOMAIN EmptyApplication
      BY <2>1, EmptyOK DEF Application, AppOK
    <3>2. \A i \in DOMAIN app.documents : app.documents[i].verification \in Verdicts
      BY <2>2 DEF Docs
    <3>3. \A i \in DOMAIN pending :
            pending[i].verifying \/ pending[i].verification \in Verdicts
      BY <2>1 DEF PendingInv, ItemSound
    <3>4. ghost.stale \in BOOLEAN
      BY <2>1 DEF Ghosts
    <3> QED BY <2>1, <3>1, <3>2, <3>3, <3>4 DEF TypeOK, PlaceInv
  <2>4. NoFailedFiled
    <3>1. ASSUME NEW i \in DOMAIN app.documents, app.documents[i].file # Null
          PROVE  verifyDocument(app.documents[i].file, app.documents[i].doc_type) # "FAIL"
      <4>1. PICK d \in Docs : d = app.documents[i]
        BY <2>2
      <4>2. ~ Fails(d.file)
        BY <3>1, <4>1 DEF Docs
      <4>3. verifyDocument(d.file, d.doc_type) # "FAIL"
        BY <4>2, VerdictIs
      <4> QED BY <4>1, <4>3
    <3> QED BY <3>1 DEF NoFailedFiled
  <2> QED BY <2>1, <2>3, <2>4 DEF FilesSound, Inv, Core, EntriesInv
<1> QED BY <1>1, IntakeInvariant, PTL

(* A batch reads into the application what its files would, processed one  *)
(* by one in the same order, for any answers of the parser: each mapper    *)
(* sees what was read before it.                                           *)
THEOREM BatchesReadInSequence == Spec => []BatchIsSequential
<1>1. Inv => BatchIsSequential
  <2> SUFFICES ASSUME Inv, NEW b \in batches, NEW results \in Answers(b), NEW base,
                      base = Spread(b.app, b.prefill)
               PROVE  Spread(base, mapExtractionToApplication(results, base))
                      = OneByOne(results, base)
    BY DEF BatchIsSequential
  <2>1. BatchOK(b)
    BY DEF Inv, Core, BatchInv
  <2>2. Len(results) \in Nat /\ AppOK(base)
    BY <2>1, AnswerOK
  <2> QED BY <2>2, ExtractionOK
<1> QED BY <1>1, IntakeInvariant, PTL

(* The inputs of a director's card are those of the person in its title,   *)
(* whatever batches, late ones too, read into the application while the    *)
(* step is open.                                                           *)
THEOREM RowsKeepPersons == Spec => []RowsKeepTheirPerson
<1>1. Inv => RowsKeepTheirPerson
  BY DEF Inv, RowsInv
<1> QED BY <1>1, IntakeInvariant, PTL

(* A batch adds documents and completes people and addresses, and takes    *)
(* nothing back, unless it ends after the application it was started on    *)
(* has changed.                                                            *)
THEOREM DocumentsTakeNothingBack == Spec => NothingTakenBack
<1>1. Inv /\ [Next]_vars =>
        /\ [ghost'.stale \/ IsPrefix(app.documents, app'.documents)]_vars
        /\ [ghost'.stale \/ \A k \in 1..3 : Names(app)[k] \in {<<>>, Names(app')[k]}]_vars
  <2> SUFFICES ASSUME Inv, [Next]_vars
               PROVE  ghost'.stale \/
                        /\ IsPrefix(app.documents, app'.documents)
                        /\ \A k \in 1..3 : Names(app)[k] \in {<<>>, Names(app')[k]}
    OBVIOUS
  <2>1. ghost'.stale \/ Grown(app, app')
    BY EveryStep DEF Inv, StepOK
  <2>2. PICK a, c : a = app /\ c = app'
    OBVIOUS
  <2>3. /\ Names(a)[1] = NamesOf(a.directors) /\ Names(a)[2] = a.ubos
        /\ Names(a)[3] = a.addresses
        /\ Names(c)[1] = NamesOf(c.directors) /\ Names(c)[2] = c.ubos
        /\ Names(c)[3] = c.addresses
    BY DEF Names, NamesOf
  <2>4. Grown(a, c) => /\ IsPrefix(a.documents, c.documents)
                       /\ \A k \in 1..3 : Names(a)[k] \in {<<>>, Names(c)[k]}
    <3> SUFFICES ASSUME Grown(a, c), NEW k \in {1, 2, 3}
                 PROVE  Names(a)[k] \in {<<>>, Names(c)[k]}
      BY DEF Grown
    <3> QED BY <2>3 DEF Grown, Lists
  <2> QED BY <2>1, <2>2, <2>4
<1>2. Spec => [][Next]_vars
  BY PTL DEF Spec
<1> QED BY <1>1, <1>2, IntakeInvariant, PTL DEF NothingTakenBack, DocumentsOnlyGrow, ListsKept
=============================================================================
