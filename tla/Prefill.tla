------------------------------- MODULE Prefill -------------------------------
(***************************************************************************)
(* What the onboarding wizard reads out of a document into an application: *)
(* the mappers of extraction.ts for what the parser answers, and the       *)
(* bundled samples.  An update is a function on the fields it sets, as the *)
(* code's Partial<Application>.  A missing value is Null.                  *)
(***************************************************************************)
EXTENDS Naturals, Sequences, SequencesExt

CONSTANT Null

(* { ...a, ...b } *)
Spread(a, b) ==
  [k \in DOMAIN a \cup DOMAIN b |-> IF k \in DOMAIN b THEN b[k] ELSE a[k]]

(* a || b *)
Or(a, b) == IF a = Null THEN b ELSE a

NoUpdate == [k \in {} |-> Null]

(* Fields whose value is an object; the others hold arrays.                *)
Objects == {"business_profile", "business_activity", "transfer_behavior"}

deepMerge(a, b) ==
  Spread(a, [k \in DOMAIN b |->
               IF k \in Objects /\ k \in DOMAIN a THEN Spread(a[k], b[k]) ELSE b[k]])

(* A row of the directors.  Its id is random in the code: here it is the   *)
(* reading that made the row and the place of the row in it.               *)
Director(from, data, i, full_name, passport_number) ==
  [id |-> <<from, data, i>>, full_name |-> full_name, passport_number |-> passport_number]

-----------------------------------------------------------------------------
mapMemorandum(data, app) ==
  LET old      == app.business_profile
      profile  == [business_profile |->
                     Spread(old, [legal_name |-> Or(data.company_name, old.legal_name),
                                  incorporation_date |->
                                    Or(data.date_of_formation, old.incorporation_date)])]
      directors == IF data.directors # <<>> /\ app.directors = <<>>
                   THEN [directors |-> [i \in DOMAIN data.directors |->
                           Director("MEMORANDUM_OF_ASSOCIATION", data, i,
                                    data.directors[i], Null)]]
                   ELSE NoUpdate
      holders  == SelectSeq(data.shareholders, LAMBDA s : s.share_percentage >= 10)
      ubos     == IF data.shareholders # <<>> /\ app.ubos = <<>>
                  THEN [ubos |-> [i \in DOMAIN holders |-> holders[i].name]] ELSE NoUpdate
      address  == IF data.registered_address # Null /\ app.addresses = <<>>
                  THEN [addresses |-> <<data.registered_address>>] ELSE NoUpdate
      activity == IF data.business_activities # <<>>
                  THEN [business_activity |->
                          Spread(app.business_activity,
                                 [primary_activity |-> data.business_activities[1]])]
                  ELSE NoUpdate
  IN  Spread(Spread(Spread(profile, directors), Spread(ubos, address)), activity)

Named(app, name) == {i \in DOMAIN app.directors : app.directors[i].full_name = name}

(* Fault: the director of the passport replaces whoever was there.         *)
mapPassportReplaces(data, app) ==
  IF data.full_name = Null THEN NoUpdate
  ELSE [directors |-> <<Director("PASSPORT", data, 1, data.full_name, data.id_number)>>]

(* A passport completes the director it names, or is the first director.   *)
mapPassport(data, app) ==
  LET existing == Named(app, data.full_name)
      first    == CHOOSE i \in existing : \A j \in existing : i <= j
  IN  IF data.full_name = Null THEN NoUpdate
      ELSE IF existing # {}
      THEN [directors |->
              [i \in DOMAIN app.directors |->
                 IF i = first
                 THEN Spread(app.directors[i],
                             [passport_number |->
                                Or(data.id_number, app.directors[i].passport_number)])
                 ELSE app.directors[i]]]
      ELSE IF app.directors = <<>>
      THEN [directors |-> <<Director("PASSPORT", data, 1, data.full_name, data.id_number)>>]
      ELSE NoUpdate

(* The nationality it may add to a director is not modelled: what is left  *)
(* of a national id is that it returns the directors as they are, if it    *)
(* has an address.                                                         *)
mapNationalId(data, app) ==
  IF Named(app, data.full_name) # {} /\ data.address # Null
  THEN [directors |-> app.directors] ELSE NoUpdate

mapBankStatement(data, app) ==
  Spread(IF data.total_credits = Null THEN NoUpdate
         ELSE [transfer_behavior |->
                 [expected_monthly_volume_usd |-> data.total_credits,
                  primary_transfer_purpose |->
                    Or(app.transfer_behavior.primary_transfer_purpose, "operating")]],
         IF data.account_holder # Null /\ app.business_profile.legal_name = Null
         THEN [business_profile |->
                 Spread(app.business_profile, [legal_name |-> data.account_holder])]
         ELSE NoUpdate)

mapTradeLicense(data, app) ==
  LET old == app.business_profile
  IN  [business_profile |->
         Spread(old, [legal_name |-> Or(data.legal_name, old.legal_name),
                      license_number |-> Or(data.license_number, old.license_number)])]

mapCoi(data, app) ==
  LET old == app.business_profile
  IN  [business_profile |->
         Spread(old, [legal_name |-> Or(data.company_name, old.legal_name),
                      incorporation_date |->
                        Or(data.incorporation_date, old.incorporation_date)])]

mapProofOfAddress(data, app) ==
  IF app.addresses # <<>> THEN NoUpdate ELSE [addresses |-> <<data.line1>>]

MAPPERS(docType, data, app) ==
  CASE docType = "MEMORANDUM_OF_ASSOCIATION"    -> mapMemorandum(data, app)
    [] docType = "PASSPORT"                     -> mapPassport(data, app)
    [] docType = "EMIRATES_ID"                  -> mapNationalId(data, app)
    [] docType = "BANK_STATEMENT"               -> mapBankStatement(data, app)
    [] docType = "TRADE_LICENSE"                -> mapTradeLicense(data, app)
    [] docType = "CERTIFICATE_OF_INCORPORATION" -> mapCoi(data, app)
    [] docType = "PROOF_OF_ADDRESS"             -> mapProofOfAddress(data, app)
    [] OTHER                                    -> NoUpdate

(* Fault: every mapper sees the application as it was before the batch.    *)
mapExtractionUnmerged(results, app) ==
  LET merged[k \in 0..Len(results)] ==
        IF k = 0 THEN NoUpdate
        ELSE IF results[k].data = Null THEN merged[k - 1]
        ELSE deepMerge(merged[k - 1], MAPPERS(results[k].docType, results[k].data, app))
  IN  merged[Len(results)]

(* Results are folded in order, each mapper seeing the application with    *)
(* what was read before; a result that failed (Null) is skipped.           *)
Merge(merged, r, app) ==
  IF r.data = Null THEN merged
  ELSE deepMerge(merged, MAPPERS(r.docType, r.data, Spread(app, merged)))

mapExtractionToApplication(results, app) ==
  LET merged[k \in 0..Len(results)] ==
        IF k = 0 THEN NoUpdate ELSE Merge(merged[k - 1], results[k], app)
  IN  merged[Len(results)]

-----------------------------------------------------------------------------
(* The bundled samples.  Lists that have entries are left as they are,     *)
(* objects get the sample's values.                                        *)
samplePeople(docType, app) ==
  CASE docType = "MEMORANDUM_OF_ASSOCIATION" ->
         [ownership_structure |-> [app.ownership_structure EXCEPT !.is_subsidiary = FALSE],
          ubos |-> IF app.ubos # <<>> THEN app.ubos ELSE <<"ahmed", "sarah">>]
    [] docType = "PASSPORT" ->
         [directors |-> IF app.directors # <<>> THEN app.directors
                        ELSE <<Director("sample", Null, 1, "ahmed", "sample")>>]
    [] docType = "EMIRATES_ID" -> [directors |-> app.directors]
    [] docType = "PROOF_OF_ADDRESS" ->
         [addresses |-> IF app.addresses # <<>> THEN app.addresses
                        ELSE <<"office", "apartment">>]

applyPrefill(docType, app) ==
  CASE docType = "TRADE_LICENSE" ->
         [business_profile |-> Spread(app.business_profile, [legal_name |-> "sample",
                                                             license_number |-> "sample"])]
    [] docType = "CERTIFICATE_OF_INCORPORATION" ->
         [business_profile |-> Spread(app.business_profile,
                                      [incorporation_date |-> "sample"])]
    [] docType = "BANK_STATEMENT" ->
         [transfer_behavior |-> [expected_monthly_volume_usd |-> "sample",
                                 primary_transfer_purpose |-> "operating"]]
    [] OTHER -> samplePeople(docType, app)

processSampleEntries(types, app) ==
  LET prefill[k \in 0..Len(types)] ==
        IF k = 0 THEN NoUpdate
        ELSE Spread(prefill[k - 1], applyPrefill(types[k], Spread(app, prefill[k - 1])))
  IN  prefill[Len(types)]
=============================================================================
