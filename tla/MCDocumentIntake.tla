-------------------------- MODULE MCDocumentIntake --------------------------
(***************************************************************************)
(* A memorandum and a passport, dropped together, and four other files,    *)
(* one of them too small to read; a file may also be taken for a national  *)
(* id.  Two samples.                                                       *)
(***************************************************************************)
EXTENDS DocumentIntake

CONSTANTS moa, pass, coi, bank, proof, tiny

MCFiles == {moa, pass, coi, bank, proof, tiny}
MCDrops == {<<moa, pass>>, <<coi, bank, proof, tiny>>}
MCTypes == {"EMIRATES_ID"}
MCSamples == <<"PASSPORT", "BANK_STATEMENT">>
MCTraits ==
  [f \in MCFiles |->
     CASE f = moa  -> [named |-> "MEMORANDUM_OF_ASSOCIATION", format |-> "pdf", flags |-> {}]
       [] f = pass -> [named |-> "PASSPORT", format |-> "pdf", flags |-> {}]
       [] f = bank -> [named |-> "BANK_STATEMENT", format |-> "pdf", flags |-> {}]
       [] f = coi  -> [named |-> "CERTIFICATE_OF_INCORPORATION", format |-> "pdf",
                       flags |-> {}]
       [] f = proof -> [named |-> "PROOF_OF_ADDRESS", format |-> "pdf", flags |-> {}]
       [] f = tiny -> [named |-> "OTHER", format |-> "pdf", flags |-> {"ILLEGIBLE"}]]
MCData ==
  [f \in MCFiles |->
     [t \in SampleTypes \cup {"OTHER"} |->
        CASE t = "MEMORANDUM_OF_ASSOCIATION" ->
               [file |-> f, company_name |-> "company", date_of_formation |-> Null,
                directors |-> <<"ahmed", "sarah">>,
                shareholders |-> <<[name |-> "ahmed", share_percentage |-> 60],
                                   [name |-> "ali", share_percentage |-> 5]>>,
                registered_address |-> "office", business_activities |-> <<"trading">>]
          [] t = "PASSPORT" ->
               [file |-> f, full_name |-> "sarah", id_number |-> "p1"]
          [] t = "EMIRATES_ID" -> [full_name |-> "sarah", address |-> "home"]
          [] t = "BANK_STATEMENT" -> [total_credits |-> "volume", account_holder |-> "holder"]
          [] t = "TRADE_LICENSE" -> [legal_name |-> "licensed", license_number |-> "l1"]
          [] t = "CERTIFICATE_OF_INCORPORATION" ->
               [company_name |-> "company", incorporation_date |-> "d1"]
          [] t = "PROOF_OF_ADDRESS" -> [line1 |-> "home"]
          [] OTHER -> Null]]
=============================================================================
