---------------------------- MODULE WorkOrdersMC ----------------------------
(***************************************************************************)
(* The instance TLC checks: an order of the specialist `catalog`, whose    *)
(* pack holds all its preflight asks for, as the in-memory reader of the   *)
(* tests can supply.  The assumption ties the values given to the catalog  *)
(* of agents.                                                              *)
(***************************************************************************)
EXTENDS WorkOrders, TLC

CONSTANT order

Company == INSTANCE CompanyCatalog

Pack == {"listing-snapshot", "product-source", "market-evidence"}
Chain == Company!ContractChain("catalog")
Admitted(contract) ==
    Company!SessionStatusFor(Company!GovernedVerdict(contract, "catalog", "", Pack, 1000),
                             Company!GovernedMissing(contract, Pack))

CatalogDepth == order :> 3
CatalogPackSuffices == order :> TRUE
CatalogAdmission == order :> <<"queued", "queued", "queued">>

ASSUME CatalogAssumption ==
    /\ Len(Chain) = CatalogDepth[order]
    /\ CatalogPackSuffices[order] = (Company!EnqueueKindsMissing("catalog", Pack) = {})
    /\ \A l \in DOMAIN Chain : CatalogAdmission[order][l] = Admitted(Chain[l])
=============================================================================
