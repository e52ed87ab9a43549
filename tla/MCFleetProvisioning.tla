------------------------ MODULE MCFleetProvisioning ------------------------
(* FleetProvisioning for TLC. *)
EXTENDS FleetProvisioning

MCFilters == ProvisioningFilters
MCPayloads == Accepted \cup Rejected \cup Requests \cup {Zeroed}
MCCopied == Accepted
=============================================================================
