--------------------------- MODULE MCEvidenceStore ---------------------------
(* Instances of EvidenceStore: the scan worker and an API request storing    *)
(* evidence, one retention job or two, one hold request at a time.           *)
EXTENDS EvidenceStore

CONSTANTS e1, e2, scanner, api, p1, p2
=============================================================================
