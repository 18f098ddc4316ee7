---------------------------- MODULE AuditReasons ----------------------------
(***************************************************************************)
(* The reason table of the audit log (proxy/src/audit.rs) and how the      *)
(* errors of attest.rs and machine.rs map onto it.                         *)
(***************************************************************************)

\* Where in the pipeline a reason is detected, and how seriously to take it.
At(stage, risk) == [stage |-> stage, risk |-> risk]

Reasons ==
  [RateLimited |-> At("RateLimit", "Medium"),
   NoAttestationHeaders |-> At("AttestationHeaders", "Low"),
   IncompleteAttestationHeaders |-> At("AttestationHeaders", "High"),
   MachineCertMissing |-> At("MachineIdentity", "Medium"),
   MachineCertMalformed |-> At("MachineIdentity", "High"),
   MachineCertNoCommonName |-> At("MachineIdentity", "High"),
   MachineCertUnsafeCommonName |-> At("MachineIdentity", "High"),
   MachineHostnameNotAllowed |-> At("MachineIdentity", "High"),
   MachineCertExpired |-> At("MachineIdentity", "Medium"),
   MachineCertNotYetValid |-> At("MachineIdentity", "Medium"),
   MachineCertUntrusted |-> At("MachineIdentity", "High"),
   MachineHostnameUnresolvable |-> At("MachineIdentity", "Medium"),
   MachineAddressMismatch |-> At("MachineIdentity", "High"),
   MachineNoClientAddress |-> At("MachineIdentity", "Medium"),
   TimestampInvalid |-> At("AttestationToken", "High"),
   TimestampOutOfWindow |-> At("AttestationToken", "Medium"),
   NonceInvalid |-> At("AttestationToken", "High"),
   NonceReplay |-> At("AttestationToken", "High"),
   TokenMalformed |-> At("AttestationToken", "High"),
   TokenDecryptFailed |-> At("AttestationToken", "High"),
   TokenRequestMismatch |-> At("AttestationToken", "Critical"),
   BodyTooLarge |-> At("AttestationBody", "Medium"),
   BodyHashMismatch |-> At("AttestationBody", "Critical"),
   BodyReadFailed |-> At("Downstream", "Low"),
   RequestMalformed |-> At("Downstream", "High"),
   UpstreamError |-> At("Upstream", "Medium"),
   DownstreamError |-> At("Downstream", "Low"),
   InternalError |-> At("Internal", "Medium")]

Reason == DOMAIN Reasons
StageOf == [r \in Reason |-> Reasons[r].stage]

\* The risk of a record: "Info" when nothing went wrong.
Risks == {"Info", "Low", "Medium", "High", "Critical"}
RiskOf(reason) == IF reason = "none" THEN "Info" ELSE Reasons[reason].risk

IsAttestation(reason) ==
  StageOf[reason] \in {"AttestationHeaders", "AttestationToken",
                       "AttestationBody"}

\* AttestError::reason.
AttestReason ==
  [BadTimestamp |-> "TimestampInvalid",
   TimestampDrift |-> "TimestampOutOfWindow",
   CommitTooLate |-> "TimestampOutOfWindow",
   InvalidNonce |-> "NonceInvalid",
   NonceReplay |-> "NonceReplay",
   InvalidToken |-> "TokenMalformed",
   DecryptFailed |-> "TokenDecryptFailed",
   PlaintextMismatch |-> "TokenRequestMismatch",
   BodyHashMismatch |-> "BodyHashMismatch"]

\* MachineError::reason.
MachineReason ==
  [Missing |-> "MachineCertMissing",
   NotBase64 |-> "MachineCertMalformed",
   NotDer |-> "MachineCertMalformed",
   UntrustedChain |-> "MachineCertUntrusted",
   CertExpired |-> "MachineCertExpired",
   CertNotYetValid |-> "MachineCertNotYetValid",
   NoCommonName |-> "MachineCertNoCommonName",
   UnsafeCommonName |-> "MachineCertUnsafeCommonName",
   HostnameNotAllowed |-> "MachineHostnameNotAllowed",
   HostnameAddressMismatch |-> "MachineAddressMismatch",
   HostnameUnresolvable |-> "MachineHostnameUnresolvable",
   NoClientAddress |-> "MachineNoClientAddress"]

\* MachineError::chain_verified: the errors found after the chain verified.
ChainVerified(e) == e \in {"HostnameAddressMismatch", "HostnameUnresolvable"}
=============================================================================
