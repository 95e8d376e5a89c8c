--------------------------- MODULE MCVerifyPipeline ---------------------------
(* Verifications of three scopes of required_gate_ids, with one gate for     *)
(* those that have the same parts.                                           *)
EXTENDS VerifyPipeline

LinuxPlatform ==
  [platform |-> "linux",
   gates |-> <<"abi-source", "python-full", "ruby-native-capture", "store-source",
               "packaged-wheel", "source-integrity">>]

LinuxMatrix == [platform |-> "linux", gates |-> <<"command", "local-signing-matrix">>]

MacNative ==
  [platform |-> "darwin",
   gates |-> <<"abi-source", "compat-source", "native-profile-source", "abi-wheel",
               "native-profile-wheel", "source-integrity">>]

AllVerifications == {LinuxPlatform, LinuxMatrix, MacNative}

=============================================================================
