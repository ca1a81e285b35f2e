------------------------------ MODULE Messages ------------------------------
(***************************************************************************)
(* The layouts of the messages of core.go and mining.go and of the         *)
(* certificate of noise.go: for every message the fields its Encode hands  *)
(* to the BinaryBuilder and the fields its Decode takes from the           *)
(* BinaryReader, each list in the order of its own method.                 *)
(*                                                                         *)
(* A byte has Base values (256 in the code), a U256 HashLen bytes (32), a  *)
(* signature SigLen (64), and a B0_32 at most Bin32Max (32).  The widths   *)
(* of integers and of length prefixes are the real ones.                   *)
(***************************************************************************)
EXTENDS Binary

CONSTANTS HashLen, SigLen, Bin32Max

ASSUME CodecAssumption ==
  /\ Base >= 3
  /\ HashLen \in Nat /\ HashLen >= 1
  /\ SigLen \in Nat /\ SigLen >= 1
  /\ Bin32Max \in 1 .. Base - 2

-----------------------------------------------------------------------------
(* Types of fields.  "width" is the number of bytes of a value or of its   *)
(* length prefix, "limit" the largest length the builder accepts, "range"  *)
(* the largest one the comments allow and "checked" the largest one the    *)
(* reader accepts.  An "array" is read by a conversion of a slice to an    *)
(* array, a "fixed" with U256.SetBytes; a "loop" is a sequence that Decode *)
(* reads with a loop of its own instead of ReadSeq.                        *)

Uint(w) == [kind |-> "int", width |-> w]
U8 == Uint(1)
U16 == Uint(2)
U32 == Uint(4)
U64 == Uint(8)
F32 == Uint(4)   \* the bits of the float
Bool == [kind |-> "bool", width |-> 1]
Fixed(n) == [kind |-> "fixed", width |-> n]
U256 == Fixed(HashLen)
SignatureField == [kind |-> "array", width |-> SigLen]

Bin(w, limit, range, checked) ==
  [kind |-> "bin", width |-> w, limit |-> limit, range |-> range, checked |-> checked]
Str255 == Bin(1, Base - 1, Base - 1, Base - 1)
Bin32  == Bin(1, Bin32Max, Bin32Max, Bin32Max)
Bin255 == Bin(1, Base - 1, Base - 1, Base - 1)
Bin64K == Bin(2, Weight[2] - 1, Weight[2] - 1, Weight[2] - 1)

\* limit16m is 2 ^ 24 - 1, and ^ is Go's exclusive or: 25.  The comment of
\* AddBin16M says 2^24-1, and the reader's check is 2^24-1.
Bin16M == Bin(3, 25, Weight[3] - 1, Weight[3] - 1)

Counted(kind, w, limit, T) ==
  [kind |-> kind, width |-> w, limit |-> limit, range |-> limit, checked |-> limit, elem |-> T]
Option(T) == Counted("seq", 1, 1, T)
Seq255(T) == Counted("seq", 1, Base - 1, T)
Seq64K(T) == Counted("seq", 2, Weight[2] - 1, T)
Loop64K(T) == Counted("loop", 2, Weight[2] - 1, T)

\* One call of the builder or the reader: the field and its type.
name := type == [name |-> name, type |-> type]

-----------------------------------------------------------------------------
(* core.go *)

SetupConnection == [
  enc |-> << "Protocol" := U8, "MinVersion" := U16, "MaxVersion" := U16, "Flags" := U32,
             "EndpointHost" := Str255, "EndpointPort" := U16, "DeviceVendor" := Str255,
             "DeviceHardwareVersion" := Str255, "DeviceFirmware" := Str255, "DeviceID" := Str255 >>,
  dec |-> << "Protocol" := U8, "MinVersion" := U16, "MaxVersion" := U16, "Flags" := U32,
             "EndpointHost" := Str255, "EndpointPort" := U16, "DeviceVendor" := Str255,
             "DeviceHardwareVersion" := Str255, "DeviceFirmware" := Str255, "DeviceID" := Str255 >>]

SetupConnectionSuccess == [
  enc |-> << "UsedVersion" := U16, "Flags" := U32 >>,
  dec |-> << "UsedVersion" := U16, "Flags" := U32 >>]

SetupConnectionError == [
  enc |-> << "Flags" := U32, "ErrorCode" := Str255 >>,
  dec |-> << "Flags" := U32, "ErrorCode" := Str255 >>]

ChannelEndpointChanged == [
  enc |-> << "ChannelID" := U32 >>,
  dec |-> << "ChannelID" := U32 >>]

Reconnect == [
  enc |-> << "NewHost" := Str255, "NewPort" := U16 >>,
  dec |-> << "NewHost" := Str255, "NewPort" := U16 >>]

-----------------------------------------------------------------------------
(* mining.go *)

OpenStandardMiningChannel == [
  enc |-> << "RequestID" := U32, "UserIdentity" := Str255, "NominalHashRate" := F32,
             "MaxTarget" := U256 >>,
  dec |-> << "RequestID" := U32, "UserIdentity" := Str255, "NominalHashRate" := F32,
             "MaxTarget" := U256 >>]

OpenStandardMiningChannelSuccess == [
  enc |-> << "RequestID" := U32, "ChannelID" := U32, "Target" := U256,
             "ExtranoncePrefix" := Bin32, "GroupChannelID" := U32 >>,
  dec |-> << "RequestID" := U32, "ChannelID" := U32, "Target" := U256,
             "ExtranoncePrefix" := Bin32, "GroupChannelID" := U32 >>]

\* Encode embeds the bytes of the standard message (see Embedded); Decode
\* reads them itself.
OpenExtendedMiningChannel == [
  enc |-> OpenStandardMiningChannel.enc \o << "MinExtranonceSize" := U16 >>,
  dec |-> << "RequestID" := U32, "UserIdentity" := Str255, "NominalHashRate" := F32,
             "MaxTarget" := U256, "MinExtranonceSize" := U16 >>]

OpenExtendedMiningChannelSuccess == [
  enc |-> << "RequestID" := U32, "ChannelID" := U32, "Target" := U256, "ExtranonceSize" := U16,
             "ExtranoncePrefix" := Bin32, "GroupChannelID" := U32 >>,
  dec |-> << "RequestID" := U32, "ChannelID" := U32, "Target" := U256, "ExtranonceSize" := U16,
             "ExtranoncePrefix" := Bin32, "GroupChannelID" := U32 >>]

OpenMiningChannelError == [
  enc |-> << "RequestID" := U32, "ErrorCode" := Str255 >>,
  dec |-> << "RequestID" := U32, "ErrorCode" := Str255 >>]

UpdateChannel == [
  enc |-> << "ChannelID" := U32, "NominalHashRate" := F32, "MaxTarget" := U256 >>,
  dec |-> << "ChannelID" := U32, "NominalHashRate" := F32, "MaxTarget" := U256 >>]

UpdateChannelError == [
  enc |-> << "ChannelID" := U32, "ErrorCode" := Str255 >>,
  dec |-> << "ChannelID" := U32, "ErrorCode" := Str255 >>]

CloseChannel == [
  enc |-> << "ChannelID" := U32, "ReasonCode" := Str255 >>,
  dec |-> << "ChannelID" := U32, "ReasonCode" := Str255 >>]

SetExtranoncePrefix == [
  enc |-> << "ChannelID" := U32, "ExtranoncePrefix" := Bin32 >>,
  dec |-> << "ChannelID" := U32, "ExtranoncePrefix" := Bin32 >>]

SubmitSharesStandard == [
  enc |-> << "ChannelID" := U32, "Sequence" := U32, "JobID" := U32, "Nonce" := U32,
             "Time" := U32, "Version" := U32 >>,
  dec |-> << "ChannelID" := U32, "Sequence" := U32, "JobID" := U32, "Nonce" := U32,
             "Time" := U32, "Version" := U32 >>]

SubmitSharesExtended == [
  enc |-> SubmitSharesStandard.enc \o << "Extranonce" := Bin32 >>,
  dec |-> << "ChannelID" := U32, "Sequence" := U32, "JobID" := U32, "Nonce" := U32,
             "Time" := U32, "Version" := U32, "Extranonce" := Bin32 >>]

SubmitSharesSuccess == [
  enc |-> << "ChannelID" := U32, "LastSequenceNumber" := U32, "NewSubmitsAcceptedCount" := U32,
             "NewSharesSum" := U64 >>,
  dec |-> << "ChannelID" := U32, "LastSequenceNumber" := U32, "NewSubmitsAcceptedCount" := U32,
             "NewSharesSum" := U64 >>]

SubmitSharesError == [
  enc |-> << "ChannelID" := U32, "SequenceNumber" := U32, "ErrorCode" := Str255 >>,
  dec |-> << "ChannelID" := U32, "SequenceNumber" := U32, "ErrorCode" := Str255 >>]

NewMiningJob == [
  enc |-> << "ChannelID" := U32, "JobID" := U32, "MinTime" := Option(U32), "Version" := U32,
             "MerkleRoot" := U256 >>,
  dec |-> << "ChannelID" := U32, "JobID" := U32, "MinTime" := Option(U32), "Version" := U32,
             "MerkleRoot" := U256 >>]

NewExtendedMiningJob == [
  enc |-> << "ChannelID" := U32, "JobID" := U32, "MinTime" := Option(U32), "Version" := U32,
             "VersionRollingAllowed" := Bool, "MerklePath" := Seq255(U256),
             "CoinbasePrefix" := Bin64K, "CoinbaseSuffix" := Bin64K >>,
  dec |-> << "ChannelID" := U32, "JobID" := U32, "MinTime" := Option(U32), "Version" := U32,
             "VersionRollingAllowed" := Bool, "MerklePath" := Seq255(U256),
             "CoinbasePrefix" := Bin64K, "CoinbaseSuffix" := Bin64K >>]

SetNewPrevHash == [
  enc |-> << "ChannelID" := U32, "JobID" := U32, "PrevHash" := U256, "MinTime" := U32, "Bits" := U32 >>,
  dec |-> << "ChannelID" := U32, "JobID" := U32, "PrevHash" := U256, "MinTime" := U32, "Bits" := U32 >>]

\* The outputs of the coinbase transaction are serialised by the wire package
\* and stand here for their bytes.  Decode reads neither them nor the path.
SetCustomMiningJob == [
  enc |-> << "ChannelID" := U32, "RequestID" := U32, "MiningJobToken" := Bin255, "Version" := U32,
             "PrevHash" := U256, "MinTime" := U32, "Bits" := U32, "CoinbaseVersion" := U32,
             "CoinbasePrefix" := Bin255, "CoinbaseSequence" := U32, "CoinbaseOutputs" := Bin64K,
             "CoinbaseLocktime" := U32, "MerklePath" := Seq255(U256) >>,
  dec |-> << "ChannelID" := U32, "RequestID" := U32, "MiningJobToken" := Bin255, "Version" := U32,
             "PrevHash" := U256, "MinTime" := U32, "Bits" := U32, "CoinbaseVersion" := U32,
             "CoinbasePrefix" := Bin255, "CoinbaseSequence" := U32, "CoinbaseLocktime" := U32 >>]

SetCustomMiningJobSuccess == [
  enc |-> << "ChannelID" := U32, "RequestID" := U32, "JobID" := U32 >>,
  dec |-> << "ChannelID" := U32, "RequestID" := U32, "JobID" := U32 >>]

SetCustomMiningJobError == [
  enc |-> << "ChannelID" := U32, "RequestID" := U32, "ErrorCode" := Str255 >>,
  dec |-> << "ChannelID" := U32, "RequestID" := U32, "ErrorCode" := Str255 >>]

SetTarget == [
  enc |-> << "ChannelID" := U32, "MaxTarget" := U256 >>,
  dec |-> << "ChannelID" := U32, "MaxTarget" := U256 >>]

SetGroupChannel == [
  enc |-> << "GroupChannelID" := U32, "ChannelIDs" := Seq64K(U32) >>,
  dec |-> << "GroupChannelID" := U32, "ChannelIDs" := Loop64K(U32) >>]

-----------------------------------------------------------------------------
(* noise.go *)

SIGNATURE_NOISE_MESSAGE == [
  enc |-> << "Version" := U16, "ValidFrom" := U32, "NotValidAfter" := U32,
             "Signature" := SignatureField >>,
  dec |-> << "Version" := U16, "ValidFrom" := U32, "NotValidAfter" := U32,
             "Signature" := SignatureField >>]

-----------------------------------------------------------------------------
\* How many fields a message embeds: Encode takes their bytes from the Encode
\* of the embedded struct, and returns nil with its error if it fails.
Embedded(n) ==
  CASE n = "OpenExtendedMiningChannel" -> Len(OpenStandardMiningChannel.enc)
    [] n = "SubmitSharesExtended" -> Len(SubmitSharesStandard.enc)
    [] OTHER -> 0

\* The messages by name, and one more layout for the type that none of them
\* uses, a B0_16M.
Layouts == [
  SetupConnection |-> SetupConnection,
  SetupConnectionSuccess |-> SetupConnectionSuccess,
  SetupConnectionError |-> SetupConnectionError,
  ChannelEndpointChanged |-> ChannelEndpointChanged,
  Reconnect |-> Reconnect,
  OpenStandardMiningChannel |-> OpenStandardMiningChannel,
  OpenStandardMiningChannelSuccess |-> OpenStandardMiningChannelSuccess,
  OpenExtendedMiningChannel |-> OpenExtendedMiningChannel,
  OpenExtendedMiningChannelSuccess |-> OpenExtendedMiningChannelSuccess,
  OpenMiningChannelError |-> OpenMiningChannelError,
  UpdateChannel |-> UpdateChannel,
  UpdateChannelError |-> UpdateChannelError,
  CloseChannel |-> CloseChannel,
  SetExtranoncePrefix |-> SetExtranoncePrefix,
  SubmitSharesStandard |-> SubmitSharesStandard,
  SubmitSharesExtended |-> SubmitSharesExtended,
  SubmitSharesSuccess |-> SubmitSharesSuccess,
  SubmitSharesError |-> SubmitSharesError,
  NewMiningJob |-> NewMiningJob,
  NewExtendedMiningJob |-> NewExtendedMiningJob,
  SetNewPrevHash |-> SetNewPrevHash,
  SetCustomMiningJob |-> SetCustomMiningJob,
  SetCustomMiningJobSuccess |-> SetCustomMiningJobSuccess,
  SetCustomMiningJobError |-> SetCustomMiningJobError,
  SetTarget |-> SetTarget,
  SetGroupChannel |-> SetGroupChannel,
  SIGNATURE_NOISE_MESSAGE |-> SIGNATURE_NOISE_MESSAGE,
  B0_16M |-> [enc |-> << "Bytes" := Bin16M >>, dec |-> << "Bytes" := Bin16M >>]]
=============================================================================
