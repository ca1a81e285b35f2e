------------------------------- MODULE MCCodec -------------------------------
EXTENDS Codec

\* Every message whose Decode reads all that its Encode writes.
MCNames == DOMAIN Layouts \ {"SetCustomMiningJob"}
=============================================================================
