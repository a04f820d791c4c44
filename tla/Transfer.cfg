CONSTANTS
  Size = 3
  REDIRECT_MAX = 2
  MaxLength = 4
SPECIFICATION TransferSpec
INVARIANTS
  TransferTypeOK
  FetchedAsPromised
  HonestTransferCompletes
