\* nano_febao_dce and nano_api_gfex; the ring fills up.
CONSTANTS
    Variants <- BothVariants
    RingSize = 2
    MaxQuotes = 4
SPECIFICATION Spec
PROPERTIES SilentAfterRelease Drained ReceptionStops ConnectInTimeStarts
