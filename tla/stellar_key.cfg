\* Keys of two bytes: with version and checksum 40 bits, which end on a group as
\* the 280 bits of the real key do.  Slips: "=", "0", "1", "A", "I", "7", "b", "-".
CONSTANTS
    BYTE_LENGTH = 2
    KeyBytes = {0, 1, 90, 255}
    SlipChars = {61, 48, 49, 65, 73, 55, 98, 45}
    MaxSlips = 1
SPECIFICATION Spec
INVARIANTS
    EveryKeyAccepted
    IssuerIsTheOneMeant
    IssuerReadsBack
    Base32IsGroupsOfFive
\* The constructor runs once.
CHECK_DEADLOCK FALSE
