SPECIFICATION Spec
CONSTANT MaxFormats = 3
INVARIANTS TypeOK RamServes FatServes FormatAlone HalfFormatHasOldMbr
PROPERTIES PreferredIsFormatted RefinesFileService
