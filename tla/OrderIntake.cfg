\* Two ERP orders, subjects and arguments of up to three lines.
SPECIFICATION Spec
CONSTANTS
    None = None
    Code = {1, 2, 3, 4, 5, 6, 7}
    Spelling <- MCSpelling
    MaxCode = 3
    Catalog <- MCCatalog
    MaxLines = 2
    MaxQuantity = 2
    MaxUnits = 1
    Subject <- MCSubject
    Arguments <- MCArguments
INVARIANTS EligibleIsExact PayloadIsTheOrder OfflinePathsAgree
