\* One worker with both scans, and a page that only migrates.
SPECIFICATION SpecFair
CONSTANTS
    Worker <- MCWorker
    Page <- MCPage
    Migration <- MCMigration
    Shipped <- MCShipped
    MaxSignal = 3
    Stored = 1
    Keep = 1
    Slack = 1
    Limit = 2
INVARIANTS TypeOK SchemaReady
PROPERTIES EvidenceKept ScansGoOn StopsWhenAsked
