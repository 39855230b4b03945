SPECIFICATION MigrationSpec
CONSTANTS
    Tenant = {t1}
    Dependent = {"usage", "operations"}
    Import = {b1, b2}
    Migrator = {m1}
    MaxEdits = 2
    MaxMigrations = 4
PROPERTIES
    UnrelatedKept
CHECK_DEADLOCK FALSE
