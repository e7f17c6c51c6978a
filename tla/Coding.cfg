\* "a", "y" and "+", nine of them; texts of up to three blocks; lines of five.
SPECIFICATION MCSpec
CONSTANTS
  Char = {97, 121, 43}
  MaxLength = 9
  Length <- MCLength
  Option = {"db_type"}
  Value = {"sqlite3"}
  MaxLine = 5
CHECK_DEADLOCK FALSE
INVARIANTS KeyIsParkMiller CutAtKeyByte HashedWhole LastSettingCounts
