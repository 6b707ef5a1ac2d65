CONSTANTS
  t1 = t1  t2 = t2
  d1 = d1  d2 = d2  d3 = d3
  lathe = lathe  press = press
  bolt = bolt  oil = oil  k1 = k1
  None = None  Blank = Blank
  Threads = {t1, t2}
  Cods = {d1, d2, d3}
  Names = {lathe, press}
  DeviceForms <- FormsOfDevices
  PassportForms <- FormsOfPassports
  Imported <- Left
  Limit = 1
  Titles = {bolt, oil}
  Codes <- Numbers
  FirstGoods = 0
  Devices = {k1}
  Fields <- Four
  Template <- InTemplate
  Resembling = {k1}
  KeyForms <- Given
SPECIFICATION MCSpec
INVARIANTS TypesOK NamesAgree DevicesBounded SubstitutesOnlyForKey
PROPERTIES HandlersFinish CodesKept QuietSaveIsFresh
