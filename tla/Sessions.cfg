\* Two requests at a time, of two tabs or of the administrator, three refresh
\* tokens, two new passwords, one lost answer.
CONSTANTS
  home = home
  tab1 = tab1
  tab2 = tab2
  Admin = Admin
  NoBrowser = NoBrowser
  Browsers = {home}
  Tabs = {tab1, tab2}
  MaxRequests = 2
  MaxTokens = 3
  MaxPasswords = 2
  MaxLost = 1
SYMMETRY Alike
SPECIFICATION Spec
INVARIANTS TypeOK OneLivePerLogin SignedOut CookieFresh PasswordAsChosen
PROPERTY ReuseSignsOut
