\* Browsing and joining: two servers, two connect() calls, one line per page.
SPECIFICATION Spec
CONSTANTS
  s1 = s1
  s2 = s2
  s3 = s3
  Address = {s1, s2}
  Host = {s1, s2}
  Master = master
  NoHost = nohost
  Info <- MCInfo
  Timeout = 1
  QueryLimit = 1
  Page = 1
  MaxConnects = 2
  MaxAccepts = 2
PROPERTIES JoinsAsAsked
