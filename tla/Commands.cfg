SPECIFICATION Spec
CONSTANTS
  Waiter = waiter
  Guest = guest
  Desk = desk
  Till = till
  Cash = cash
  Products = {"cola"}
  MaxWishes = 2
  ProductOf <- Kind
  Amounts = {1, 2}
  MaxChecks = 2
  MaxKeys = 3
  PendingLimit = 1
  MaxTroubles = 2
CHECK_DEADLOCK FALSE
CONSTRAINT TillAndWaiter
INVARIANTS
  CommandsTypeOK
  AnnouncedIsBooked
  TillBooksWhatItSays
  NothingTwice
  ApprovedOnce
  NeverOverpaid
