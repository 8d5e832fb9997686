CONSTANTS
  Drawer = drawer
  Bank = bank
  Stock = 2
  MaxQty = 2
  MaxPrice = 2
  MaxEdits = 2
  NoEntry = NoEntry
  Nothing = Nothing
SPECIFICATION SalesSpec
INVARIANTS SalesTypeOK BooksMatchInvoice StockMatchesItems EditedAsAsked VoidReturnsTheMoney
CHECK_DEADLOCK FALSE
